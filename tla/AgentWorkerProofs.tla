-------------------------- MODULE AgentWorkerProofs --------------------------
(***************************************************************************)
(* The invariants of AgentWorker for every set of commands and processes,  *)
(* every MaxAttempts and every number of stops, store errors and seconds.  *)
(* The inductive invariant says which rows of ResultQueue and which        *)
(* attempts the processes in RunOnce still own.                            *)
(***************************************************************************)
EXTENDS AgentWorker, TLAPS

Busy(p) == pc[p] \in {"claimed", "ran", "saved", "onResult"}

\* A command is claimed MaxAttempts times at most, and not before it is queued.
AttemptsBounded ==
    \A c \in Commands :
        /\ attempts[c] <= MaxAttempts
        /\ status[c] = "NONE" => attempts[c] = 0

\* A process in RunOnce has claimed one of the attempts made so far.
ClaimIsPast ==
    \A p \in Processes :
        Busy(p) => cur[p] \in Commands /\ att[p] \in AttemptNos /\ att[p] <= attempts[cur[p]]

\* After exec.Run there is an exit code; an undecodable payload has no success.
ExitIsKnown ==
    \A p \in Processes :
        pc[p] \in {"ran", "saved", "onResult"} =>
            exit[p] \in ExitCodes /\ (cur[p] \in Undecodable => exit[p] = "nonzero")

\* Nothing was run or saved for an attempt that was not made.
FutureIsEmpty ==
    \A c \in Commands, k \in AttemptNos :
        k > attempts[c] => result[c][k] = "none" /\ executed[c][k] = 0

RunsOnce == \A c \in Commands, k \in AttemptNos : executed[c][k] <= 1

\* No two processes in RunOnce have the same attempt of the same command.
AttemptIsOwned ==
    \A p, q \in Processes :
        Busy(p) /\ Busy(q) /\ p # q /\ cur[p] = cur[q] => att[p] # att[q]

\* Until SaveResult the row of the attempt does not exist ...
RowIsFree ==
    \A p \in Processes :
        /\ pc[p] \in {"claimed", "ran"} => result[cur[p]][att[p]] = "none"
        /\ pc[p] = "claimed" => executed[cur[p]][att[p]] = 0

\* ... and from then on it holds the exit code.
RowIsSaved ==
    \A p \in Processes :
        pc[p] \in {"saved", "onResult"} =>
            cur[p] \in Undecodable \/ result[cur[p]][att[p]] = exit[p]

IInv ==
    /\ TypeOK
    /\ AttemptsBounded /\ ClaimIsPast /\ ExitIsKnown
    /\ FutureIsEmpty /\ RunsOnce /\ AttemptIsOwned /\ RowIsFree /\ RowIsSaved
    /\ ReportedIsSaved /\ FailedIsExhausted /\ CompletedHasSuccess

-----------------------------------------------------------------------------

\* The empty queue, with every process down, satisfies the invariant.
LEMMA InitEstablishes == Init => IInv
<1> SUFFICES ASSUME Init PROVE IInv
  OBVIOUS
<1> USE MaxAttemptsAssumption, CommandsAssumption DEF Init
<1>1. TypeOK
  BY DEF TypeOK, Statuses, Phases, ExitCodes, AttemptNos
<1>2. AttemptsBounded /\ ClaimIsPast /\ ExitIsKnown
  BY DEF AttemptsBounded, ClaimIsPast, ExitIsKnown, Busy
<1>3. FutureIsEmpty /\ RunsOnce /\ AttemptIsOwned /\ RowIsFree /\ RowIsSaved
  BY DEF FutureIsEmpty, RunsOnce, AttemptIsOwned, RowIsFree, RowIsSaved, Busy
<1>4. ReportedIsSaved /\ FailedIsExhausted /\ CompletedHasSuccess
  BY DEF ReportedIsSaved, FailedIsExhausted, CompletedHasSuccess
<1> QED
  BY <1>1, <1>2, <1>3, <1>4 DEF IInv

-----------------------------------------------------------------------------
(* Every step keeps the types.                                             *)

\* The literals the actions assign are of the types TypeOK gives them.
LEMMA Literals ==
    /\ {"NONE", "PENDING", "EXECUTING", "COMPLETED", "FAILED"} \subseteq Statuses
    /\ {"down", "idle", "claimed", "ran", "saved", "onResult"} \subseteq Phases
    /\ {"zero", "nonzero"} \subseteq ExitCodes /\ "none" \notin ExitCodes
BY DEF Statuses, Terminal, Phases, ExitCodes

\* An attempt number is a natural number up to config.MaxAttempts.
LEMMA AttemptNosAreNat == \A k \in AttemptNos : k \in Nat /\ k <= MaxAttempts
BY MaxAttemptsAssumption DEF AttemptNos

\* One entry of a table of attempts is replaced.
LEMMA TableUpdate ==
    ASSUME NEW A, NEW B, NEW V, NEW f \in [A -> [B -> V]], NEW a \in A, NEW b \in B, NEW v \in V
    PROVE  /\ [f EXCEPT ![a][b] = v] \in [A -> [B -> V]]
           /\ \A x \in A, y \in B :
                 [f EXCEPT ![a][b] = v][x][y] = IF x = a /\ y = b THEN v ELSE f[x][y]
OBVIOUS

\* Clearing RunOnce's local variables keeps their types.
LEMMA ForgetTypes ==
    ASSUME TypeOK, NEW p \in Processes, Forget(p)
    PROVE  /\ cur' \in [Processes -> Commands \cup {Nobody}] /\ att' \in [Processes -> Nat]
           /\ exit' \in [Processes -> ExitCodes \cup {"none"}]
BY DEF TypeOK, Forget

\* Every statement of the store and every step of RunOnce keeps the types.
LEMMA TypeKept ==
    ASSUME IInv, [Next]_vars
    PROVE  TypeOK'
<1> USE Literals DEF TypeOK
<1> TypeOK
  BY DEF IInv
<1>1. ASSUME NEW c \in Commands, Enqueue(c) PROVE TypeOK'
  BY <1>1 DEF Enqueue, NewRows, memory, bounds
<1>2. ASSUME NEW S \in SUBSET Commands, EnqueueWithID(S) PROVE TypeOK'
  BY <1>2 DEF EnqueueWithID, NewRows, memory, bounds
<1>3. ASSUME NEW p \in Processes, Start(p) PROVE TypeOK'
  <2>1. status' \in [Commands -> Statuses] /\ attempts' = attempts /\ createdAt' = createdAt
    <3>1. CASE RecoverStale
      <4>1. \A c \in Commands : Recovered(c) \in Statuses
        BY DEF Recovered
      <4> QED
        BY <3>1, <4>1 DEF RecoverStale
    <3>2. CASE UNCHANGED queue
      BY <3>2 DEF queue
    <3> QED
      BY <1>3, <3>1, <3>2 DEF Start, StoreError
  <2>2. result' = result /\ stops' \in Nat /\ errors' \in Nat /\ now' \in Nat
    BY <1>3 DEF Start, StoreError, queue, bounds
  <2> QED
    BY <1>3, <2>1, <2>2 DEF Start, memory
<1>4. ASSUME NEW p \in Processes, NEW c \in Commands, ClaimNext(p, c) PROVE TypeOK'
  <2>1. /\ status' \in [Commands -> Statuses] /\ attempts' \in [Commands -> Nat]
        /\ UNCHANGED <<createdAt, result, exit, executed, reported, stops, errors, now>>
    BY <1>4 DEF ClaimNext, bounds
  <2>2. /\ cur' \in [Processes -> Commands \cup {Nobody}] /\ att' \in [Processes -> Nat]
        /\ pc' \in [Processes -> Phases]
    BY <1>4 DEF ClaimNext
  <2> QED
    BY <2>1, <2>2
<1>5. ASSUME NEW p \in Processes, Execute(p) PROVE TypeOK'
  <2>1. cur[p] \in Commands /\ att[p] \in AttemptNos
    BY <1>5 DEF Execute, IInv, ClaimIsPast, Busy
  <2>2. executed[cur[p]][att[p]] + 1 \in Nat
    BY <2>1
  <2>3. executed' \in [Commands -> [AttemptNos -> Nat]]
    <3>1. CASE cur[p] \in Undecodable
      BY <1>5, <3>1 DEF Execute
    <3>2. CASE cur[p] \notin Undecodable
      <4>1. executed' = [executed EXCEPT ![cur[p]][att[p]] = executed[cur[p]][att[p]] + 1]
        BY <1>5, <3>2 DEF Execute
      <4> QED
        BY <2>1, <2>2, <4>1, TableUpdate
    <3> QED
      BY <3>1, <3>2
  <2>4. exit' \in [Processes -> ExitCodes \cup {"none"}] /\ pc' \in [Processes -> Phases]
    BY <1>5 DEF Execute
  <2> QED
    BY <1>5, <2>3, <2>4 DEF Execute, queue, bounds
<1>6. ASSUME NEW p \in Processes, SaveResult(p) PROVE TypeOK'
  <2>1. cur[p] \in Commands /\ att[p] \in AttemptNos /\ exit[p] \in ExitCodes
    BY <1>6 DEF SaveResult, IInv, ClaimIsPast, ExitIsKnown, Busy
  <2>2. result' \in [Commands -> [AttemptNos -> ExitCodes \cup {"none"}]]
    <3>1. [result EXCEPT ![cur[p]][att[p]] = exit[p]]
            \in [Commands -> [AttemptNos -> ExitCodes \cup {"none"}]]
      BY <2>1, TableUpdate
    <3> QED
      BY <1>6, <3>1 DEF SaveResult, StoreError
  <2>3. UNCHANGED <<status, attempts, createdAt>> /\ stops' \in Nat /\ errors' \in Nat /\ now' \in Nat
    BY <1>6 DEF SaveResult, StoreError, queue, bounds
  <2>4. /\ cur' \in [Processes -> Commands \cup {Nobody}] /\ att' \in [Processes -> Nat]
        /\ exit' \in [Processes -> ExitCodes \cup {"none"}] /\ pc' \in [Processes -> Phases]
    <3>1. Forget(p) \/ UNCHANGED memory
      BY <1>6 DEF SaveResult
    <3>2. pc' \in [Processes -> Phases]
      BY <1>6 DEF SaveResult
    <3> QED
      BY <3>1, <3>2, ForgetTypes DEF memory
  <2> QED
    BY <1>6, <2>2, <2>3, <2>4 DEF SaveResult
<1>7. ASSUME NEW p \in Processes, Settle(p) PROVE TypeOK'
  <2>1. cur[p] \in Commands /\ Verdict(p) \in Statuses
    BY <1>7 DEF Settle, Verdict, IInv, ClaimIsPast, Busy
  <2>2. status' \in [Commands -> Statuses] /\ attempts' = attempts /\ createdAt' = createdAt
    BY <1>7, <2>1 DEF Settle, SetStatus, StoreError, queue
  <2>3. result' = result /\ stops' \in Nat /\ errors' \in Nat /\ now' \in Nat
    BY <1>7 DEF Settle, StoreError, bounds
  <2>4. /\ cur' \in [Processes -> Commands \cup {Nobody}] /\ att' \in [Processes -> Nat]
        /\ exit' \in [Processes -> ExitCodes \cup {"none"}] /\ pc' \in [Processes -> Phases]
    <3>1. Forget(p) \/ UNCHANGED memory
      BY <1>7 DEF Settle
    <3>2. pc' \in [Processes -> Phases]
      BY <1>7 DEF Settle
    <3> QED
      BY <3>1, <3>2, ForgetTypes DEF memory
  <2> QED
    BY <1>7, <2>2, <2>3, <2>4 DEF Settle
<1>8. ASSUME NEW p \in Processes, OnResult(p) PROVE TypeOK'
  <2>1. <<cur[p], att[p], exit[p]>> \in Commands \X AttemptNos \X ExitCodes
    BY <1>8 DEF OnResult, IInv, ClaimIsPast, ExitIsKnown, Busy
  <2> QED
    BY <1>8, <2>1 DEF OnResult, Forget, queue, bounds
<1>9. ASSUME NEW p \in Processes, Stop(p) PROVE TypeOK'
  BY <1>9 DEF Stop, Forget, queue
<1>10. CASE Tick
  BY <1>10 DEF Tick, queue, memory
<1>11. CASE UNCHANGED vars
  BY <1>11 DEF vars, queue, memory, bounds
<1> QED
  BY <1>1, <1>2, <1>3, <1>4, <1>5, <1>6, <1>7, <1>8, <1>9, <1>10, <1>11 DEF Next, RunOnce

-----------------------------------------------------------------------------
(* Steps that claim no attempt and change no row of ResultQueue.           *)

\* What such a step may do to the command c: queue it, requeue it, or end it
\* with a reason.
StatusStep(c) ==
    \/ status'[c] = status[c]
    \/ status'[c] = "PENDING"
    \/ status'[c] = "FAILED" /\ (c \in Undecodable \/ attempts[c] = MaxAttempts)
    \/ status'[c] = "COMPLETED" /\ \E k \in AttemptNos : result[c][k] = "zero"

\* What it may do to the process p: end its RunOnce, or go on after a result
\* that is saved or could not be.
ProcessStep(p) ==
    \/ ~ Busy(p)'
    \/ /\ cur'[p] = cur[p] /\ att'[p] = att[p] /\ exit'[p] = exit[p]
       /\ \/ pc'[p] = pc[p]
          \/ pc[p] = "saved" /\ pc'[p] = "onResult"
          \/ pc[p] = "ran" /\ pc'[p] = "saved" /\ cur[p] \in Undecodable

\* A step that claims, runs and saves nothing keeps the invariant when it gives
\* rows a justified status and processes go on in RunOnce or return from it.
LEMMA FrameKeeps ==
    ASSUME IInv, TypeOK',
           attempts' = attempts, result' = result, executed' = executed,
           \A c \in Commands : StatusStep(c),
           \A p \in Processes : ProcessStep(p),
           \A r \in reported' : r \in reported \/ r[1] \in Undecodable \/ result[r[1]][r[2]] = r[3]
    PROVE  IInv'
<1> USE DEF IInv
<1>1. AttemptsBounded' /\ FailedIsExhausted' /\ CompletedHasSuccess'
  BY DEF StatusStep, AttemptsBounded, FailedIsExhausted, CompletedHasSuccess
<1>2. FutureIsEmpty' /\ RunsOnce'
  BY DEF FutureIsEmpty, RunsOnce
<1>3. \A p \in Processes : Busy(p)' => Busy(p) /\ cur'[p] = cur[p] /\ att'[p] = att[p]
  BY DEF ProcessStep, Busy
<1>4. ClaimIsPast' /\ AttemptIsOwned'
  BY <1>3 DEF ClaimIsPast, AttemptIsOwned
<1>5. ExitIsKnown' /\ RowIsFree' /\ RowIsSaved'
  BY DEF ProcessStep, Busy, ExitIsKnown, RowIsFree, RowIsSaved
<1>6. ReportedIsSaved'
  BY DEF ReportedIsSaved
<1> QED
  BY <1>1, <1>2, <1>4, <1>5, <1>6

\* New rows: a command that is not queued has made no attempt.
LEMMA NewRowsKeep ==
    ASSUME IInv, TypeOK', NEW S \in SUBSET Commands, NewRows(S),
           \A c \in S : status[c] = "NONE",
           UNCHANGED <<result, pc, memory, executed, reported>>
    PROVE  IInv'
<1>1. attempts' = attempts
  BY DEF NewRows, IInv, TypeOK, AttemptsBounded
<1>2. \A c \in Commands : StatusStep(c)
  BY DEF NewRows, StatusStep
<1>3. \A p \in Processes : ProcessStep(p)
  BY DEF ProcessStep, memory
<1> QED
  BY <1>1, <1>2, <1>3, FrameKeeps

\* RecoverStale gives up a command only when its attempts are used up.
LEMMA StartKeeps ==
    ASSUME IInv, TypeOK', NEW p \in Processes, Start(p)
    PROVE  IInv'
<1>1. attempts' = attempts /\ result' = result /\ executed' = executed /\ reported' = reported
  BY DEF Start, RecoverStale, StoreError, queue
<1>2. \A c \in Commands : StatusStep(c)
  <2> SUFFICES ASSUME NEW c \in Commands PROVE StatusStep(c)
    OBVIOUS
  <2>1. status'[c] = status[c] \/ status'[c] = Recovered(c)
    BY DEF Start, RecoverStale, StoreError, queue
  <2>2. attempts[c] >= MaxAttempts => attempts[c] = MaxAttempts
    <3>1. attempts[c] \in Nat /\ attempts[c] <= MaxAttempts
      BY DEF IInv, TypeOK, AttemptsBounded
    <3> QED
      BY <3>1, MaxAttemptsAssumption
  <2> QED
    BY <2>1, <2>2 DEF Recovered, StatusStep
<1>3. \A q \in Processes : ProcessStep(q)
  BY DEF Start, ProcessStep, Busy, memory, IInv, TypeOK
<1> QED
  BY <1>1, <1>2, <1>3, FrameKeeps

\* RunOnce ends a command COMPLETED after a saved success, FAILED after the last
\* attempt, which is MaxAttempts.
LEMMA SettleKeeps ==
    ASSUME IInv, TypeOK', NEW p \in Processes, Settle(p)
    PROVE  IInv'
<1> DEFINE c == cur[p]
<1>1. c \in Commands /\ att[p] \in AttemptNos /\ att[p] <= attempts[c] /\ attempts[c] <= MaxAttempts
  BY DEF Settle, IInv, ClaimIsPast, AttemptsBounded, Busy
<1>2. attempts' = attempts /\ result' = result /\ executed' = executed /\ reported' = reported
  BY DEF Settle, SetStatus, StoreError, queue
<1>3. Verdict(p) = "COMPLETED" => \E k \in AttemptNos : result[c][k] = "zero"
  BY <1>1 DEF Settle, Verdict, IInv, RowIsSaved, ExitIsKnown
<1>4. Verdict(p) = "FAILED" => c \in Undecodable \/ attempts[c] = MaxAttempts
  BY <1>1, MaxAttemptsAssumption DEF Verdict, AttemptNos, IInv, TypeOK
<1>5. \A d \in Commands : StatusStep(d)
  <2>1. Verdict(p) \in {"PENDING", "COMPLETED", "FAILED"}
    BY DEF Verdict
  <2> QED
    BY <1>1, <1>3, <1>4, <2>1 DEF Settle, SetStatus, StoreError, StatusStep, queue, IInv, TypeOK
<1>6. \A q \in Processes : ProcessStep(q)
  BY DEF Settle, Forget, ProcessStep, Busy, memory, IInv, TypeOK
<1> QED
  BY <1>2, <1>5, <1>6, FrameKeeps

\* onResult hands over the result that SaveResult has stored.
LEMMA OnResultKeeps ==
    ASSUME IInv, TypeOK', NEW p \in Processes, OnResult(p)
    PROVE  IInv'
<1>1. UNCHANGED <<status, attempts, result, executed>>
  BY DEF OnResult, queue
<1>2. \A c \in Commands : StatusStep(c)
  BY <1>1 DEF StatusStep
<1>3. \A q \in Processes : ProcessStep(q)
  BY DEF OnResult, Forget, ProcessStep, Busy, IInv, TypeOK
<1>4. \A r \in reported' : r \in reported \/ r[1] \in Undecodable \/ result[r[1]][r[2]] = r[3]
  BY DEF OnResult, IInv, RowIsSaved
<1> QED
  BY <1>1, <1>2, <1>3, <1>4, FrameKeeps

\* A stop or a crash takes a claim away and leaves the tables as they are.
LEMMA StopKeeps ==
    ASSUME IInv, TypeOK', NEW p \in Processes, Stop(p)
    PROVE  IInv'
<1>1. UNCHANGED <<status, attempts, result, executed, reported>>
  BY DEF Stop, queue
<1>2. \A c \in Commands : StatusStep(c)
  BY <1>1 DEF StatusStep
<1>3. \A q \in Processes : ProcessStep(q)
  BY DEF Stop, Forget, ProcessStep, Busy, IInv, TypeOK
<1> QED
  BY <1>1, <1>2, <1>3, FrameKeeps

-----------------------------------------------------------------------------
(* Steps on the row of an attempt.                                         *)

\* The new attempt is larger than every attempt of the command that is owned.
LEMMA ClaimNextKeeps ==
    ASSUME IInv, TypeOK', NEW p \in Processes, NEW c \in Commands, ClaimNext(p, c)
    PROVE  IInv'
<1> USE MaxAttemptsAssumption DEF IInv
<1>1. attempts[c] \in Nat /\ attempts[c] < MaxAttempts /\ attempts[c] + 1 \in AttemptNos
  BY DEF ClaimNext, Oldest, Eligible, TypeOK, AttemptNos
<1>2. /\ status' = [status EXCEPT ![c] = "EXECUTING"]
      /\ attempts' = [attempts EXCEPT ![c] = @ + 1]
      /\ UNCHANGED <<result, exit, executed, reported>>
  BY DEF ClaimNext
<1>3. \A d \in Commands : attempts[d] \in Nat /\ attempts'[d] \in Nat /\ attempts[d] <= attempts'[d]
  BY <1>2 DEF TypeOK
<1>4. AttemptsBounded' /\ FailedIsExhausted' /\ CompletedHasSuccess'
  BY <1>1, <1>2 DEF AttemptsBounded, FailedIsExhausted, CompletedHasSuccess, TypeOK
<1>5. FutureIsEmpty' /\ RunsOnce'
  BY <1>2, <1>3 DEF FutureIsEmpty, RunsOnce, AttemptNos
<1>6. /\ pc'[p] = "claimed" /\ cur'[p] = c /\ att'[p] = attempts[c] + 1
      /\ \A q \in Processes \ {p} : pc'[q] = pc[q] /\ cur'[q] = cur[q] /\ att'[q] = att[q]
  BY DEF ClaimNext, TypeOK
<1>7. ClaimIsPast'
  <2> SUFFICES ASSUME NEW q \in Processes, Busy(q)'
               PROVE  cur'[q] \in Commands /\ att'[q] \in AttemptNos /\ att'[q] <= attempts'[cur'[q]]
    BY DEF ClaimIsPast
  <2>1. CASE q = p
    BY <2>1, <1>1, <1>2, <1>6 DEF TypeOK
  <2>2. CASE q # p
    <3>1. cur[q] \in Commands /\ att[q] \in AttemptNos /\ att[q] <= attempts[cur[q]]
      BY <2>2, <1>6 DEF ClaimIsPast, Busy
    <3> QED
      BY <2>2, <3>1, <1>3, <1>6, AttemptNosAreNat
  <2> QED
    BY <2>1, <2>2
<1>8. AttemptIsOwned'
  <2>1. \A q \in Processes \ {p} : Busy(q)' /\ cur'[q] = c => att'[q] # attempts[c] + 1
    BY <1>1, <1>6, AttemptNosAreNat DEF ClaimIsPast, Busy
  <2> QED
    BY <1>6, <2>1 DEF AttemptIsOwned, Busy
<1>9. result[c][attempts[c] + 1] = "none" /\ executed[c][attempts[c] + 1] = 0
  BY <1>1 DEF FutureIsEmpty
<1>10. RowIsFree' /\ RowIsSaved' /\ ExitIsKnown'
  BY <1>2, <1>6, <1>9 DEF RowIsFree, RowIsSaved, ExitIsKnown
<1>11. ReportedIsSaved'
  BY <1>2 DEF ReportedIsSaved
<1> QED
  BY <1>4, <1>5, <1>7, <1>8, <1>10, <1>11

\* exec.Run is called for an attempt whose claim only this process holds.
LEMMA ExecuteKeeps ==
    ASSUME IInv, TypeOK', NEW p \in Processes, Execute(p)
    PROVE  IInv'
<1> USE DEF IInv
<1> DEFINE c == cur[p]
           k == att[p]
<1>1. c \in Commands /\ k \in AttemptNos /\ k <= attempts[c] /\ executed[c][k] = 0
  BY DEF Execute, ClaimIsPast, RowIsFree, Busy
<1>2. UNCHANGED <<status, attempts, result, cur, att, reported>>
  BY DEF Execute, queue
<1>3. /\ pc[p] = "claimed" /\ pc'[p] = "ran" /\ exit'[p] \in ExitCodes
      /\ c \in Undecodable => exit'[p] = "nonzero"
      /\ \A q \in Processes \ {p} : pc'[q] = pc[q] /\ exit'[q] = exit[q]
  BY DEF Execute, TypeOK, ExitCodes
<1>4. \A d \in Commands, j \in AttemptNos :
         executed'[d][j] = executed[d][j] \/ (d = c /\ j = k /\ executed'[d][j] = 1)
  <2>1. CASE c \in Undecodable
    BY <2>1 DEF Execute
  <2>2. CASE c \notin Undecodable
    <3>1. executed' = [executed EXCEPT ![c][k] = executed[c][k] + 1]
      BY <2>2 DEF Execute
    <3>2. executed[c][k] + 1 = 1 /\ 1 \in Nat
      BY <1>1
    <3> QED
      BY <1>1, <3>1, <3>2, TableUpdate DEF TypeOK
  <2> QED
    BY <2>1, <2>2
<1>5. AttemptsBounded' /\ FailedIsExhausted' /\ CompletedHasSuccess' /\ ReportedIsSaved'
  BY <1>2 DEF AttemptsBounded, FailedIsExhausted, CompletedHasSuccess, ReportedIsSaved
<1>6. FutureIsEmpty'
  <2> SUFFICES ASSUME NEW d \in Commands, NEW j \in AttemptNos, j > attempts[d]
               PROVE  result[d][j] = "none" /\ executed'[d][j] = 0
    BY <1>2 DEF FutureIsEmpty
  <2>1. ~ (d = c /\ j = k)
    BY <1>1, AttemptNosAreNat DEF TypeOK
  <2> QED
    BY <2>1, <1>4 DEF FutureIsEmpty
<1>7. RunsOnce'
  BY <1>4 DEF RunsOnce
<1>8. ClaimIsPast' /\ AttemptIsOwned'
  BY <1>2, <1>3 DEF ClaimIsPast, AttemptIsOwned, Busy
<1>9. ExitIsKnown' /\ RowIsSaved'
  BY <1>2, <1>3 DEF ExitIsKnown, RowIsSaved
<1>10. RowIsFree'
  <2> SUFFICES ASSUME NEW q \in Processes
               PROVE  /\ pc'[q] \in {"claimed", "ran"} => result[cur[q]][att[q]] = "none"
                      /\ pc'[q] = "claimed" => executed'[cur[q]][att[q]] = 0
    BY <1>2 DEF RowIsFree
  <2>1. CASE q = p
    BY <2>1, <1>3 DEF RowIsFree
  <2>2. CASE q # p
    <3>1. pc[q] = "claimed" => ~ (cur[q] = c /\ att[q] = k)
      BY <2>2, <1>3 DEF AttemptIsOwned, Busy
    <3>2. pc[q] = "claimed" => cur[q] \in Commands /\ att[q] \in AttemptNos
      BY DEF ClaimIsPast, Busy
    <3> QED
      BY <2>2, <3>1, <3>2, <1>3, <1>4 DEF RowIsFree
  <2> QED
    BY <2>1, <2>2
<1> QED
  BY <1>5, <1>6, <1>7, <1>8, <1>9, <1>10

\* The row that is written is free, so no saved result is lost.
LEMMA SaveResultKeeps ==
    ASSUME IInv, TypeOK', NEW p \in Processes, SaveResult(p)
    PROVE  IInv'
<1> DEFINE c == cur[p]
           k == att[p]
<1>1. UNCHANGED <<status, attempts, executed, reported>>
  BY DEF SaveResult, StoreError, queue
<1>2. CASE StoreError
  <2>1. \A d \in Commands : StatusStep(d)
    BY <1>1 DEF StatusStep
  <2>2. result' = result
    BY <1>2 DEF StoreError
  <2>3. \A q \in Processes : ProcessStep(q)
    <3>1. /\ \A q \in Processes \ {p} : pc'[q] = pc[q]
          /\ pc[p] = "ran"
          /\ \/ Forget(p) /\ pc'[p] = "idle"
             \/ UNCHANGED memory /\ pc'[p] = "saved" /\ c \in Undecodable
             \/ result' = [result EXCEPT ![c][k] = exit[p]] /\ UNCHANGED bounds
      BY <1>2 DEF SaveResult, IInv, TypeOK
    <3>2. ~ UNCHANGED bounds
      BY <1>2, BoundsAssumption DEF StoreError, bounds, IInv, TypeOK
    <3> QED
      BY <3>1, <3>2 DEF Forget, ProcessStep, Busy, memory, IInv, TypeOK
  <2> QED
    BY <1>1, <2>1, <2>2, <2>3, FrameKeeps
<1>3. CASE ~ StoreError
  <2> USE DEF IInv
  <2>1. /\ c \in Commands /\ k \in AttemptNos /\ k <= attempts[c]
        /\ exit[p] \in ExitCodes /\ result[c][k] = "none"
    BY DEF SaveResult, ClaimIsPast, ExitIsKnown, RowIsFree, Busy
  <2>2. /\ result' = [result EXCEPT ![c][k] = exit[p]]
        /\ UNCHANGED <<cur, att, exit>>
        /\ pc[p] = "ran" /\ pc'[p] = "saved"
        /\ \A q \in Processes \ {p} : pc'[q] = pc[q]
    BY <1>3 DEF SaveResult, memory, TypeOK
  <2>3. \A d \in Commands, j \in AttemptNos :
           result'[d][j] = IF d = c /\ j = k THEN exit[p] ELSE result[d][j]
    <3>1. result \in [Commands -> [AttemptNos -> ExitCodes \cup {"none"}]]
      BY DEF TypeOK
    <3> QED
      BY <2>1, <2>2, <3>1, TableUpdate
  <2>4. AttemptsBounded' /\ FailedIsExhausted' /\ RunsOnce'
    BY <1>1 DEF AttemptsBounded, FailedIsExhausted, RunsOnce
  <2>5. CompletedHasSuccess'
    BY <1>1, <2>1, <2>3 DEF CompletedHasSuccess
  <2>6. ReportedIsSaved'
    <3> SUFFICES ASSUME NEW r \in reported, r[1] \notin Undecodable
                 PROVE  result'[r[1]][r[2]] = r[3]
      BY <1>1 DEF ReportedIsSaved
    <3>1. r[1] \in Commands /\ r[2] \in AttemptNos /\ r[3] \in ExitCodes
      BY DEF TypeOK
    <3>2. result[r[1]][r[2]] = r[3]
      BY DEF ReportedIsSaved
    <3> QED
      BY <3>1, <3>2, <2>1, <2>3 DEF ExitCodes
  <2>7. FutureIsEmpty'
    <3> SUFFICES ASSUME NEW d \in Commands, NEW j \in AttemptNos, j > attempts[d]
                 PROVE  result'[d][j] = "none" /\ executed[d][j] = 0
      BY <1>1 DEF FutureIsEmpty
    <3>1. ~ (d = c /\ j = k)
      BY <2>1, AttemptNosAreNat DEF TypeOK
    <3> QED
      BY <3>1, <2>3 DEF FutureIsEmpty
  <2>8. ClaimIsPast' /\ AttemptIsOwned' /\ ExitIsKnown'
    BY <1>1, <2>2 DEF ClaimIsPast, AttemptIsOwned, ExitIsKnown, Busy
  <2>9. \A q \in Processes \ {p} : Busy(q) =>
           /\ cur[q] \in Commands /\ att[q] \in AttemptNos
           /\ ~ (cur[q] = c /\ att[q] = k)
    BY <2>2 DEF ClaimIsPast, AttemptIsOwned, Busy
  <2>10. RowIsFree'
    BY <1>1, <2>2, <2>3, <2>9 DEF RowIsFree, Busy
  <2>11. RowIsSaved'
    BY <2>1, <2>2, <2>3, <2>9 DEF RowIsSaved, Busy
  <2> QED
    BY <2>4, <2>5, <2>6, <2>7, <2>8, <2>10, <2>11
<1> QED
  BY <1>2, <1>3

-----------------------------------------------------------------------------

\* The invariant is inductive: every step of the queue and of a process keeps it.
LEMMA NextKeeps == IInv /\ [Next]_vars => IInv'
<1> SUFFICES ASSUME IInv, [Next]_vars PROVE IInv'
  OBVIOUS
<1> TypeOK'
  BY TypeKept
<1>1. ASSUME NEW c \in Commands, Enqueue(c) PROVE IInv'
  BY <1>1, NewRowsKeep DEF Enqueue
<1>2. ASSUME NEW S \in SUBSET Commands, EnqueueWithID(S) PROVE IInv'
  <2> DEFINE New == {c \in S : status[c] = "NONE"}
  <2>1. New \in SUBSET Commands /\ \A c \in New : status[c] = "NONE"
    OBVIOUS
  <2>2. NewRows(New) /\ UNCHANGED <<result, pc, memory, executed, reported>>
    BY <1>2 DEF EnqueueWithID
  <2> QED
    BY <2>1, <2>2, NewRowsKeep
<1>3. ASSUME NEW p \in Processes, Start(p) \/ RunOnce(p) \/ Stop(p) PROVE IInv'
  BY <1>3, StartKeeps, ClaimNextKeeps, ExecuteKeeps, SaveResultKeeps, SettleKeeps,
     OnResultKeeps, StopKeeps DEF RunOnce
<1>4. CASE Tick \/ UNCHANGED vars
  <2>1. UNCHANGED <<status, attempts, result, executed, reported, pc, cur, att, exit>>
    BY <1>4 DEF Tick, vars, queue, memory
  <2>2. /\ \A c \in Commands : StatusStep(c)
        /\ \A p \in Processes : ProcessStep(p)
    BY <2>1 DEF StatusStep, ProcessStep
  <2> QED
    BY <2>1, <2>2, FrameKeeps
<1> QED
  BY <1>1, <1>2, <1>3, <1>4 DEF Next

\* The inductive invariant holds in every reachable state of every instance.
THEOREM Invariance == Safety => []IInv
<1>1. Init => IInv
  BY InitEstablishes
<1>2. IInv /\ [Next]_vars => IInv'
  BY NextKeeps
<1> QED
  BY <1>1, <1>2, PTL DEF Safety

\* The tables, the processes' memory and the history keep their types.
THEOREM TypeCorrect == Safety => []TypeOK
<1>1. IInv => TypeOK
  BY DEF IInv
<1> QED
  BY <1>1, Invariance, PTL

\* Redelivery, requeueing and recovery after crashes never make exec.Run run an
\* attempt twice, nor claim more than MaxAttempts attempts.
THEOREM ExecutionsAreBounded == Safety => []ExecutionsBounded
<1>1. IInv => ExecutionsBounded
  <2> SUFFICES ASSUME IInv, NEW c \in Commands
               PROVE  /\ attempts[c] <= MaxAttempts
                      /\ \A k \in AttemptNos :
                            executed[c][k] <= IF k <= attempts[c] THEN 1 ELSE 0
    BY DEF ExecutionsBounded
  <2>1. attempts[c] <= MaxAttempts /\ attempts[c] \in Nat
    BY DEF IInv, AttemptsBounded, TypeOK
  <2>2. ASSUME NEW k \in AttemptNos PROVE executed[c][k] <= IF k <= attempts[c] THEN 1 ELSE 0
    BY <2>1, AttemptNosAreNat DEF IInv, FutureIsEmpty, RunsOnce
  <2> QED
    BY <2>1, <2>2
<1> QED
  BY <1>1, Invariance, PTL

\* However many agent processes share the queue file, no two of them hold the
\* same attempt, and SaveResult never replaces a row of ResultQueue.
THEOREM ClaimsStayExclusive == Safety => []ClaimsAreExclusive
<1>1. IInv => ClaimsAreExclusive
  BY DEF IInv, ClaimsAreExclusive, Holds, AttemptIsOwned, RowIsFree, Busy
<1> QED
  BY <1>1, Invariance, PTL

\* onResult is only called with a result that ResultQueue holds and keeps.
THEOREM ReportsAreSaved == Safety => []ReportedIsSaved
<1>1. IInv => ReportedIsSaved
  BY DEF IInv
<1> QED
  BY <1>1, Invariance, PTL

\* A command ends FAILED only when its attempts are used up or when it could never
\* run, however many processes claim, crash and recover.
THEOREM FailuresAreExhausted == Safety => []FailedIsExhausted
<1>1. IInv => FailedIsExhausted
  BY DEF IInv
<1> QED
  BY <1>1, Invariance, PTL

\* A command is COMPLETED only with a saved result whose exit code is 0.
THEOREM CompletionsSucceeded == Safety => []CompletedHasSuccess
<1>1. IInv => CompletedHasSuccess
  BY DEF IInv
<1> QED
  BY <1>1, Invariance, PTL

-----------------------------------------------------------------------------
(* A queue file that one process works on implements CommandJob.           *)

SoleProcess == \A p, q \in Processes : p = q

\* The row of a claimed command is EXECUTING until the process settles it.  With
\* two processes the start of the second breaks this.
ClaimIsExecuting ==
    \A p \in Processes :
        pc[p] \in {"claimed", "ran", "saved"} => status[cur[p]] = "EXECUTING"

\* With one process on the file, the row of a claimed command stays EXECUTING
\* until RunOnce settles it.
LEMMA ClaimIsExecutingKept ==
    ASSUME SoleProcess, IInv, ClaimIsExecuting, [Next]_vars
    PROVE  ClaimIsExecuting'
<1> USE DEF ClaimIsExecuting, IInv
<1> SUFFICES ASSUME NEW q \in Processes, pc'[q] \in {"claimed", "ran", "saved"}
             PROVE  status'[cur'[q]] = "EXECUTING"
  OBVIOUS
<1> \A p \in Processes : p = q
  BY DEF SoleProcess
<1>1. ASSUME NEW c \in Commands, Enqueue(c) PROVE status'[cur'[q]] = "EXECUTING"
  BY <1>1 DEF Enqueue, NewRows, memory, ClaimIsPast, Busy
<1>2. ASSUME NEW S \in SUBSET Commands, EnqueueWithID(S) PROVE status'[cur'[q]] = "EXECUTING"
  BY <1>2 DEF EnqueueWithID, NewRows, memory, ClaimIsPast, Busy
<1>3. ASSUME Start(q) PROVE FALSE
  BY <1>3 DEF Start, TypeOK
<1>4. ASSUME NEW c \in Commands, ClaimNext(q, c) PROVE status'[cur'[q]] = "EXECUTING"
  BY <1>4 DEF ClaimNext, TypeOK
<1>5. ASSUME Execute(q) \/ SaveResult(q) PROVE status'[cur'[q]] = "EXECUTING"
  <2>1. status' = status
    BY <1>5 DEF Execute, SaveResult, StoreError, queue
  <2>2. pc[q] \in {"claimed", "ran"}
    BY <1>5 DEF Execute, SaveResult
  <2>3. cur' = cur
    BY <1>5 DEF Execute, SaveResult, memory, TypeOK
  <2> QED
    BY <2>1, <2>2, <2>3
<1>6. ASSUME Settle(q) \/ OnResult(q) \/ Stop(q) PROVE FALSE
  BY <1>6 DEF Settle, OnResult, Stop, TypeOK
<1>7. CASE Tick \/ UNCHANGED vars
  BY <1>7 DEF Tick, vars, queue, memory
<1> QED
  BY <1>1, <1>2, <1>3, <1>4, <1>5, <1>6, <1>7 DEF Next, RunOnce

jobs == [c \in Commands |-> JobOf(status[c])]

\* Rows that are added submit jobs.
LEMMA NewRowsSubmit ==
    ASSUME IInv, NEW S \in SUBSET Commands, NewRows(S), \A c \in S : status[c] = "NONE"
    PROVE  Job!Submit(S)
<1>1. attempts' = attempts
  BY DEF NewRows, IInv, TypeOK, AttemptsBounded
<1>2. \A c \in S : jobs[c] = "absent"
  BY DEF jobs, JobOf
<1>3. jobs' = [c \in Commands |-> IF c \in S THEN "open" ELSE jobs[c]]
  <2>1. \A c \in Commands : status'[c] = IF c \in S THEN "PENDING" ELSE status[c]
    BY DEF NewRows
  <2> QED
    BY <2>1 DEF jobs, JobOf
<1> QED
  BY <1>1, <1>2, <1>3 DEF Job!Submit, jobs

\* The start of the process gives up what was interrupted in its last attempt.
LEMMA StartGivesUp ==
    ASSUME IInv, NEW p \in Processes, Start(p)
    PROVE  Job!JobNext \/ UNCHANGED Job!jobVars
<1>1. CASE UNCHANGED queue
  BY <1>1 DEF queue, Job!jobVars, JobOf
<1>2. CASE RecoverStale
  <2> DEFINE S == {c \in Commands : status[c] = "EXECUTING" /\ attempts[c] >= MaxAttempts}
  <2>1. \A c \in S : attempts[c] = MaxAttempts
    <3> SUFFICES ASSUME NEW c \in Commands, attempts[c] >= MaxAttempts
                 PROVE  attempts[c] = MaxAttempts
      OBVIOUS
    <3>1. attempts[c] \in Nat /\ attempts[c] <= MaxAttempts
      BY DEF IInv, TypeOK, AttemptsBounded
    <3> QED
      BY <3>1, MaxAttemptsAssumption
  <2>2. \A c \in S : Job!CanFail(c)
    BY <2>1 DEF Job!CanFail, JobOf
  <2>3. \A c \in Commands : status'[c] = Recovered(c)
    BY <1>2 DEF RecoverStale
  <2>4. jobs' = [c \in Commands |-> IF c \in S THEN "failed" ELSE jobs[c]]
    BY <2>3 DEF jobs, JobOf, Recovered
  <2>5. attempts' = attempts
    BY <1>2 DEF RecoverStale
  <2>6. Job!GiveUp(S)
    BY <2>2, <2>4, <2>5 DEF Job!GiveUp, jobs
  <2> QED
    BY <2>6 DEF Job!JobNext
<1> QED
  BY <1>1, <1>2 DEF Start, StoreError

\* A claim is one more try of an open job.
LEMMA ClaimNextTries ==
    ASSUME IInv, NEW p \in Processes, NEW c \in Commands, ClaimNext(p, c)
    PROVE  Job!Try(c)
<1>1. status[c] = "PENDING" /\ attempts[c] < MaxAttempts
  BY DEF ClaimNext, Oldest, Eligible
<1>2. jobs' = jobs
  <2>1. \A d \in Commands : status'[d] = IF d = c THEN "EXECUTING" ELSE status[d]
    BY DEF ClaimNext, IInv, TypeOK
  <2> QED
    BY <1>1, <2>1 DEF jobs, JobOf
<1> QED
  BY <1>1, <1>2 DEF Job!Try, ClaimNext, jobs, JobOf

\* The command that is settled was open: it may finish, or be given up when its
\* attempts are used up or its payload cannot be decoded.
LEMMA SettleEnds ==
    ASSUME IInv, ClaimIsExecuting, NEW p \in Processes, Settle(p)
    PROVE  Job!JobNext \/ UNCHANGED Job!jobVars
<1> DEFINE c == cur[p]
<1>1. /\ c \in Commands /\ status[c] = "EXECUTING"
      /\ att[p] \in Nat /\ att[p] > 0 /\ att[p] <= attempts[c]
      /\ attempts[c] \in Nat /\ attempts[c] <= MaxAttempts
  <2>1. c \in Commands /\ att[p] \in AttemptNos /\ att[p] <= attempts[c]
    BY DEF Settle, IInv, ClaimIsPast, Busy
  <2>2. att[p] \in Nat /\ att[p] > 0
    BY <2>1, MaxAttemptsAssumption DEF AttemptNos
  <2> QED
    BY <2>1, <2>2 DEF Settle, ClaimIsExecuting, IInv, AttemptsBounded, TypeOK
<1>2. CASE UNCHANGED queue
  BY <1>2 DEF queue, Job!jobVars, JobOf
<1>3. CASE SetStatus(c, Verdict(p))
  <2>1. \A d \in Commands : status'[d] = IF d = c THEN Verdict(p) ELSE status[d]
    BY <1>3, <1>1 DEF SetStatus, IInv, TypeOK
  <2>2. attempts' = attempts
    BY <1>3 DEF SetStatus
  <2>3. CASE Verdict(p) = "PENDING"
    <3>1. jobs' = jobs
      BY <1>1, <2>1, <2>3 DEF jobs, JobOf
    <3> QED
      BY <2>2, <3>1 DEF Job!jobVars, jobs
  <2>4. CASE Verdict(p) = "COMPLETED"
    <3>1. jobs' = [jobs EXCEPT ![c] = "done"]
      BY <1>1, <2>1, <2>4 DEF jobs, JobOf
    <3>2. Job!Finish(c)
      BY <1>1, <2>2, <3>1 DEF Job!Finish, jobs, JobOf
    <3> QED
      BY <1>1, <3>2 DEF Job!JobNext
  <2>5. CASE Verdict(p) = "FAILED"
    <3>1. attempts[c] = MaxAttempts \/ c \in Undecodable
      BY <1>1, <2>5, MaxAttemptsAssumption DEF Verdict
    <3>2. Job!CanFail(c)
      BY <1>1, <3>1 DEF Job!CanFail, JobOf
    <3>3. jobs' = [d \in Commands |-> IF d \in {c} THEN "failed" ELSE jobs[d]]
      BY <1>1, <2>1, <2>5 DEF jobs, JobOf
    <3>4. Job!GiveUp({c})
      BY <2>2, <3>2, <3>3 DEF Job!GiveUp, jobs
    <3>5. {c} \in SUBSET Commands
      BY <1>1
    <3> QED
      BY <3>4, <3>5 DEF Job!JobNext
  <2>6. Verdict(p) \in {"PENDING", "COMPLETED", "FAILED"}
    BY DEF Verdict
  <2> QED
    BY <2>3, <2>4, <2>5, <2>6
<1> QED
  BY <1>2, <1>3 DEF Settle, StoreError

\* With one process on the file, every step of the queue is a step of the life
\* cycle of jobs or leaves the jobs alone.
LEMMA StepImplements ==
    ASSUME IInv, ClaimIsExecuting, [Next]_vars
    PROVE  [Job!JobNext]_(Job!jobVars)
<1>1. ASSUME NEW c \in Commands, Enqueue(c) PROVE Job!JobNext
  <2>1. {c} \in SUBSET Commands /\ NewRows({c}) /\ \A d \in {c} : status[d] = "NONE"
    BY <1>1 DEF Enqueue
  <2> QED
    BY <2>1, NewRowsSubmit DEF Job!JobNext
<1>2. ASSUME NEW S \in SUBSET Commands, EnqueueWithID(S) PROVE Job!JobNext
  <2> DEFINE New == {c \in S : status[c] = "NONE"}
  <2>1. New \in SUBSET Commands /\ NewRows(New) /\ \A c \in New : status[c] = "NONE"
    BY <1>2 DEF EnqueueWithID
  <2> QED
    BY <2>1, NewRowsSubmit DEF Job!JobNext
<1>3. ASSUME NEW p \in Processes, Start(p) PROVE [Job!JobNext]_(Job!jobVars)
  BY <1>3, StartGivesUp
<1>4. ASSUME NEW p \in Processes, NEW c \in Commands, ClaimNext(p, c) PROVE Job!JobNext
  BY <1>4, ClaimNextTries DEF Job!JobNext
<1>5. ASSUME NEW p \in Processes, Settle(p) PROVE [Job!JobNext]_(Job!jobVars)
  BY <1>5, SettleEnds
<1>6. ASSUME NEW p \in Processes, Execute(p) \/ SaveResult(p) \/ OnResult(p) \/ Stop(p)
      PROVE  UNCHANGED Job!jobVars
  <2>1. UNCHANGED <<status, attempts>>
    BY <1>6 DEF Execute, SaveResult, StoreError, OnResult, Stop, queue
  <2> QED
    BY <2>1 DEF Job!jobVars, JobOf
<1>7. CASE Tick \/ UNCHANGED vars
  <2>1. UNCHANGED <<status, attempts>>
    BY <1>7 DEF Tick, vars, queue
  <2> QED
    BY <2>1 DEF Job!jobVars, JobOf
<1> QED
  BY <1>1, <1>2, <1>3, <1>4, <1>5, <1>6, <1>7 DEF Next, RunOnce

\* A queue file that one agent process works on keeps what CommandJob promises:
\* no redelivery, crash, recovery or retry opens a command that has ended, takes
\* back an attempt, or ends a command that has attempts left.
THEOREM QueueImplementsJob ==
    ASSUME SoleProcess
    PROVE  Safety => ImplementsCommandJob
<1>1. Init => ClaimIsExecuting
  BY DEF Init, ClaimIsExecuting
<1>2. IInv /\ ClaimIsExecuting /\ [Next]_vars => ClaimIsExecuting'
  BY SoleProcess, ClaimIsExecutingKept
<1>3. Init => Job!JobInit
  BY DEF Init, Job!JobInit, JobOf
<1>4. IInv /\ ClaimIsExecuting /\ [Next]_vars => [Job!JobNext]_(Job!jobVars)
  BY StepImplements
<1> QED
  BY <1>1, <1>2, <1>3, <1>4, Invariance, PTL DEF Safety, ImplementsCommandJob, Job!JobSpec

-----------------------------------------------------------------------------
(* A queue file that one process works on is served in order.              *)

\* A row is EXECUTING only in the hands of the process, or of one that was stopped,
\* as long as no statement of the store has failed.
NoOrphan ==
    errors = 0 =>
        \A p \in Processes, c \in Commands :
            status[c] = "EXECUTING" => pc[p] = "down" \/ Holds(p, c)

\* The attempt in the process' memory is the one that the row counts.
AttemptIsLatest ==
    \A p \in Processes :
        pc[p] \in {"claimed", "ran", "saved"} => att[p] = attempts[cur[p]]

\* A PENDING row has attempts left, so ClaimNext does not pass it over.
PendingHasTries == \A c \in Commands : status[c] = "PENDING" => attempts[c] < MaxAttempts

OrderInv == ClaimIsExecuting /\ NoOrphan /\ AttemptIsLatest /\ PendingHasTries

\* The attempt of a claim: only a claim counts one, and only a row that is not
\* there is added.
LEMMA LatestKept ==
    ASSUME SoleProcess, IInv, OrderInv, [Next]_vars
    PROVE  AttemptIsLatest'
<1> USE DEF AttemptIsLatest, OrderInv, IInv
<1> SUFFICES ASSUME NEW q \in Processes, pc'[q] \in {"claimed", "ran", "saved"}
             PROVE  att'[q] = attempts'[cur'[q]]
  OBVIOUS
<1> \A p \in Processes : p = q
  BY DEF SoleProcess
<1>1. ASSUME NEW c \in Commands, Enqueue(c) PROVE att'[q] = attempts'[cur'[q]]
  BY <1>1 DEF Enqueue, NewRows, memory, ClaimIsPast, Busy, ClaimIsExecuting
<1>2. ASSUME NEW S \in SUBSET Commands, EnqueueWithID(S) PROVE att'[q] = attempts'[cur'[q]]
  BY <1>2 DEF EnqueueWithID, NewRows, memory, ClaimIsPast, Busy, ClaimIsExecuting
<1>3. ASSUME Start(q) PROVE FALSE
  BY <1>3 DEF Start, TypeOK
<1>4. ASSUME NEW c \in Commands, ClaimNext(q, c) PROVE att'[q] = attempts'[cur'[q]]
  BY <1>4 DEF ClaimNext, TypeOK
<1>5. ASSUME Execute(q) \/ SaveResult(q) PROVE att'[q] = attempts'[cur'[q]]
  <2>1. attempts' = attempts
    BY <1>5 DEF Execute, SaveResult, StoreError, queue
  <2>2. pc[q] \in {"claimed", "ran"}
    BY <1>5 DEF Execute, SaveResult
  <2>3. cur' = cur /\ att' = att
    BY <1>5 DEF Execute, SaveResult, memory, TypeOK
  <2> QED
    BY <2>1, <2>2, <2>3
<1>6. ASSUME Settle(q) \/ OnResult(q) \/ Stop(q) PROVE FALSE
  BY <1>6 DEF Settle, OnResult, Stop, TypeOK
<1>7. CASE Tick \/ UNCHANGED vars
  BY <1>7 DEF Tick, vars, queue, memory
<1> QED
  BY <1>1, <1>2, <1>3, <1>4, <1>5, <1>6, <1>7 DEF Next, RunOnce

\* Recovery and a retry make a row PENDING only when it has attempts left.
LEMMA TriesKept ==
    ASSUME IInv, OrderInv, [Next]_vars
    PROVE  PendingHasTries'
<1> USE DEF PendingHasTries, OrderInv
<1> SUFFICES ASSUME NEW c \in Commands, status'[c] = "PENDING" PROVE attempts'[c] < MaxAttempts
  OBVIOUS
<1>0. /\ status \in [Commands -> Statuses] /\ attempts \in [Commands -> Nat]
      /\ 0 < MaxAttempts /\ MaxAttempts \in Nat
  BY MaxAttemptsAssumption DEF IInv, TypeOK
<1>1. ASSUME NEW d \in Commands, Enqueue(d) PROVE attempts'[c] < MaxAttempts
  BY <1>0, <1>1 DEF Enqueue, NewRows
<1>2. ASSUME NEW S \in SUBSET Commands, EnqueueWithID(S) PROVE attempts'[c] < MaxAttempts
  BY <1>0, <1>2 DEF EnqueueWithID, NewRows
<1>3. ASSUME NEW p \in Processes, Start(p) PROVE attempts'[c] < MaxAttempts
  BY <1>0, <1>3 DEF Start, RecoverStale, Recovered, StoreError, queue
<1>4. ASSUME NEW p \in Processes, NEW d \in Commands, ClaimNext(p, d)
      PROVE  attempts'[c] < MaxAttempts
  BY <1>0, <1>4 DEF ClaimNext
<1>5. ASSUME NEW p \in Processes, Settle(p) PROVE attempts'[c] < MaxAttempts
  <2>1. CASE SetStatus(cur[p], Verdict(p))
    <3>1. att[p] = attempts[cur[p]] /\ cur[p] \in Commands
      BY <1>5 DEF Settle, AttemptIsLatest, IInv, ClaimIsPast, Busy
    <3>2. status' = [status EXCEPT ![cur[p]] = Verdict(p)] /\ attempts' = attempts
      BY <2>1 DEF SetStatus
    <3>3. Verdict(p) = "PENDING" => att[p] < MaxAttempts
      BY DEF Verdict
    <3> QED
      BY <1>0, <3>1, <3>2, <3>3
  <2>2. CASE StoreError
    BY <2>2 DEF StoreError, queue
  <2> QED
    BY <1>5, <2>1, <2>2 DEF Settle
<1>6. ASSUME NEW p \in Processes, Execute(p) \/ SaveResult(p) \/ OnResult(p) \/ Stop(p)
      PROVE  attempts'[c] < MaxAttempts
  BY <1>6 DEF Execute, SaveResult, StoreError, OnResult, Stop, queue
<1>7. CASE Tick \/ UNCHANGED vars
  BY <1>7 DEF Tick, vars, queue
<1> QED
  BY <1>1, <1>2, <1>3, <1>4, <1>5, <1>6, <1>7 DEF Next, RunOnce

\* RunOnce ends with the row settled, and the process starts with no row EXECUTING,
\* unless a statement fails.
LEMMA OrphansKept ==
    ASSUME SoleProcess, IInv, OrderInv, [Next]_vars
    PROVE  NoOrphan'
<1> USE DEF NoOrphan, OrderInv
<1> SUFFICES ASSUME errors' = 0, NEW q \in Processes, NEW c \in Commands,
                    status'[c] = "EXECUTING", pc'[q] # "down"
             PROVE  Holds(q, c)'
  OBVIOUS
<1> \A p \in Processes : p = q
  BY DEF SoleProcess
<1>0. /\ status \in [Commands -> Statuses] /\ errors \in Nat
      /\ pc \in [Processes -> Phases] /\ cur \in [Processes -> Commands \cup {Nobody}]
  BY DEF IInv, TypeOK
<1>00. ~ StoreError
  BY <1>0 DEF StoreError
<1>1. ASSUME NEW d \in Commands, Enqueue(d) PROVE Holds(q, c)'
  BY <1>0, <1>1 DEF Enqueue, NewRows, memory, bounds, Holds
<1>2. ASSUME NEW S \in SUBSET Commands, EnqueueWithID(S) PROVE Holds(q, c)'
  BY <1>0, <1>2 DEF EnqueueWithID, NewRows, memory, bounds, Holds
<1>3. ASSUME Start(q) PROVE FALSE
  BY <1>0, <1>00, <1>3 DEF Start, RecoverStale, Recovered
<1>4. ASSUME NEW d \in Commands, ClaimNext(q, d) PROVE Holds(q, c)'
  BY <1>0, <1>4 DEF ClaimNext, Holds, bounds
<1>5. ASSUME Execute(q) PROVE Holds(q, c)'
  BY <1>0, <1>5 DEF Execute, Holds, queue, bounds
<1>6. ASSUME SaveResult(q) PROVE Holds(q, c)'
  BY <1>0, <1>00, <1>6 DEF SaveResult, Holds, queue, bounds, memory
<1>7. ASSUME Settle(q) PROVE FALSE
  <2>1. status' = [status EXCEPT ![cur[q]] = Verdict(q)] /\ errors' = errors
    BY <1>00, <1>7 DEF Settle, SetStatus, bounds
  <2>2. Verdict(q) # "EXECUTING"
    BY DEF Verdict
  <2>3. status[c] = "EXECUTING" => c = cur[q]
    BY <1>7, <2>1 DEF Settle, Holds
  <2> QED
    BY <1>0, <2>1, <2>2, <2>3
<1>8. ASSUME OnResult(q) PROVE FALSE
  BY <1>8 DEF OnResult, Holds, queue, bounds
<1>9. ASSUME Stop(q) PROVE FALSE
  BY <1>0, <1>9 DEF Stop
<1>10. CASE Tick \/ UNCHANGED vars
  BY <1>10 DEF Tick, vars, queue, memory, bounds, Holds
<1> QED
  BY <1>1, <1>2, <1>3, <1>4, <1>5, <1>6, <1>7, <1>8, <1>9, <1>10 DEF Next, RunOnce

\* A first attempt is a claim of the oldest row that can be claimed, and nothing
\* older waits outside the claimable rows.
LEMMA FirstAttemptIsOldest ==
    ASSUME SoleProcess, IInv, OrderInv, [Next]_vars, NEW c \in Commands, NEW d \in Commands,
           attempts[c] = 0, attempts'[c] = 1, status[d] # "NONE", createdAt[d] < createdAt[c],
           errors = 0
    PROVE  status[d] \in Terminal
<1>0. /\ status \in [Commands -> Statuses] /\ attempts \in [Commands -> Nat]
      /\ createdAt \in [Commands -> Nat]
  BY DEF IInv, TypeOK
<1>1. PICK p \in Processes : ClaimNext(p, c)
  <2>1. ASSUME NEW S, NewRows(S) PROVE FALSE
    BY <2>1 DEF NewRows
  <2>2. ASSUME attempts' = attempts PROVE FALSE
    BY <2>2
  <2>3. ASSUME NEW p \in Processes, NEW x \in Commands, ClaimNext(p, x) PROVE x = c
    BY <1>0, <2>3 DEF ClaimNext
  <2> QED
    BY <2>1, <2>2, <2>3
       DEF Next, RunOnce, Enqueue, EnqueueWithID, Start, RecoverStale, StoreError, Execute,
           SaveResult, Settle, SetStatus, OnResult, Stop, Tick, queue, vars
<1>2. ~ Eligible(d)
  BY <1>0, <1>1 DEF ClaimNext, Oldest, Before
<1>3. status[d] # "PENDING"
  BY <1>2 DEF Eligible, OrderInv, PendingHasTries
<1>4. status[d] # "EXECUTING"
  BY <1>1 DEF ClaimNext, OrderInv, NoOrphan, Holds
<1> QED
  BY <1>0, <1>3, <1>4 DEF Statuses

\* With one process on the file and no store error, first attempts are made in the
\* order of the seconds the commands were queued in.
THEOREM QueueIsServedInOrder ==
    ASSUME SoleProcess
    PROVE  Safety => FirstAttemptsInOrder
<1> DEFINE InOrder == \A c, d \in Commands :
                          /\ attempts[c] = 0 /\ attempts'[c] = 1
                          /\ status[d] # "NONE" /\ createdAt[d] < createdAt[c]
                          => status[d] \in Terminal \/ errors > 0
<1>1. Init => OrderInv
  BY DEF Init, OrderInv, ClaimIsExecuting, NoOrphan, AttemptIsLatest, PendingHasTries
<1>2. IInv /\ OrderInv /\ [Next]_vars => OrderInv'
  BY SoleProcess, ClaimIsExecutingKept, LatestKept, TriesKept, OrphansKept DEF OrderInv
<1>3. ASSUME IInv, OrderInv, [Next]_vars PROVE InOrder
  <2>1. errors \in Nat
    BY <1>3 DEF IInv, TypeOK
  <2> QED
    BY SoleProcess, <1>3, <2>1, FirstAttemptIsOldest
<1>4. IInv /\ OrderInv /\ [Next]_vars => [InOrder]_vars
  BY <1>3
<1> QED
  BY <1>1, <1>2, <1>4, Invariance, PTL DEF Safety, FirstAttemptsInOrder

-----------------------------------------------------------------------------
(* A success is the end of a command.                                      *)

\* Before its first start the process has run nothing.
NothingRun ==
    \A p \in Processes, c \in Commands, k \in AttemptNos :
        stops = 0 /\ pc[p] = "down" => result[c][k] = "none"

UndecodableFails == \A c \in Undecodable, k \in AttemptNos : result[c][k] # "zero"

SuccessInv == SuccessIsLast /\ NothingRun /\ UndecodableFails

\* Only SaveResult adds results, of the attempt that the row counts.
LEMMA SuccessKept ==
    ASSUME SoleProcess, IInv, OrderInv, SuccessInv, [Next]_vars
    PROVE  SuccessInv'
<1> USE CommandsAssumption DEF SuccessInv, SuccessIsLast, NothingRun, UndecodableFails
<1>0. /\ status \in [Commands -> Statuses] /\ attempts \in [Commands -> Nat]
      /\ result \in [Commands -> [AttemptNos -> ExitCodes \cup {"none"}]]
      /\ pc \in [Processes -> Phases] /\ stops \in Nat
  BY DEF IInv, TypeOK
<1>1. ASSUME NEW S \in SUBSET Commands, NewRows(S), \A c \in S : status[c] = "NONE",
             UNCHANGED <<result, pc, memory, executed, reported, bounds>>
      PROVE  SuccessInv'
  <2>1. \A c \in S, k \in AttemptNos : result[c][k] = "none"
    BY <1>1 DEF IInv, AttemptsBounded, FutureIsEmpty, AttemptNos
  <2> QED
    BY <1>0, <1>1, <2>1 DEF NewRows, bounds
<1>2. ASSUME NEW p \in Processes, Start(p) PROVE SuccessInv'
  <2>1. stops = 0 => \A c \in Commands, k \in AttemptNos : result[c][k] = "none"
    BY <1>2 DEF Start
  <2>2. result' = result /\ stops' = stops
    BY <1>2 DEF Start, StoreError, bounds
  <2> QED
    BY <1>0, <2>1, <2>2
<1>3. ASSUME NEW p \in Processes, NEW c \in Commands, ClaimNext(p, c) PROVE SuccessInv'
  <2>1. status[c] = "PENDING" /\ result' = result /\ stops' = stops
    BY <1>3 DEF ClaimNext, Oldest, Eligible, bounds
  <2>2. \A d \in Commands \ {c} : attempts'[d] = attempts[d] /\ status'[d] = status[d]
    BY <1>0, <1>3 DEF ClaimNext
  <2>3. \A q \in Processes : pc'[q] = "down" => pc[q] = "down"
    BY <1>0, <1>3 DEF ClaimNext
  <2> QED
    BY <2>1, <2>2, <2>3
<1>4. ASSUME NEW p \in Processes, SaveResult(p) PROVE SuccessInv'
  <2>1. cur[p] \in Commands /\ att[p] \in AttemptNos /\ att[p] = attempts[cur[p]]
    BY <1>4 DEF SaveResult, IInv, ClaimIsPast, Busy, OrderInv, AttemptIsLatest
  <2>2. status[cur[p]] = "EXECUTING" /\ (cur[p] \in Undecodable => exit[p] = "nonzero")
    BY <1>4 DEF SaveResult, OrderInv, ClaimIsExecuting, IInv, ExitIsKnown
  <2>3. queue' = queue /\ stops' = stops
    BY <1>4 DEF SaveResult, StoreError, bounds
  <2>4. \/ result' = result
        \/ result' = [result EXCEPT ![cur[p]][att[p]] = exit[p]]
    BY <1>4 DEF SaveResult, StoreError
  <2>5. \A q \in Processes : pc'[q] # "down"
    BY <1>0, <1>4 DEF SaveResult, SoleProcess
  <2>6. \A c \in Commands, k \in AttemptNos :
           result'[c][k] = result[c][k] \/ (c = cur[p] /\ k = att[p] /\ result'[c][k] = exit[p])
    BY <1>0, <2>1, <2>4
  <2>7. SuccessIsLast'
    BY <2>1, <2>2, <2>3, <2>6 DEF queue
  <2>8. UndecodableFails'
    BY <2>2, <2>6
  <2> QED
    BY <2>5, <2>7, <2>8
<1>5. ASSUME NEW p \in Processes, Settle(p) PROVE SuccessInv'
  <2>1. /\ cur[p] \in Commands /\ att[p] = attempts[cur[p]] /\ att[p] \in AttemptNos
        /\ cur[p] \in Undecodable \/ result[cur[p]][att[p]] = exit[p]
    BY <1>5 DEF Settle, IInv, ClaimIsPast, Busy, OrderInv, AttemptIsLatest, RowIsSaved
  <2>2. result' = result /\ stops' = stops /\ attempts' = attempts
    BY <1>5 DEF Settle, SetStatus, StoreError, bounds, queue
  <2>3. status' = status \/ status' = [status EXCEPT ![cur[p]] = Verdict(p)]
    BY <1>5 DEF Settle, SetStatus, StoreError, queue
  <2>4. \A q \in Processes : pc'[q] # "down"
    BY <1>0, <1>5 DEF Settle, SoleProcess
  <2>5. ASSUME NEW k \in AttemptNos, result[cur[p]][k] = "zero", stops = 0
        PROVE  Verdict(p) = "COMPLETED"
    <3>1. attempts[cur[p]] = k
      <4>1. ~ (stops > 0)
        BY <2>5
      <4> QED
        BY <2>1, <2>5, <4>1, Zenon DEF SuccessInv, SuccessIsLast
    <3>2. cur[p] \notin Undecodable
      BY <2>5
    <3> QED
      BY <2>1, <2>5, <3>1, <3>2 DEF Verdict
  <2>6. SuccessIsLast'
    BY <1>0, <2>1, <2>2, <2>3, <2>5
  <2> QED
    BY <2>2, <2>4, <2>6
<1>6. ASSUME NEW p \in Processes, Execute(p) \/ OnResult(p) PROVE SuccessInv'
  <2>1. result' = result /\ stops' = stops /\ queue' = queue
    BY <1>6 DEF Execute, OnResult, bounds
  <2>2. \A q \in Processes : pc'[q] # "down"
    BY <1>0, <1>6 DEF Execute, OnResult, SoleProcess
  <2> QED
    BY <2>1, <2>2 DEF queue
<1>7. ASSUME NEW p \in Processes, Stop(p) PROVE SuccessInv'
  BY <1>0, <1>7 DEF Stop, queue
<1>8. CASE Tick \/ UNCHANGED vars
  BY <1>8 DEF Tick, vars, queue, bounds
<1>9. ASSUME NEW c \in Commands, Enqueue(c) PROVE SuccessInv'
  BY <1>1, <1>9 DEF Enqueue
<1>10. ASSUME NEW S \in SUBSET Commands, EnqueueWithID(S) PROVE SuccessInv'
  BY <1>1, <1>10 DEF EnqueueWithID
<1> QED
  BY <1>2, <1>3, <1>4, <1>5, <1>6, <1>7, <1>8, <1>9, <1>10 DEF Next, RunOnce

\* With one process on the file, a command whose success was saved is not run again,
\* FAILED or queued again unless the process has been stopped: a failing Complete or
\* Requeue does not do it.
THEOREM SuccessesAreLast ==
    ASSUME SoleProcess
    PROVE  Safety => []SuccessIsLast
<1>1. Init => OrderInv /\ SuccessInv
  BY CommandsAssumption
     DEF Init, OrderInv, ClaimIsExecuting, NoOrphan, AttemptIsLatest, PendingHasTries,
         SuccessInv, SuccessIsLast, NothingRun, UndecodableFails
<1>2. IInv /\ OrderInv /\ SuccessInv /\ [Next]_vars => (OrderInv /\ SuccessInv)'
  BY SoleProcess, SuccessKept, ClaimIsExecutingKept, LatestKept, TriesKept, OrphansKept
     DEF OrderInv
<1>3. SuccessInv => SuccessIsLast
  BY DEF SuccessInv
<1> QED
  BY <1>1, <1>2, <1>3, Invariance, PTL DEF Safety
=============================================================================
