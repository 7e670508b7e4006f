----------------------------- MODULE AgentWorker -----------------------------
(***************************************************************************)
(* The agent's durable command queue (agent/internal/store/store.go) and   *)
(* the worker that drains it (agent/internal/worker/worker.go), with the   *)
(* start-up of an agent process (cmd/terminal-agent/main.go, service.go).  *)
(*                                                                         *)
(* Every statement on the SQLite file is atomic and durable; what a        *)
(* process keeps in memory is lost when it stops.  Several processes may   *)
(* work on the same file: the service, `run', and `run --drain'.           *)
(***************************************************************************)
EXTENDS Naturals

CONSTANTS
    Commands,     \* CommandIds; their order is the order of the TEXT column
    Undecodable,  \* rows whose Payload column is not a JSON payload
    Processes,    \* agent processes that share the queue file
    MaxAttempts,  \* config.MaxAttempts
    MaxStops,     \* bound: stops and crashes of processes
    MaxErrors,    \* bound: store statements that return an error
    MaxTime       \* bound: seconds that pass

ASSUME CommandsAssumption ==
    Commands \subseteq Nat \ {0} /\ Undecodable \subseteq Commands
ASSUME MaxAttemptsAssumption == MaxAttempts \in Nat \ {0}
ASSUME BoundsAssumption == MaxStops \in Nat /\ MaxErrors \in Nat /\ MaxTime \in Nat

VARIABLES
    status,     \* CommandQueue.Status, "NONE" when there is no row
    attempts,   \* CommandQueue.Attempts
    createdAt,  \* CommandQueue.CreatedAt, in seconds
    result,     \* ResultQueue: the exit code saved for each attempt
    pc,         \* where each process is in RunOnce
    cur,        \* the command a process has claimed
    att,        \* cmd.Attempts in that process' memory
    exit,       \* the exit code of the run in that process' memory
    executed,   \* history: how often exec.Run was called in each attempt
    reported,   \* history: results handed to onResult
    stops, errors, now

queue == <<status, attempts, createdAt>>
memory == <<cur, att, exit>>
bounds == <<stops, errors, now>>
vars == <<queue, result, pc, memory, executed, reported, bounds>>

AttemptNos == 1 .. MaxAttempts
Terminal == {"COMPLETED", "FAILED"}
Statuses == {"NONE", "PENDING", "EXECUTING"} \cup Terminal
ExitCodes == {"zero", "nonzero"}
Phases == {"down", "idle", "claimed", "ran", "saved", "onResult"}
Nobody == 0

TypeOK ==
    /\ status \in [Commands -> Statuses]
    /\ attempts \in [Commands -> Nat]
    /\ createdAt \in [Commands -> Nat]
    /\ result \in [Commands -> [AttemptNos -> ExitCodes \cup {"none"}]]
    /\ pc \in [Processes -> Phases]
    /\ cur \in [Processes -> Commands \cup {Nobody}]
    /\ att \in [Processes -> Nat]
    /\ exit \in [Processes -> ExitCodes \cup {"none"}]
    /\ executed \in [Commands -> [AttemptNos -> Nat]]
    /\ reported \subseteq Commands \X AttemptNos \X ExitCodes
    /\ stops \in Nat /\ errors \in Nat /\ now \in Nat

Init ==
    /\ status = [c \in Commands |-> "NONE"]
    /\ attempts = [c \in Commands |-> 0]
    /\ createdAt = [c \in Commands |-> 0]
    /\ result = [c \in Commands |-> [k \in AttemptNos |-> "none"]]
    /\ pc = [p \in Processes |-> "down"]
    /\ cur = [p \in Processes |-> Nobody]
    /\ att = [p \in Processes |-> 0]
    /\ exit = [p \in Processes |-> "none"]
    /\ executed = [c \in Commands |-> [k \in AttemptNos |-> 0]]
    /\ reported = {}
    /\ stops = 0 /\ errors = 0 /\ now = 0

-----------------------------------------------------------------------------
(* The store's statements.                                                 *)

NewRows(S) ==
    /\ status' = [c \in Commands |-> IF c \in S THEN "PENDING" ELSE status[c]]
    /\ attempts' = [c \in Commands |-> IF c \in S THEN 0 ELSE attempts[c]]
    /\ createdAt' = [c \in Commands |-> IF c \in S THEN now ELSE createdAt[c]]

SetStatus(c, s) ==
    /\ status' = [status EXCEPT ![c] = s]
    /\ UNCHANGED <<attempts, createdAt>>

\* A statement that returns an error has no effect on the file.
StoreError ==
    /\ errors < MaxErrors
    /\ errors' = errors + 1
    /\ UNCHANGED <<queue, result, stops, now>>

\* `terminal-agent enqueue': a fresh uuid.
Enqueue(c) ==
    /\ status[c] = "NONE"
    /\ NewRows({c})
    /\ UNCHANGED <<result, pc, memory, executed, reported, bounds>>

\* Mutant: ON CONFLICT(CommandId) DO UPDATE, a redelivery starts the row anew.
EnqueueWithID_Replaces(S) ==
    /\ NewRows(S)
    /\ UNCHANGED <<result, pc, memory, executed, reported, bounds>>

\* The commands of one message of the relay; ON CONFLICT(CommandId) DO NOTHING.
EnqueueWithID(S) ==
    /\ NewRows({c \in S : status[c] = "NONE"})
    /\ UNCHANGED <<result, pc, memory, executed, reported, bounds>>

\* Mutant: ClaimNext without Attempts < ?.
Eligible_Unbounded(c) == status[c] = "PENDING"

Eligible(c) == status[c] = "PENDING" /\ attempts[c] < MaxAttempts

\* Mutant: ORDER BY CommandId only.
Before_ById(c, d) == c <= d

\* ORDER BY CreatedAt ASC, CommandId ASC
Before(c, d) ==
    \/ createdAt[c] < createdAt[d]
    \/ createdAt[c] = createdAt[d] /\ c <= d

Oldest(c) == Eligible(c) /\ \A d \in Commands : Eligible(d) => Before(c, d)

\* Mutants: the relay's DISPATCHED written by the agent; no test of Attempts.
Recovered_Dispatched(c) ==
    IF status[c] # "EXECUTING" THEN status[c]
    ELSE IF attempts[c] >= MaxAttempts THEN "FAILED" ELSE "DISPATCHED"

Recovered_Fails(c) == IF status[c] = "EXECUTING" THEN "FAILED" ELSE status[c]

Recovered(c) ==
    IF status[c] # "EXECUTING" THEN status[c]
    ELSE IF attempts[c] >= MaxAttempts THEN "FAILED" ELSE "PENDING"

\* Mutant: no recovery at start-up.
RecoverStale_Skipped == UNCHANGED queue

RecoverStale ==
    /\ status' = [c \in Commands |-> Recovered(c)]
    /\ UNCHANGED <<attempts, createdAt>>

-----------------------------------------------------------------------------
(* An agent process.                                                       *)

\* RunOnce returns, or the process ends: its local variables are gone.
Forget(p) ==
    /\ cur' = [cur EXCEPT ![p] = Nobody]
    /\ att' = [att EXCEPT ![p] = 0]
    /\ exit' = [exit EXCEPT ![p] = "none"]

\* Open the store, RecoverStale, start the worker.  An error of RecoverStale
\* is logged and the worker starts all the same.
Start(p) ==
    /\ pc[p] = "down"
    /\ pc' = [pc EXCEPT ![p] = "idle"]
    /\ \/ RecoverStale /\ UNCHANGED <<result, bounds>>
       \/ StoreError
    /\ UNCHANGED <<memory, executed, reported>>

\* Mutant: the claim does not count as an attempt in the table.
ClaimNext_Uncounted(p, c) ==
    /\ pc[p] = "idle"
    /\ Oldest(c)
    /\ status' = [status EXCEPT ![c] = "EXECUTING"]
    /\ cur' = [cur EXCEPT ![p] = c]
    /\ att' = [att EXCEPT ![p] = attempts[c] + 1]
    /\ pc' = [pc EXCEPT ![p] = "claimed"]
    /\ UNCHANGED <<attempts, createdAt, result, exit, executed, reported, bounds>>

\* ClaimNext: one transaction.
ClaimNext(p, c) ==
    /\ pc[p] = "idle"
    /\ Oldest(c)
    /\ status' = [status EXCEPT ![c] = "EXECUTING"]
    /\ attempts' = [attempts EXCEPT ![c] = @ + 1]
    /\ cur' = [cur EXCEPT ![p] = c]
    /\ att' = [att EXCEPT ![p] = attempts[c] + 1]
    /\ pc' = [pc EXCEPT ![p] = "claimed"]
    /\ UNCHANGED <<createdAt, result, exit, executed, reported, bounds>>

\* exec.Run: the exit code is 0, or not 0 (also -1: not started, timed out).
\* A payload that does not decode is not run and gets -1.  A Stop at "ran" is a
\* crash during the run or right after it: the exit code is lost either way.
Execute(p) ==
    LET c == cur[p] IN
    /\ pc[p] = "claimed"
    /\ \/ c \notin Undecodable
          /\ \E e \in ExitCodes : exit' = [exit EXCEPT ![p] = e]
          /\ executed' = [executed EXCEPT ![c][att[p]] = @ + 1]
       \/ c \in Undecodable
          /\ exit' = [exit EXCEPT ![p] = "nonzero"]
          /\ UNCHANGED executed
    /\ pc' = [pc EXCEPT ![p] = "ran"]
    /\ UNCHANGED <<queue, result, cur, att, reported, bounds>>

\* Mutant: the error of SaveResult is ignored for every command.
SaveResult_Ignored(p) ==
    /\ pc[p] = "ran"
    /\ \/ /\ result' = [result EXCEPT ![cur[p]][att[p]] = exit[p]]
          /\ UNCHANGED <<queue, bounds>>
       \/ StoreError
    /\ pc' = [pc EXCEPT ![p] = "saved"]
    /\ UNCHANGED <<memory, executed, reported>>

\* SaveResult inserts a row under a fresh ResultId: the row of this attempt.
\* On an error RunOnce returns, and leaves the command EXECUTING; for an
\* undecodable payload the error is ignored.
SaveResult(p) ==
    /\ pc[p] = "ran"
    /\ \/ /\ result' = [result EXCEPT ![cur[p]][att[p]] = exit[p]]
          /\ pc' = [pc EXCEPT ![p] = "saved"]
          /\ UNCHANGED <<queue, memory, bounds>>
       \/ /\ StoreError /\ cur[p] \notin Undecodable
          /\ Forget(p)
          /\ pc' = [pc EXCEPT ![p] = "idle"]
       \/ /\ StoreError /\ cur[p] \in Undecodable
          /\ pc' = [pc EXCEPT ![p] = "saved"]
          /\ UNCHANGED memory
    /\ UNCHANGED <<executed, reported>>

\* Mutant: the last attempt completes the command whatever its exit code.
Verdict_Last(p) ==
    IF exit[p] # "zero" /\ att[p] < MaxAttempts THEN "PENDING" ELSE "COMPLETED"

\* Mutant: the attempts that are left are looked at before the exit code.
Verdict_Retries(p) ==
    IF cur[p] \notin Undecodable /\ att[p] < MaxAttempts THEN "PENDING"
    ELSE IF exit[p] = "zero" THEN "COMPLETED" ELSE "FAILED"

\* The status RunOnce gives the command it has run.
Verdict(p) ==
    IF exit[p] = "zero" THEN "COMPLETED"
    ELSE IF cur[p] \notin Undecodable /\ att[p] < MaxAttempts THEN "PENDING"
    ELSE "FAILED"

\* Complete or Requeue: UPDATE ... WHERE CommandId = ?, its error ignored.
\* Only a terminal status is reported.
Settle(p) ==
    /\ pc[p] = "saved"
    /\ \/ SetStatus(cur[p], Verdict(p)) /\ UNCHANGED <<result, bounds>>
       \/ StoreError
    /\ IF Verdict(p) = "PENDING"
         THEN Forget(p) /\ pc' = [pc EXCEPT ![p] = "idle"]
         ELSE UNCHANGED memory /\ pc' = [pc EXCEPT ![p] = "onResult"]
    /\ UNCHANGED <<executed, reported>>

OnResult(p) ==
    /\ pc[p] = "onResult"
    /\ reported' = reported \cup {<<cur[p], att[p], exit[p]>>}
    /\ Forget(p)
    /\ pc' = [pc EXCEPT ![p] = "idle"]
    /\ UNCHANGED <<queue, result, executed, bounds>>

\* A stop between two commands (ctx cancelled, or a drained queue), a crash, a
\* reboot, or the service manager giving up on a running command after 15s.
Stop(p) ==
    /\ pc[p] # "down"
    /\ stops < MaxStops
    /\ stops' = stops + 1
    /\ Forget(p)
    /\ pc' = [pc EXCEPT ![p] = "down"]
    /\ UNCHANGED <<queue, result, executed, reported, errors, now>>

Tick ==
    /\ now < MaxTime
    /\ now' = now + 1
    /\ UNCHANGED <<queue, result, pc, memory, executed, reported, stops, errors>>

RunOnce(p) ==
    \/ \E c \in Commands : ClaimNext(p, c)
    \/ Execute(p)
    \/ SaveResult(p)
    \/ Settle(p)
    \/ OnResult(p)

Next ==
    \/ \E c \in Commands : Enqueue(c)
    \/ \E S \in SUBSET Commands : EnqueueWithID(S)
    \/ \E p \in Processes : Start(p) \/ RunOnce(p) \/ Stop(p)
    \/ Tick

\* The service manager restarts a stopped process, and the worker polls the
\* queue every PollInterval: both keep taking steps they can take.
Fairness == \A p \in Processes : WF_vars(Start(p)) /\ WF_vars(RunOnce(p))

Safety == Init /\ [][Next]_vars
Spec == Safety /\ Fairness

-----------------------------------------------------------------------------
(* Properties that hold for any number of processes.                       *)

\* The holder of a claim is past ClaimNext and has not settled it yet.
Holds(p, c) == pc[p] \in {"claimed", "ran", "saved"} /\ cur[p] = c

\* However often a command is redelivered, requeued or recovered after a
\* crash, exec.Run is called at most once for each attempt that was claimed,
\* and MaxAttempts attempts are claimed at most (config.MaxAttempts).
ExecutionsBounded ==
    \A c \in Commands :
        /\ attempts[c] <= MaxAttempts
        /\ \A k \in AttemptNos : executed[c][k] <= IF k <= attempts[c] THEN 1 ELSE 0

\* Two processes never hold the same attempt of a command, and the row of an
\* attempt still to be saved does not exist: SaveResult adds a row to
\* ResultQueue and never replaces one.
ClaimsAreExclusive ==
    \A p \in Processes, c \in Commands :
        Holds(p, c) =>
            /\ \A q \in Processes \ {p} : Holds(q, c) => att[q] # att[p]
            /\ pc[p] # "saved" => result[c][att[p]] = "none"

\* onResult is only called with a result that ResultQueue holds, so a report
\* lost on the way to the relay can be repeated by a sync; the exception is an
\* undecodable payload, whose SaveResult error RunOnce ignores.
ReportedIsSaved ==
    \A r \in reported : r[1] \in Undecodable \/ result[r[1]][r[2]] = r[3]

\* A command ends FAILED only when its attempts are used up (RunOnce's default
\* case, RecoverStale) or when it could never run.
FailedIsExhausted ==
    \A c \in Commands :
        status[c] = "FAILED" => c \in Undecodable \/ attempts[c] = MaxAttempts

\* A command is COMPLETED only with a saved result whose exit code is 0.
CompletedHasSuccess ==
    \A c \in Commands :
        status[c] = "COMPLETED" => \E k \in AttemptNos : result[c][k] = "zero"

-----------------------------------------------------------------------------
(* Properties of a queue file that one process works on.                   *)

\* A command is an open job while its row is PENDING or EXECUTING.
JobOf(s) ==
    IF s = "NONE" THEN "absent"
    ELSE IF s \in {"PENDING", "EXECUTING"} THEN "open"
    ELSE IF s = "COMPLETED" THEN "done" ELSE "failed"

Job == INSTANCE CommandJob WITH
    job <- [c \in Commands |-> JobOf(status[c])], tries <- attempts

\* The queue implements the life cycle CommandJob promises: no redelivery, crash,
\* recovery or retry opens a command that has ended, takes back an attempt, or
\* ends a command that has attempts left.
ImplementsCommandJob == Job!JobSpec

\* First attempts are made in the order of the seconds the commands were queued
\* in: retries, crashes and recovery keep an older command ahead.  (A store
\* error may leave the older command EXECUTING, and it is overtaken then.)
FirstAttemptsInOrder ==
    [][\A c, d \in Commands :
          /\ attempts[c] = 0 /\ attempts'[c] = 1
          /\ status[d] # "NONE" /\ createdAt[d] < createdAt[c]
          => status[d] \in Terminal \/ errors > 0]_vars

\* A success is the end of a command: no attempt follows it and it is not FAILED
\* or queued again, even when the statements that settle the row fail.  Only
\* RecoverStale after a stop can do that, to a row whose process died between
\* SaveResult and Complete.
SuccessIsLast ==
    \A c \in Commands, k \in AttemptNos :
        result[c][k] = "zero" =>
            \/ attempts[c] = k /\ status[c] \in {"EXECUTING", "COMPLETED"}
            \/ stops > 0

\* A store error has left the row EXECUTING: no process has it, and none that is
\* about to start will recover it.
Orphaned(c) ==
    /\ errors > 0 /\ status[c] = "EXECUTING"
    /\ \A p \in Processes : pc[p] # "down" /\ ~ Holds(p, c)

\* Every queued command ends, however the agent is stopped and restarted, or is left
\* EXECUTING by a store error.  Such a row ends after the next start; the other
\* commands are not held up by it.
EventuallySettled ==
    \A c \in Commands : status[c] # "NONE" ~> status[c] \in Terminal \/ Orphaned(c)
=============================================================================
