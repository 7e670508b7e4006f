----------------------------- MODULE CommandJob -----------------------------
(***************************************************************************)
(* What the agent's queue promises about each command, whoever crashes and *)
(* whatever is redelivered: a job is submitted once, tried at most         *)
(* MaxAttempts times, ends once, and then stays as it ended.               *)
(***************************************************************************)
EXTENDS Naturals

CONSTANTS Commands, Undecodable, MaxAttempts

VARIABLES job, tries

jobVars == <<job, tries>>

JobInit ==
    /\ job = [c \in Commands |-> "absent"]
    /\ tries = [c \in Commands |-> 0]

\* One message of the relay may submit several jobs.
Submit(S) ==
    /\ \A c \in S : job[c] = "absent"
    /\ job' = [c \in Commands |-> IF c \in S THEN "open" ELSE job[c]]
    /\ UNCHANGED tries

Try(c) ==
    /\ job[c] = "open" /\ tries[c] < MaxAttempts
    /\ tries' = [tries EXCEPT ![c] = @ + 1]
    /\ UNCHANGED job

Finish(c) ==
    /\ job[c] = "open" /\ tries[c] > 0
    /\ job' = [job EXCEPT ![c] = "done"]
    /\ UNCHANGED tries

\* Several jobs may be given up in one step: recovery after a crash looks at
\* the whole queue.
CanFail(c) == job[c] = "open" /\ (tries[c] = MaxAttempts \/ c \in Undecodable)

GiveUp(S) ==
    /\ \A c \in S : CanFail(c)
    /\ job' = [c \in Commands |-> IF c \in S THEN "failed" ELSE job[c]]
    /\ UNCHANGED tries

JobNext ==
    \/ \E c \in Commands : Try(c) \/ Finish(c)
    \/ \E S \in SUBSET Commands : Submit(S) \/ GiveUp(S)

JobSpec == JobInit /\ [][JobNext]_jobVars
=============================================================================
