--------------------------- MODULE RemoteOperation ---------------------------
(***************************************************************************)
(* What the relay promises about a request of a controller to a device     *)
(* (list, read, write, delete, kill, capture), without connections,        *)
(* channels or handlers: it is granted to the account the device has when  *)
(* it is asked, performed at most once and only if it was granted, and the *)
(* audit log records operations that were performed, each when it is       *)
(* reported.  A device that has had an account is never without one again. *)
(***************************************************************************)
EXTENDS Naturals

CONSTANTS Requests, Controllers, From, AccountOf, Users, NoUser, Audited

VARIABLES
    op,     \* where a request is
    runs,   \* how many times the device has performed it
    log,    \* the requests the audit log records
    holder  \* the account of the device

opVars == <<op, runs, log, holder>>

OperationInit ==
    /\ op = [r \in Requests |-> "idle"]
    /\ runs = [r \in Requests |-> 0]
    /\ log = {}
    /\ holder = NoUser

MayAsk(r) ==
    \/ holder = NoUser
    \/ AccountOf[From[r]] \in {NoUser, holder}

Grant(r) ==
    /\ op[r] = "idle" /\ MayAsk(r)
    /\ op' = [op EXCEPT ![r] = "granted"]
    /\ UNCHANGED <<runs, log, holder>>

\* Refused when asked, or later because the device is offline.
Refuse(r) ==
    /\ op[r] = "granted" \/ (op[r] = "idle" /\ ~ MayAsk(r))
    /\ op' = [op EXCEPT ![r] = "refused"]
    /\ UNCHANGED <<runs, log, holder>>

Perform(r) ==
    /\ op[r] = "granted"
    /\ op' = [op EXCEPT ![r] = "performed"]
    /\ runs' = [runs EXCEPT ![r] = @ + 1]
    /\ UNCHANGED <<log, holder>>

Report(r) ==
    /\ op[r] = "performed"
    /\ op' = [op EXCEPT ![r] = "reported"]
    /\ log' = log \cup ({r} \cap Audited)
    /\ UNCHANGED <<runs, holder>>

Bind(u) ==
    /\ holder' = u
    /\ UNCHANGED <<op, runs, log>>

OperationNext ==
    \/ \E r \in Requests : Grant(r) \/ Refuse(r) \/ Perform(r) \/ Report(r)
    \/ \E u \in Users : Bind(u)

OperationSpec == OperationInit /\ [][OperationNext]_opVars
=============================================================================
