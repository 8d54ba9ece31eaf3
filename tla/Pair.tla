-------------------------------- MODULE Pair --------------------------------
(***************************************************************************)
(* The durable SQLite rows of one Pair (a project lane bound to one AO     *)
(* worker session), shared by every saga of the Supervisor.  One variable  *)
(* per column group that some guard or compare-and-set reads.  A store     *)
(* transaction is one step; the audit event that each transaction appends  *)
(* commits or rolls back with it, so it carries no state of its own here.  *)
(***************************************************************************)
EXTENDS Integers, Workflow

CONSTANTS
    Tasks,        \* tasks of the Pair
    MaxAttempts,  \* bound on tasks.current_attempt
    MaxStops,     \* bound on the stop_operations rows
    MaxRestores,  \* bound on the pair_restore_operations rows
    MaxGen,       \* bound on the terminal generations AO hands out
    Principals    \* operators the host may vouch for

ASSUME MaxAttemptsAssumption == MaxAttempts \in Nat
ASSUME MaxGenAssumption == MaxGen \in Nat
ASSUME MaxStopsAssumption == MaxStops \in Nat
ASSUME MaxRestoresAssumption == MaxRestores \in Nat

Attempts == Tasks \X (1 .. MaxAttempts)
Generations == 0 .. MaxGen
Stops == 1 .. MaxStops      \* in rowid order

NULL == "NULL"      \* SQL NULL

-----------------------------------------------------------------------------
(* Columns.                                                                *)

VARIABLES
    taskState,          \* tasks.state
    currentAttempt,     \* tasks.current_attempt
    contract,           \* is_immutable of the task's latest contract revision
    attemptState,       \* task_attempts row: absent, ended_at NULL, or ended
    disposition,        \* task_attempts.recovery_disposition
    quarantine,         \* task_attempts.quarantine_state
    boundGen,           \* task_attempts / dispatch_operations generation
    stage,              \* dispatch_operations.stage
    resolution,         \* dispatch_operations.resolution_state
    budget,             \* attempt_execution_budgets.binding_basis
    sessionGen,         \* worker_sessions.terminal_generation
    sessionStatus,      \* worker_sessions.status
    sessionQuarantine,  \* worker_sessions.quarantine_state
    stopOp,             \* stop_operations, by identity
    restoreOp,          \* the latest pair_restore_operations row; older ones are RESOLVED
    provisionStage      \* the Pair's pair_provisioning_operations.stage

taskVars    == <<taskState, currentAttempt, contract>>
attemptVars == <<attemptState, disposition, quarantine, boundGen>>
dispatchVars == <<stage, resolution, budget>>
sessionVars == <<sessionGen, sessionStatus, sessionQuarantine>>
pairOpVars  == <<stopOp, restoreOp, provisionStage>>
rows == <<taskVars, attemptVars, dispatchVars, sessionVars, pairOpVars>>

-----------------------------------------------------------------------------
(* Column domains (CHECK constraints of migrations.go, domain constants).  *)

ContractStates == { "NONE", "MUTABLE", "IMMUTABLE" }
AttemptStates == { "NONE", "OPEN", "ENDED" }
QuarantineStates == { "CLEAN", "QUARANTINED" }
DispatchStages == { "NONE", "DISPATCH_BOUND", "SEND_REQUESTED", "SEND_CONFIRMED" }
DispatchResolutions == { NULL, "DELIVERY_OUTCOME_UNKNOWN" }
BudgetBases == { "NONE", "SEND_CONFIRMATION_ATOMIC", "LEGACY_OPERATOR_VERIFIED" }
SessionStatuses == { "NONE", "ACTIVE", "IDLE", "TERMINATED" }
ProvisionStages ==
    { "NONE", "PROVISION_REQUESTED", "PROVISION_CONFIRMED", "PROVISION_FAILED",
      "PROVISION_RESOLVED" }

PreSendHolds == { "RECOVERY_PENDING", "PRE_SEND_PROTOCOL_UNVERIFIED" }

Dispositions ==
    PreSendHolds \cup
    { NULL, "AO_WAITING_INPUT_OBSERVED", "AO_BLOCKED_DECISION",
      "AO_BLOCKED_ESCALATED", "MISSED_ACTIVE_WINDOW",
      "UNCERTAIN_DELIVERY_CRASH", "SESSION_ABSENT",
      "STALE_EXECUTION_GENERATION", "PRE_SEND_IDENTITY_MISMATCH",
      "WORKER_TERMINATION_UNKNOWN", "WORKER_STOPPED",
      "STOP_CONFIRMATION_TIMEOUT", "STOP_GENERATION_MISMATCH",
      "STOP_CALL_OUTCOME_UNKNOWN" }

\* D12 outcomes that close both quarantine gates.
DoubleQuarantine ==
    { "PRE_SEND_IDENTITY_MISMATCH", "STALE_EXECUTION_GENERATION", "SESSION_ABSENT" }

StopPurposes == { "RUNNING_ATTEMPT_STOP", "QUARANTINE_CLEANUP", "PAIR_MAINTENANCE" }
StopStages ==
    { "STOP_REQUESTED", "STOP_CALL_SUCCEEDED", "STOP_CALL_FAILED",
      "STOP_TARGET_ABSENT", "STOP_TERMINATION_CONFIRMED" }
StopResolutions ==
    { "IN_FLIGHT", "STOP_CALL_OUTCOME_UNKNOWN", "STOP_CONFIRMATION_TIMEOUT",
      "STOP_REISSUE_REQUIRES_HUMAN", "TERMINATION_CONFIRMED",
      "STOP_TARGET_ABSENT", "STOP_CALL_FAILED", "STOP_GENERATION_MISMATCH",
      "STOP_EFFECT_UNPROVEN_TARGET_ALREADY_TERMINATED", "ADMINISTRATIVE_RISK_ACCEPTED" }

NoAttempt == <<>>
NoStop == [purpose |-> "NONE"]
StopRows ==
    [ purpose : StopPurposes, att : Attempts \cup {NoAttempt}, gen : Generations,
      stage : StopStages, resolution : StopResolutions, timeout : BOOLEAN,
      restore : 0 .. MaxRestores ]     \* restore_operation_id, 0 when unlinked

RestoreStages == { "NONE", "RESTORE_REQUESTED", "RESTORE_CONFIRMED" }
RestoreResolutions ==
    { "IN_FLIGHT", "RESTORE_OUTCOME_UNKNOWN", "RESTORE_RECOVERY_CLAIMED",
      "RESTORE_CLEANUP_CLAIMED", "RESTORE_RESOLVED" }
\* observed is NULL in the table until the restore is confirmed.
RestoreRows ==
    [ id : 0 .. MaxRestores, stage : RestoreStages, resolution : RestoreResolutions,
      gen : Generations, observed : Generations, owner : Principals \cup {NULL} ]

NoRestore ==
    [ id |-> 0, stage |-> "NONE", resolution |-> "RESTORE_RESOLVED",
      gen |-> 0, observed |-> 0, owner |-> NULL ]

RowsTypeOK ==
    /\ taskState \in [Tasks -> TaskStates]
    /\ currentAttempt \in [Tasks -> 0 .. MaxAttempts]
    /\ contract \in [Tasks -> ContractStates]
    /\ attemptState \in [Attempts -> AttemptStates]
    /\ disposition \in [Attempts -> Dispositions]
    /\ quarantine \in [Attempts -> QuarantineStates]
    /\ boundGen \in [Attempts -> Generations]
    /\ stage \in [Attempts -> DispatchStages]
    /\ resolution \in [Attempts -> DispatchResolutions]
    /\ budget \in [Attempts -> BudgetBases]
    /\ sessionGen \in Generations
    /\ sessionStatus \in SessionStatuses
    /\ sessionQuarantine \in QuarantineStates
    /\ stopOp \in [Stops -> StopRows \cup {NoStop}]
    /\ restoreOp \in RestoreRows
    /\ provisionStage \in ProvisionStages
=============================================================================
