--------------------------- MODULE DispatchStore ---------------------------
(***************************************************************************)
(* The store transactions that a dispatch and its recovery are built from  *)
(* (internal/store).  Each is one SQLite transaction: the conjuncts on     *)
(* unprimed columns are its reads and compare-and-sets, the primed ones    *)
(* its updates.  A transaction that is refused or rolled back changes no   *)
(* row, so refusal is not written here: the callers decide what they do    *)
(* after an error.                                                         *)
(***************************************************************************)
EXTENDS Pair

CurrentOpen(a) ==
    /\ attemptState[a] = "OPEN"
    /\ currentAttempt[a[1]] = a[2]

\* The session row still names the generation the attempt is bound to.
SessionMatches(a) ==
    /\ sessionStatus # "NONE"
    /\ sessionGen = boundGen[a]

PairBlocked ==
    \/ restoreOp.stage # "NONE" /\ restoreOp.resolution # "RESTORE_RESOLVED"
    \/ provisionStage \in { "PROVISION_REQUESTED", "PROVISION_FAILED" }

LaneBusy(t) == \E u \in Tasks \ {t} : taskState[u] \in ActiveLane

\* A live stop owns its attempt's lifecycle.
StopOwned(a) ==
    \E s \in Stops : /\ stopOp[s] # NoStop
                     /\ stopOp[s].purpose = "RUNNING_ATTEMPT_STOP"
                     /\ stopOp[s].att = a
                     /\ stopOp[s].gen = boundGen[a]

-----------------------------------------------------------------------------
(* Tasks and contracts.                                                    *)

\* What the latest contract revision must be for a task to enter READY.
ReadyContract ==
    [ DRAFT |-> "MUTABLE", REVISION_REQUIRED |-> "MUTABLE", FAILED |-> "IMMUTABLE" ]

\* Mutant: only RUNNING claims the lane, REVIEWING does not.
TransitionTask_ReviewUnclaimed(t, to) ==
    /\ <<taskState[t], to>> # <<"READY", "DISPATCHED">>
    /\ CanTransition(taskState[t], to)
    /\ to = "READY" => contract[t] = ReadyContract[taskState[t]]
    /\ to = "RUNNING" => ~LaneBusy(t)
    /\ taskState' = [taskState EXCEPT ![t] = to]
    /\ UNCHANGED <<currentAttempt, contract, attemptVars, dispatchVars, sessionVars, pairOpVars>>

TransitionTask(t, to) ==
    /\ <<taskState[t], to>> # <<"READY", "DISPATCHED">>
    /\ CanTransition(taskState[t], to)
    /\ to = "READY" => contract[t] = ReadyContract[taskState[t]]
    /\ to \in { "RUNNING", "REVIEWING" } => ~LaneBusy(t)
    /\ taskState' = [taskState EXCEPT ![t] = to]
    /\ UNCHANGED <<currentAttempt, contract, attemptVars, dispatchVars, sessionVars, pairOpVars>>

\* A first revision, or one that supersedes the frozen latest revision.
InsertTaskContract(t) ==
    /\ \/ contract[t] = "NONE" /\ taskState[t] = "DRAFT"
       \/ contract[t] = "IMMUTABLE" /\ taskState[t] \in { "DRAFT", "REVISION_REQUIRED" }
    /\ contract' = [contract EXCEPT ![t] = "MUTABLE"]
    /\ UNCHANGED <<taskState, currentAttempt, attemptVars, dispatchVars, sessionVars, pairOpVars>>

-----------------------------------------------------------------------------
(* Allocation.                                                             *)

NextAttempt(t) == <<t, currentAttempt[t] + 1>>

\* The session is there and clean, and so is every prior attempt of the task.
GatesOpen(t) ==
    /\ sessionStatus # "NONE"
    /\ sessionQuarantine = "CLEAN"
    /\ \A n \in 1 .. MaxAttempts : quarantine[<<t, n>>] = "CLEAN"

\* The attempt row, with its execution snapshot, and its DISPATCH_BOUND operation.
BindAttempt(a) ==
    /\ attemptState' = [attemptState EXCEPT ![a] = "OPEN"]
    /\ boundGen' = [boundGen EXCEPT ![a] = sessionGen]
    /\ stage' = [stage EXCEPT ![a] = "DISPATCH_BOUND"]

\* The lane claim, the contract freeze and the binding, in one transaction.
\* currentAttempt[t] < MaxAttempts is the model's bound.
PrepareBoundDispatch(t) ==
    /\ currentAttempt[t] < MaxAttempts
    /\ taskState[t] = "READY"
    /\ ~PairBlocked
    /\ ~LaneBusy(t)
    /\ contract[t] # "NONE"
    /\ GatesOpen(t)
    /\ taskState' = [taskState EXCEPT ![t] = "DISPATCHED"]
    /\ currentAttempt' = [currentAttempt EXCEPT ![t] = @ + 1]
    /\ contract' = [contract EXCEPT ![t] = "IMMUTABLE"]
    /\ BindAttempt(NextAttempt(t))
    /\ UNCHANGED <<disposition, quarantine, resolution, budget, sessionVars, pairOpVars>>

-----------------------------------------------------------------------------
(* Before the send.                                                        *)

\* Mutant: the update matches the attempt only, neither its stage nor ended_at.
RecordPreSendHold_Blind(a, hold) ==
    /\ disposition[a] = NULL \/ hold = "PRE_SEND_PROTOCOL_UNVERIFIED"
    /\ disposition' = [disposition EXCEPT ![a] = hold]
    /\ UNCHANGED <<taskVars, attemptState, quarantine, boundGen,
                   dispatchVars, sessionVars, pairOpVars>>

\* Mutant: the last hold wins.
RecordPreSendHold_Downgrades(a, hold) ==
    /\ stage[a] = "DISPATCH_BOUND"
    /\ attemptState[a] = "OPEN"
    /\ disposition' = [disposition EXCEPT ![a] = hold]
    /\ UNCHANGED <<taskVars, attemptState, quarantine, boundGen,
                   dispatchVars, sessionVars, pairOpVars>>

\* A protocol hold outranks an availability hold and is never downgraded.
RecordPreSendHold(a, hold) ==
    /\ stage[a] = "DISPATCH_BOUND"
    /\ \/ /\ disposition[a] = hold
          /\ UNCHANGED rows
       \/ /\ disposition[a] # hold
          /\ disposition[a] = NULL \/ hold = "PRE_SEND_PROTOCOL_UNVERIFIED"
          /\ attemptState[a] = "OPEN"
          /\ disposition' = [disposition EXCEPT ![a] = hold]
          /\ UNCHANGED <<taskVars, attemptState, quarantine, boundGen,
                         dispatchVars, sessionVars, pairOpVars>>

\* Only an audit event: every row stays as it is.
RecordPreSendAdmissibilityRejected(a) ==
    /\ attemptState[a] = "OPEN"
    /\ stage[a] = "DISPATCH_BOUND"
    /\ UNCHANGED rows

ResolvePreSendHold(a, hold) ==
    /\ hold \in PreSendHolds
    /\ stage[a] = "DISPATCH_BOUND"
    /\ CurrentOpen(a)
    /\ disposition[a] = hold
    /\ SessionMatches(a)
    /\ disposition' = [disposition EXCEPT ![a] = NULL]
    /\ UNCHANGED <<taskVars, attemptState, quarantine, boundGen,
                   dispatchVars, sessionVars, pairOpVars>>

\* The durable intent, committed before the network call.
RecordSendRequested(a) ==
    /\ stage[a] = "DISPATCH_BOUND"
    /\ disposition[a] = NULL
    /\ SessionMatches(a)
    /\ sessionQuarantine = "CLEAN"
    /\ ~PairBlocked
    /\ taskState[a[1]] = "DISPATCHED"
    /\ CurrentOpen(a)
    /\ resolution[a] = NULL
    /\ stage' = [stage EXCEPT ![a] = "SEND_REQUESTED"]
    /\ UNCHANGED <<taskVars, attemptVars, resolution, budget, sessionVars, pairOpVars>>

-----------------------------------------------------------------------------
(* After the send.                                                         *)

\* Mutant: the confirmation is keyed by the stage alone.
RecordSendConfirmed_Late(a) ==
    /\ stage[a] = "SEND_REQUESTED"
    /\ stage' = [stage EXCEPT ![a] = "SEND_CONFIRMED"]
    /\ budget' = [budget EXCEPT ![a] = "SEND_CONFIRMATION_ATOMIC"]
    /\ UNCHANGED <<taskVars, attemptVars, resolution, sessionVars, pairOpVars>>

\* Mutant: the budget is left to a later transaction.
RecordSendConfirmed_NoBudget(a) ==
    /\ stage[a] = "SEND_REQUESTED"
    /\ taskState[a[1]] = "DISPATCHED"
    /\ CurrentOpen(a)
    /\ SessionMatches(a)
    /\ resolution[a] = NULL
    /\ stage' = [stage EXCEPT ![a] = "SEND_CONFIRMED"]
    /\ UNCHANGED <<taskVars, attemptVars, resolution, budget, sessionVars, pairOpVars>>

\* HTTP 200: confirmation and execution budget in one transaction.
RecordSendConfirmed(a) ==
    /\ stage[a] = "SEND_REQUESTED"
    /\ taskState[a[1]] = "DISPATCHED"
    /\ CurrentOpen(a)
    /\ SessionMatches(a)
    /\ budget[a] = "NONE"
    /\ resolution[a] = NULL
    /\ stage' = [stage EXCEPT ![a] = "SEND_CONFIRMED"]
    /\ budget' = [budget EXCEPT ![a] = "SEND_CONFIRMATION_ATOMIC"]
    /\ UNCHANGED <<taskVars, attemptVars, resolution, sessionVars, pairOpVars>>

\* D5: DISPATCHED -> FAILED -> HUMAN_REQUIRED, attempt closed, both lineages
\* quarantined, intent resolved as unknown.
RecordUnknownDelivery(a) ==
    /\ stage[a] = "SEND_REQUESTED"
    /\ taskState[a[1]] = "DISPATCHED"
    /\ CurrentOpen(a)
    /\ resolution[a] = NULL
    /\ SessionMatches(a)
    /\ taskState' = [taskState EXCEPT ![a[1]] = "HUMAN_REQUIRED"]
    /\ attemptState' = [attemptState EXCEPT ![a] = "ENDED"]
    /\ disposition' = [disposition EXCEPT ![a] = "UNCERTAIN_DELIVERY_CRASH"]
    /\ quarantine' = [quarantine EXCEPT ![a] = "QUARANTINED"]
    /\ resolution' = [resolution EXCEPT ![a] = "DELIVERY_OUTCOME_UNKNOWN"]
    /\ sessionQuarantine' = "QUARANTINED"
    /\ UNCHANGED <<currentAttempt, contract, boundGen, stage, budget,
                   sessionGen, sessionStatus, pairOpVars>>

\* D12 from DISPATCHED or RUNNING.  No column of dispatch_operations is read.
AtomicTerminalTransition(a, from, outcome) ==
    /\ CurrentOpen(a)
    /\ taskState[a[1]] = from
    /\ outcome \in DoubleQuarantine => SessionMatches(a)
    /\ taskState' = [taskState EXCEPT ![a[1]] = "FAILED"]
    /\ attemptState' = [attemptState EXCEPT ![a] = "ENDED"]
    /\ disposition' = [disposition EXCEPT ![a] = outcome]
    /\ quarantine' = [quarantine EXCEPT ![a] =
                        IF outcome \in DoubleQuarantine THEN "QUARANTINED" ELSE @]
    /\ sessionQuarantine' =
         IF outcome \in DoubleQuarantine THEN "QUARANTINED" ELSE sessionQuarantine
    /\ UNCHANGED <<currentAttempt, contract, boundGen, dispatchVars,
                   sessionGen, sessionStatus, pairOpVars>>

\* Mutant: the task state is written where the disposition belongs.
AtomicAttemptClosureTransition_Swapped(a) ==
    /\ CurrentOpen(a)
    /\ taskState[a[1]] = "BLOCKED"
    /\ taskState' = [taskState EXCEPT ![a[1]] = "HUMAN_REQUIRED"]
    /\ attemptState' = [attemptState EXCEPT ![a] = "ENDED"]
    /\ disposition' = [disposition EXCEPT ![a] = "HUMAN_REQUIRED"]
    /\ UNCHANGED <<currentAttempt, contract, quarantine, boundGen,
                   dispatchVars, sessionVars, pairOpVars>>

AtomicAttemptClosureTransition(a) ==
    /\ CurrentOpen(a)
    /\ taskState[a[1]] = "BLOCKED"
    /\ taskState' = [taskState EXCEPT ![a[1]] = "HUMAN_REQUIRED"]
    /\ attemptState' = [attemptState EXCEPT ![a] = "ENDED"]
    /\ disposition' = [disposition EXCEPT ![a] = "AO_BLOCKED_ESCALATED"]
    /\ UNCHANGED <<currentAttempt, contract, quarantine, boundGen,
                   dispatchVars, sessionVars, pairOpVars>>
=============================================================================
