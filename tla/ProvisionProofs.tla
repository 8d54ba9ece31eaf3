-------------------------- MODULE ProvisionProofs --------------------------
(***************************************************************************)
(* Theorems about Provisioning.  A step is one of dispatch and recovery    *)
(* that lets the provisioning call wait or die, or one of the provisioning *)
(* that writes its intent and the session row and nothing else.            *)
(***************************************************************************)
EXTENDS Provisioning, RecoveryProofs

USE DEF NULL, NoAttempt
USE DEF taskVars, attemptVars, dispatchVars, sessionVars, pairOpVars, rows
USE DEF callVars, wireVars, vars, recoveryVars, allVars
USE DEF provisionVars, provisionAllVars

\* A step of the sagas and their observers; at most a crash ends the call.
DispatchKind ==
    /\ [RecoveryNext]_allVars
    /\ ppc' \in { ppc, "none" }
    /\ sweepProvision' \in BOOLEAN
    /\ UNCHANGED <<creates, created>>

\* A step of Provision, of AO or of the sweep on the provisioning intent.
ProvisionKind ==
    \/ Provision
    \/ CreateWorkerSession
    \/ ProvisionConfirmed
    \/ ProvisionReturns
    \/ AOCreate
    \/ RunProvision

\* Every step is of one kind or the other.
LEMMA ProvisionKinds ==
    ASSUME ProvisionTypeOK, [ProvisionNext]_provisionAllVars
    PROVE  DispatchKind \/ ProvisionKind
<1> USE DEF ProvisionTypeOK, DispatchKind
<1>1. CASE (SagaStep \/ PollStep) /\ UNCHANGED provisionVars
  BY <1>1 DEF RecoveryNext
<1>2. CASE ProvisionCallStep \/ AOCreate
  BY <1>2 DEF ProvisionCallStep, ProvisionKind
<1>3. CASE ProvisionRunStart \/ ProvisionRunFails
  BY <1>3 DEF ProvisionRunStart, ProvisionRunFails, RecoveryNext, SweepStep
<1>4. CASE RunProvision
  BY <1>4 DEF ProvisionKind
<1>5. CASE /\ \/ \E x \in work : RunClassify(x)
              \/ \E a \in escalate : RunEscalate(a)
              \/ RunReread
              \/ RunComplete
           /\ UNCHANGED provisionVars
  BY <1>5 DEF RecoveryNext, SweepStep
<1>6. CASE ProvisionCrash
  BY <1>6 DEF ProvisionCrash, RecoveryNext
<1>7. CASE UNCHANGED provisionAllVars
  BY <1>7
<1> QED BY <1>1, <1>2, <1>3, <1>4, <1>5, <1>6, <1>7 DEF ProvisionNext, ProvisionSweepStep

-----------------------------------------------------------------------------
(* The inductive invariant.                                                *)

\* The one POST belongs to an intent on record; the call that may still issue
\* it is the one that wrote the intent, and it has issued none yet.
CreateFollowsIntent ==
    /\ ppc = "create" => creates = 0
    /\ ppc # "none" \/ creates > 0 => provisionStage # "NONE"
    /\ created <= creates
    /\ creates <= 1
    /\ provisionStage # "PROVISION_RESOLVED"

ProvisionInv ==
    /\ SagaInv
    /\ ProvisionTypeOK
    /\ CreateFollowsIntent
    /\ SessionIsProvisioned

\* A new Pair satisfies it.
LEMMA ProvisionInitInv == ProvisionInit => ProvisionInv
<1> SUFFICES ASSUME ProvisionInit PROVE ProvisionInv
  OBVIOUS
<1> USE DEF ProvisionInit
<1>1. RowsTypeOK
  BY MaxAttemptsAssumption, MaxGenAssumption, MaxRestoresAssumption
     DEF RowsTypeOK, TaskStates, ContractStates, AttemptStates, Dispositions, QuarantineStates,
         Generations, DispatchStages, DispatchResolutions, BudgetBases, SessionStatuses,
         RestoreRows, NoRestore, RestoreStages, RestoreResolutions, ProvisionStages
<1>2. RecoveryTypeOK
  BY <1>1, MaxSendsAssumption DEF RecoveryTypeOK, TypeOK, PCs, Phases
<1>3. RowInv
  BY DEF RowInv, AttemptsExist, CurrentIsOpen, UnknownIsClosed, HeldNeverSent, OneActiveLane,
     Attempts, Executing, ActiveLane, PreSendHolds
<1>4. WireFollowsIntent /\ CallersHoldIntent /\ ConfirmedIsReal
  BY DEF WireFollowsIntent, CallersHoldIntent, ConfirmedIsReal
<1>5. ProvisionTypeOK
  <2>1. ppc \in PPCs /\ creates \in 0 .. MaxCreates /\ created \in 0 .. MaxCreates
    BY MaxCreatesAssumption DEF PPCs
  <2>2. sweepProvision \in BOOLEAN
    OBVIOUS
  <2> QED BY <1>2, <2>1, <2>2, Zenon DEF ProvisionTypeOK
<1>6. CreateFollowsIntent /\ SessionIsProvisioned
  BY DEF CreateFollowsIntent, SessionIsProvisioned
<1> QED BY <1>2, <1>3, <1>4, <1>5, <1>6 DEF SagaInv, ProvisionInv

\* Dispatch and recovery neither make nor remove the session row, never write
\* the intent, and open no attempt without a session.
LEMMA DispatchKeepsSession ==
    ASSUME ProvisionInv, [RecoveryNext]_allVars
    PROVE  /\ provisionStage' = provisionStage
           /\ sessionStatus' = "NONE" <=> sessionStatus = "NONE"
           /\ sessionStatus = "NONE" => attemptState' = attemptState
<1> USE DEF ProvisionInv, SagaInv, RecoveryTypeOK, TypeOK
<1>n. sessionStatus = "NONE" => \A a \in Attempts : attemptState[a] # "OPEN"
  BY DEF SessionIsProvisioned
<1>1. CASE QuietStep
  <2>1. CASE \/ UNCHANGED rows
             \/ \E t \in Tasks, to \in TaskStates : TransitionTask(t, to)
             \/ \E t \in Tasks : InsertTaskContract(t)
    BY <2>1 DEF TransitionTask, InsertTaskContract
  <2>2. ASSUME NEW a \in Attempts,
               \/ RecordUnknownDelivery(a)
               \/ AtomicAttemptClosureTransition(a)
               \/ \E from \in TaskStates, outcome \in Outcomes : Closes(a, from, outcome)
               \/ \E d \in Dispositions, state \in TaskStates : Annotates(a, d, state)
        PROVE  /\ provisionStage' = provisionStage
               /\ sessionStatus' \in { sessionStatus, "TERMINATED" }
               /\ attemptState[a] = "OPEN"
    BY <2>2 DEF RecordUnknownDelivery, AtomicAttemptClosureTransition, Closes, Annotates,
       CurrentOpen
  <2> QED BY <1>1, <1>n, <2>1, <2>2 DEF QuietStep, QuietTx
<1>2. CASE LoudStep
  <2>1. UNCHANGED <<provisionStage, sessionStatus>>
    BY <1>2 DEF LoudStep, DispatchReady, PrepareBoundDispatch, RequestSend, RecordSendRequested,
       DispatchTaskContract, ConfirmSend, RecordSendConfirmed, ContainReread, AODeliver
  <2>2. sessionStatus = "NONE" => attemptState' = attemptState
    BY <1>2 DEF LoudStep, DispatchReady, PrepareBoundDispatch, GatesOpen, RequestSend,
       RecordSendRequested, DispatchTaskContract, ConfirmSend, RecordSendConfirmed,
       ContainReread, AODeliver
  <2> QED BY <2>1, <2>2
<1> QED BY <1>1, <1>2, QuietOrLoud

\* A provisioning step writes the intent and the session row and nothing else
\* of the Pair, and moves nobody else.
LEMMA ProvisionFrame ==
    ASSUME ProvisionKind
    PROVE  /\ UNCHANGED <<taskVars, attemptVars, dispatchVars, sessionGen, stopOp, restoreOp>>
           /\ UNCHANGED <<callVars, wireVars, acked, recoveryVars>>
BY DEF ProvisionKind, Provision, CreateWorkerSession, ProvisionConfirmed, ProvisionReturns,
   AOCreate, RunProvision, ReservePairProvisioning, ConfirmPairProvisioning,
   FailPairProvisioning, FailProvisioningAtStartup

\* What a provisioning step does to the intent, the session and the call.
LEMMA ProvisionMoves ==
    ASSUME ProvisionInv, ProvisionKind
    PROVE  /\ ProvisionTypeOK' /\ CreateFollowsIntent' /\ SessionIsProvisioned'
           /\ provisionStage' # provisionStage =>
                 provisionStage \notin { "PROVISION_CONFIRMED", "PROVISION_FAILED" }
<1> USE DEF ProvisionInv, ProvisionTypeOK, PPCs
<1>f. /\ UNCHANGED <<taskVars, attemptVars, dispatchVars, sessionGen, stopOp, restoreOp>>
      /\ UNCHANGED <<callVars, wireVars, acked, recoveryVars>>
  BY ProvisionFrame
<1>n. creates \in Nat /\ created \in Nat
  BY MaxCreatesAssumption
<1>t. /\ sessionStatus' \in SessionStatuses
      /\ sessionQuarantine' \in QuarantineStates
      /\ provisionStage' \in ProvisionStages
      => RecoveryTypeOK'
  BY <1>f DEF RecoveryTypeOK, TypeOK, RowsTypeOK
<1>r. /\ sessionStatus \in SessionStatuses
      /\ sessionQuarantine \in QuarantineStates
      /\ provisionStage \in ProvisionStages
  BY DEF RecoveryTypeOK, TypeOK, RowsTypeOK
<1>1. CASE Provision
  <2>1. provisionStage = "NONE"
    BY <1>1, <1>r DEF Provision, ReservePairProvisioning, PairBlocked, SessionIsProvisioned,
       CreateFollowsIntent, ProvisionStages
  <2>2. creates = 0 /\ created = 0
    BY <1>n, <2>1 DEF CreateFollowsIntent
  <2>3. /\ provisionStage' = "PROVISION_REQUESTED"
        /\ UNCHANGED <<sessionVars, creates, created, sweepProvision>>
        /\ ppc' \in { "create", ppc }
    BY <1>1 DEF Provision, ReservePairProvisioning
  <2>4. ProvisionTypeOK'
    BY <1>t, <1>r, <2>3 DEF ProvisionStages
  <2>5. CreateFollowsIntent' /\ SessionIsProvisioned'
    BY <1>f, <2>1, <2>2, <2>3 DEF CreateFollowsIntent, SessionIsProvisioned
  <2> QED BY <2>1, <2>4, <2>5
<1>2. CASE CreateWorkerSession
  <2>1. /\ creates = 0
        /\ provisionStage # "NONE"
        /\ creates' \in { 0, 1 }
        /\ ppc' = "await"
        /\ UNCHANGED <<allVars, created, sweepProvision>>
    BY <1>2 DEF CreateWorkerSession, CreateFollowsIntent
  <2>2. ProvisionTypeOK'
    BY <1>t, <1>r, <2>1, MaxCreatesAssumption
  <2>3. CreateFollowsIntent'
    BY <1>n, <2>1 DEF CreateFollowsIntent
  <2>4. SessionIsProvisioned'
    BY <2>1 DEF SessionIsProvisioned
  <2> QED BY <2>1, <2>2, <2>3, <2>4
<1>3. CASE ProvisionConfirmed
  <2>1. /\ provisionStage = "PROVISION_REQUESTED"
        /\ provisionStage' = "PROVISION_CONFIRMED"
        /\ sessionStatus' = "IDLE"
        /\ sessionQuarantine' = "CLEAN"
        /\ created > 0
        /\ ppc' = "none"
        /\ UNCHANGED <<creates, created, sweepProvision>>
    BY <1>3 DEF ProvisionConfirmed, ConfirmPairProvisioning
  <2>2. created = 1
    BY <1>n, <2>1 DEF CreateFollowsIntent
  <2>3. ProvisionTypeOK'
    BY <1>t, <2>1 DEF ProvisionStages, SessionStatuses, QuarantineStates
  <2>4. CreateFollowsIntent' /\ SessionIsProvisioned'
    BY <2>1, <2>2 DEF CreateFollowsIntent, SessionIsProvisioned
  <2> QED BY <2>1, <2>3, <2>4
<1>4. ASSUME UNCHANGED sessionVars, UNCHANGED <<creates, created>>,
             ppc' \in { ppc, "none" }, sweepProvision' \in BOOLEAN,
             \/ UNCHANGED provisionStage
             \/ /\ provisionStage = "PROVISION_REQUESTED"
                /\ provisionStage' = "PROVISION_FAILED"
      PROVE  /\ ProvisionTypeOK' /\ CreateFollowsIntent' /\ SessionIsProvisioned'
             /\ provisionStage' # provisionStage =>
                   provisionStage \notin { "PROVISION_CONFIRMED", "PROVISION_FAILED" }
  <2>1. ProvisionTypeOK'
    BY <1>4, <1>t, <1>r DEF ProvisionStages
  <2>2. CreateFollowsIntent'
    BY <1>4 DEF CreateFollowsIntent
  <2>3. SessionIsProvisioned'
    BY <1>4, <1>f DEF SessionIsProvisioned
  <2> QED BY <1>4, <2>1, <2>2, <2>3
<1>5. CASE ProvisionReturns
  BY <1>4, <1>5 DEF ProvisionReturns, FailPairProvisioning
<1>6. CASE RunProvision
  BY <1>4, <1>6 DEF RunProvision, FailProvisioningAtStartup, FailPairProvisioning
<1>7. CASE AOCreate
  <2>1. /\ created = 0
        /\ creates = 1
        /\ created' = 1
        /\ UNCHANGED <<allVars, ppc, creates, sweepProvision>>
    BY <1>7, <1>n DEF AOCreate, CreateFollowsIntent
  <2>2. ProvisionTypeOK'
    BY <1>t, <1>r, <2>1, MaxCreatesAssumption
  <2>3. CreateFollowsIntent' /\ SessionIsProvisioned'
    BY <2>1 DEF CreateFollowsIntent, SessionIsProvisioned
  <2> QED BY <2>1, <2>2, <2>3
<1> QED BY <1>1, <1>2, <1>3, <1>5, <1>6, <1>7 DEF ProvisionKind

\* Every step keeps the invariant.
LEMMA ProvisionStep ==
    ASSUME ProvisionInv, [ProvisionNext]_provisionAllVars
    PROVE  ProvisionInv'
<1>1. CASE DispatchKind
  <2>1. SagaInv'
    BY <1>1, StepInv DEF DispatchKind, ProvisionInv
  <2>2. /\ provisionStage' = provisionStage
        /\ sessionStatus' = "NONE" <=> sessionStatus = "NONE"
        /\ sessionStatus = "NONE" => attemptState' = attemptState
    BY <1>1, DispatchKeepsSession DEF DispatchKind
  <2>3. ProvisionTypeOK'
    BY <1>1, <2>1 DEF DispatchKind, ProvisionInv, ProvisionTypeOK, SagaInv, PPCs
  <2>4. CreateFollowsIntent'
    BY <1>1, <2>2 DEF DispatchKind, ProvisionInv, CreateFollowsIntent
  <2>5. SessionIsProvisioned'
    BY <1>1, <2>2 DEF DispatchKind, ProvisionInv, SessionIsProvisioned
  <2> QED BY <2>1, <2>3, <2>4, <2>5 DEF ProvisionInv
<1>2. CASE ProvisionKind
  <2>1. ProvisionTypeOK' /\ CreateFollowsIntent' /\ SessionIsProvisioned'
    BY <1>2, ProvisionMoves
  <2>2. RowInv'
    BY <1>2, ProvisionFrame DEF ProvisionInv, SagaInv, RowInv, AttemptsExist, CurrentIsOpen,
       UnknownIsClosed, HeldNeverSent, OneActiveLane
  <2>3. WireFollowsIntent' /\ CallersHoldIntent' /\ ConfirmedIsReal'
    BY <1>2, ProvisionFrame DEF ProvisionInv, SagaInv, WireFollowsIntent, CallersHoldIntent,
       ConfirmedIsReal
  <2> QED BY <2>1, <2>2, <2>3 DEF ProvisionInv, SagaInv, ProvisionTypeOK
<1> QED BY <1>1, <1>2, ProvisionKinds DEF ProvisionInv

-----------------------------------------------------------------------------
(* Theorems.                                                               *)

\* The inductive invariant holds from the new Pair on.
THEOREM ProvisionInvariant == ProvisionSpec => []ProvisionInv
<1>1. ProvisionInit => ProvisionInv
  BY ProvisionInitInv
<1>2. ProvisionInv /\ [ProvisionNext]_provisionAllVars => ProvisionInv'
  BY ProvisionStep
<1> QED BY <1>1, <1>2, PTL DEF ProvisionSpec

\* Coordinator.Provision, retried, crashed, swept or failed, asks AO for one
\* session at most, and only on an intent that is on record.
THEOREM CreatesOnce == ProvisionSpec => []CreateDiscipline
<1>1. ProvisionInv => CreateDiscipline
  BY DEF ProvisionInv, CreateFollowsIntent, CreateDiscipline
<1> QED BY <1>1, ProvisionInvariant, PTL

\* A session row stands for a confirmed intent and a session AO created, and
\* PrepareBoundDispatch opens no attempt without it.
THEOREM SessionsAreProvisioned == ProvisionSpec => []SessionIsProvisioned
<1>1. ProvisionInv => SessionIsProvisioned
  BY DEF ProvisionInv
<1> QED BY <1>1, ProvisionInvariant, PTL

\* ConfirmPairProvisioning and FailPairProvisioning decide an intent once.
THEOREM ProvisionVerdictIsFinal == ProvisionSpec => ProvisionDecidedOnce
<1>1. ProvisionInv /\ [ProvisionNext]_provisionAllVars =>
        [ provisionStage' # provisionStage =>
            provisionStage \notin { "PROVISION_CONFIRMED", "PROVISION_FAILED" } ]_provisionAllVars
  <2> SUFFICES ASSUME ProvisionInv, [ProvisionNext]_provisionAllVars,
                      provisionStage' # provisionStage
               PROVE  provisionStage \notin { "PROVISION_CONFIRMED", "PROVISION_FAILED" }
    OBVIOUS
  <2>1. CASE DispatchKind
    BY <2>1, DispatchKeepsSession DEF DispatchKind
  <2>2. CASE ProvisionKind
    BY <2>2, ProvisionMoves
  <2> QED BY <2>1, <2>2, ProvisionKinds DEF ProvisionInv
<1> QED BY <1>1, ProvisionInvariant, PTL DEF ProvisionSpec, ProvisionDecidedOnce

\* What dispatch promises holds on a Pair that is provisioned meanwhile: one
\* message per attempt, real confirmations, one task in the lane, no held send.
THEOREM ProvisionKeepsDispatch ==
    ProvisionSpec => [](SendDiscipline /\ ConfirmedIsReal /\ OneActiveLane /\ HeldNeverSent)
<1>1. ProvisionInv => SendDiscipline /\ ConfirmedIsReal /\ OneActiveLane /\ HeldNeverSent
  BY DEF ProvisionInv, SagaInv, RowInv, WireFollowsIntent, SendDiscipline
<1> QED BY <1>1, ProvisionInvariant, PTL
=============================================================================
