---------------------------- MODULE Provisioning ----------------------------
(***************************************************************************)
(* How a Pair gets its worker session: Coordinator.Provision with          *)
(* provisioning_transactions.go, composed with dispatch, sweep and poller. *)
(* An intent locks the Pair, one POST creates the session at AO, and the   *)
(* confirmation writes the session row that every other saga needs.  A     *)
(* create whose answer is lost leaves the Pair locked: nothing in the code *)
(* resolves a failed provisioning.                                         *)
(***************************************************************************)
EXTENDS Recovery

CONSTANT MaxCreates      \* bound on the create-session calls counted

\* Two or more, so that the bound never hides a second one.
ASSUME MaxCreatesAssumption == MaxCreates \in Nat /\ MaxCreates >= 2

VARIABLES
    ppc,             \* where the Provision call that holds the intent is
    creates,         \* create-session calls issued for the Pair
    created,         \* of those, the sessions AO has created
    sweepProvision   \* has the sweep still to classify the intent?

provisionVars == <<ppc, creates, created, sweepProvision>>
provisionAllVars == <<allVars, provisionVars>>

PPCs == { "none", "create", "await" }

\* The types of provisioning on top of the recovery ones.
ProvisionTypeOK ==
    /\ RecoveryTypeOK
    /\ ppc \in PPCs
    /\ creates \in 0 .. MaxCreates
    /\ created \in 0 .. MaxCreates
    /\ sweepProvision \in BOOLEAN

\* A new Pair: tasks but no session, the sweep has not run.
ProvisionInit ==
    /\ taskState = [t \in Tasks |-> "READY"]
    /\ currentAttempt = [t \in Tasks |-> 0]
    /\ contract = [t \in Tasks |-> "MUTABLE"]
    /\ attemptState = [a \in Attempts |-> "NONE"]
    /\ disposition = [a \in Attempts |-> NULL]
    /\ quarantine = [a \in Attempts |-> "CLEAN"]
    /\ boundGen = [a \in Attempts |-> 0]
    /\ stage = [a \in Attempts |-> "NONE"]
    /\ resolution = [a \in Attempts |-> NULL]
    /\ budget = [a \in Attempts |-> "NONE"]
    /\ sessionGen = 0
    /\ sessionStatus = "NONE"
    /\ sessionQuarantine = "CLEAN"
    /\ stopOp = [s \in Stops |-> NoStop]
    /\ restoreOp = NoRestore
    /\ provisionStage = "NONE"
    /\ pc = [c \in Callers |-> "idle"]
    /\ att = [c \in Callers |-> NoAttempt]
    /\ obs = [c \in Callers |-> NULL]
    /\ sends = [a \in Attempts |-> 0]
    /\ delivered = [a \in Attempts |-> 0]
    /\ acked = {}
    /\ phase = "closed"
    /\ work = {}
    /\ escalate = {}
    /\ owned = {}
    /\ poll = {}
    /\ ppc = "none"
    /\ creates = 0
    /\ created = 0
    /\ sweepProvision = FALSE

-----------------------------------------------------------------------------
(* The store transactions.                                                 *)

\* No task of the Pair is, or claims to be, at work.
NothingAtWork ==
    /\ \A a \in Attempts : attemptState[a] # "OPEN" /\ quarantine[a] = "CLEAN"
    /\ \A t \in Tasks :
         /\ currentAttempt[t] > 0 => attemptState[<<t, currentAttempt[t]>>] # "NONE"
         /\ taskState[t] \in { "DISPATCHED", "RUNNING", "BLOCKED", "REVIEWING" } =>
              currentAttempt[t] > 0

UnresolvedStop ==
    \E s \in Stops :
        /\ stopOp[s] # NoStop
        /\ stopOp[s].resolution \in { "IN_FLIGHT", "STOP_CALL_OUTCOME_UNKNOWN",
                                      "STOP_CONFIRMATION_TIMEOUT", "STOP_REISSUE_REQUIRES_HUMAN" }

\* Mutant: a failed provisioning does not count as unresolved.
ReservePairProvisioning_AfterFailure ==
    /\ sessionStatus = "NONE"
    /\ provisionStage # "PROVISION_REQUESTED"
    /\ provisionStage' = "PROVISION_REQUESTED"
    /\ UNCHANGED <<taskVars, attemptVars, dispatchVars, sessionVars, stopOp, restoreOp>>

ReservePairProvisioning ==
    /\ sessionStatus = "NONE"
    /\ ~PairBlocked
    /\ ~UnresolvedStop
    /\ NothingAtWork
    /\ provisionStage' = "PROVISION_REQUESTED"
    /\ UNCHANGED <<taskVars, attemptVars, dispatchVars, sessionVars, stopOp, restoreOp>>

\* Mutant: the confirmation does not ask what became of its intent.
ConfirmPairProvisioning_Late ==
    /\ provisionStage \in { "PROVISION_REQUESTED", "PROVISION_FAILED" }
    /\ provisionStage' = "PROVISION_CONFIRMED"
    /\ sessionStatus' = "IDLE"
    /\ sessionQuarantine' = "CLEAN"
    /\ UNCHANGED <<taskVars, attemptVars, dispatchVars, sessionGen, stopOp, restoreOp>>

\* The confirmed intent and the clean session row, in one transaction.
ConfirmPairProvisioning ==
    /\ provisionStage = "PROVISION_REQUESTED"
    /\ sessionStatus = "NONE"
    /\ provisionStage' = "PROVISION_CONFIRMED"
    /\ sessionStatus' = "IDLE"
    /\ sessionQuarantine' = "CLEAN"
    /\ UNCHANGED <<taskVars, attemptVars, dispatchVars, sessionGen, stopOp, restoreOp>>

FailPairProvisioning ==
    /\ provisionStage = "PROVISION_REQUESTED"
    /\ provisionStage' = "PROVISION_FAILED"
    /\ UNCHANGED <<taskVars, attemptVars, dispatchVars, sessionVars, stopOp, restoreOp>>

FailProvisioningAtStartup ==
    \/ provisionStage = "PROVISION_FAILED" /\ UNCHANGED rows
    \/ FailPairProvisioning

-----------------------------------------------------------------------------
(* Coordinator.Provision.                                                  *)

\* A commit reported as an error ends the call.
Provision ==
    /\ ppc = "none"
    /\ ReservePairProvisioning
    /\ ppc' = "create" \/ UNCHANGED ppc
    /\ UNCHANGED <<callVars, wireVars, acked, recoveryVars, creates, created, sweepProvision>>

\* The one POST of the call; it may fail before it leaves.
CreateWorkerSession ==
    /\ ppc = "create"
    /\ \/ creates < MaxCreates /\ creates' = creates + 1
       \/ UNCHANGED creates
    /\ ppc' = "await"
    /\ UNCHANGED <<allVars, created, sweepProvision>>

\* AO creates the session, however late.
AOCreate ==
    /\ created < creates
    /\ created' = created + 1
    /\ UNCHANGED <<allVars, ppc, creates, sweepProvision>>

\* Mutant: the answer is not looked at.
ProvisionConfirmed_AnyAnswer ==
    /\ ppc = "await"
    /\ ConfirmPairProvisioning
    /\ ppc' = "none"
    /\ UNCHANGED <<callVars, wireVars, acked, recoveryVars, creates, created, sweepProvision>>

\* HTTP 201 with a live session and its generation.
ProvisionConfirmed ==
    /\ ppc = "await"
    /\ created > 0
    /\ ConfirmPairProvisioning
    /\ ppc' = "none"
    /\ UNCHANGED <<callVars, wireVars, acked, recoveryVars, creates, created, sweepProvision>>

\* An error or an unusable answer fails the intent, if that write succeeds; a
\* confirmation that was refused leaves it as it is.
ProvisionReturns ==
    /\ ppc = "await"
    /\ FailPairProvisioning \/ UNCHANGED rows
    /\ ppc' = "none"
    /\ UNCHANGED <<callVars, wireVars, acked, recoveryVars, creates, created, sweepProvision>>

-----------------------------------------------------------------------------
(* Runner.Run with its provisionings, which come before the executions.    *)

ProvisionRunStart ==
    /\ RunStart
    /\ sweepProvision' = (provisionStage = "PROVISION_REQUESTED")
    /\ UNCHANGED <<ppc, creates, created>>

\* The intent is failed, or it has been decided since the snapshot.
RunProvision ==
    /\ phase = "intents"
    /\ sweepProvision
    /\ \/ FailProvisioningAtStartup
       \/ provisionStage # "PROVISION_REQUESTED" /\ UNCHANGED rows
    /\ sweepProvision' = FALSE
    /\ UNCHANGED <<callVars, wireVars, acked, recoveryVars, ppc, creates, created>>

ProvisionRunFails ==
    /\ RunFails
    /\ sweepProvision' = FALSE
    /\ UNCHANGED <<ppc, creates, created>>

ProvisionSweepStep ==
    \/ ProvisionRunStart
    \/ RunProvision
    \/ /\ ~sweepProvision
       /\ \/ \E x \in work : RunClassify(x)
          \/ \E a \in escalate : RunEscalate(a)
          \/ RunReread
          \/ RunComplete
       /\ UNCHANGED provisionVars
    \/ ProvisionRunFails

ProvisionCrash ==
    /\ ProcessCrash
    /\ ppc' = "none"
    /\ sweepProvision' = FALSE
    /\ UNCHANGED <<creates, created>>

ProvisionCallStep ==
    \/ Provision
    \/ CreateWorkerSession
    \/ ProvisionConfirmed
    \/ ProvisionReturns

ProvisionNext ==
    \/ (SagaStep \/ PollStep) /\ UNCHANGED provisionVars
    \/ ProvisionCallStep
    \/ AOCreate
    \/ ProvisionSweepStep
    \/ ProvisionCrash

ProvisionSpec == ProvisionInit /\ [][ProvisionNext]_provisionAllVars

-----------------------------------------------------------------------------
(* Properties.                                                             *)

\* A Pair asks AO for a session at most once in its life, and only on an intent
\* that is on record: no restart, sweep, failure or second call spawns a
\* replacement (coordinator.go: "never spawn replacement").
CreateDiscipline ==
    /\ creates <= 1
    /\ creates > 0 => provisionStage # "NONE"

\* The session row is the one that AO created for a confirmed intent, and
\* nothing is ever dispatched on a Pair without it.
SessionIsProvisioned ==
    /\ sessionStatus # "NONE" <=> provisionStage = "PROVISION_CONFIRMED"
    /\ sessionStatus # "NONE" => created = 1
    /\ sessionStatus = "NONE" => \A a \in Attempts : attemptState[a] = "NONE"

\* The verdict on a provisioning is final: a late HTTP 201 does not revive an
\* intent the sweep has failed, nor the sweep undo a confirmation that beat it.
ProvisionDecidedOnce ==
    [][ provisionStage' # provisionStage =>
          provisionStage \notin { "PROVISION_CONFIRMED", "PROVISION_FAILED" } ]_provisionAllVars
=============================================================================
