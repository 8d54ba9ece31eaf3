------------------------------ MODULE Recovery ------------------------------
(***************************************************************************)
(* The dispatch saga together with what observes and repairs it            *)
(* (internal/recovery): the startup sweep Runner.Run, the activity Poller  *)
(* and the store transactions they use after a send.  Both observers read  *)
(* one coherent snapshot, then classify its executions one by one from it, *)
(* each with a fresh GET; by then the rows may have moved on.              *)
(***************************************************************************)
EXTENDS Dispatch

VARIABLES
    phase,     \* where Runner.Run is; "ready" opens the poller's gate
    work,      \* executions the sweep has still to classify
    escalate,  \* BLOCKED attempts the sweep has still to close
    owned,     \* attempts a stop owned in the sweep's first snapshot
    poll       \* executions the current poll tick has still to classify

recoveryVars == <<phase, work, escalate, owned, poll>>
allVars == <<vars, recoveryVars>>

Phases == { "closed", "intents", "confirmed", "ready" }

\* RecoveryExecution: an immutable observation target.
Execution(a) ==
    [ att |-> a, state |-> taskState[a[1]], stage |-> stage[a], disp |-> disposition[a] ]

ExecutionRows ==
    [ att : Attempts, state : { "DISPATCHED", "RUNNING" },
      stage : DispatchStages \ {"NONE"}, disp : Dispositions ]

\* The types of the rows, the callers, the wire and the observers.
RecoveryTypeOK ==
    /\ TypeOK
    /\ phase \in Phases
    /\ work \subseteq ExecutionRows
    /\ escalate \subseteq Attempts
    /\ owned \subseteq Attempts
    /\ poll \subseteq ExecutionRows

RecoveryInit ==
    /\ Init
    /\ phase = "closed"
    /\ work = {}
    /\ escalate = {}
    /\ owned = {}
    /\ poll = {}

-----------------------------------------------------------------------------
(* ListRecoverySnapshot.                                                   *)

\* The rows that make the snapshot fail with ErrInconsistentPersistedState.
Inconsistent ==
    \E t \in Tasks :
        /\ taskState[t] \in { "DISPATCHED", "RUNNING", "BLOCKED" }
        /\ \/ currentAttempt[t] = 0
           \/ LET a == <<t, currentAttempt[t]>> IN
                \/ attemptState[a] # "OPEN"
                \/ stage[a] = "NONE"
                \/ taskState[t] \in { "RUNNING", "BLOCKED" } /\ stage[a] # "SEND_CONFIRMED"

\* Mutant: the attempts of the task are joined without current_attempt.
Recoverable_AnyAttempt(a) ==
    /\ attemptState[a] = "OPEN"
    /\ taskState[a[1]] \in { "DISPATCHED", "RUNNING" }
    /\ stage[a] # "NONE"

Recoverable(a) ==
    /\ CurrentOpen(a)
    /\ \/ /\ taskState[a[1]] = "DISPATCHED"
          /\ \/ stage[a] \in { "DISPATCH_BOUND", "SEND_CONFIRMED" }
             \/ stage[a] = "SEND_REQUESTED" /\ resolution[a] = NULL
       \/ taskState[a[1]] = "RUNNING" /\ stage[a] = "SEND_CONFIRMED"

\* StopOwnedAttemptIDs: open attempts that any live stop names.
OwnedAttempts ==
    { a \in Attempts :
        /\ attemptState[a] = "OPEN"
        /\ \E s \in Stops : /\ stopOp[s] # NoStop
                            /\ stopOp[s].purpose = "RUNNING_ATTEMPT_STOP"
                            /\ stopOp[s].att = a }

\* Every observer skips the executions that a stop owns.
ExecutionsAt(stages, skipped) ==
    { Execution(a) :
        a \in { b \in Attempts \ skipped : Recoverable(b) /\ stage[b] \in stages } }

BlockedAttempts ==
    { a \in Attempts : CurrentOpen(a) /\ taskState[a[1]] = "BLOCKED" }

LegacyWithoutBudget ==
    \E a \in Attempts :
        /\ CurrentOpen(a)
        /\ stage[a] = "SEND_CONFIRMED"
        /\ taskState[a[1]] \in { "DISPATCHED", "RUNNING" }
        /\ budget[a] = "NONE"

-----------------------------------------------------------------------------
(* Post-send transactions: the current row must still equal the snapshot.  *)

\* Mutant: the snapshot is trusted.
SameExecution_Trusted(x) ==
    /\ x.stage = "SEND_CONFIRMED"
    /\ sessionStatus # "NONE"

SameExecution(x) ==
    /\ CurrentOpen(x.att)
    /\ Execution(x.att) = x
    /\ x.state \in { "DISPATCHED", "RUNNING" }
    /\ x.stage = "SEND_CONFIRMED"
    /\ ~StopOwned(x.att)
    /\ sessionStatus # "NONE"

\* An outage never downgrades an existing disposition.
RecordPostSendOutage(x) ==
    /\ SameExecution(x)
    /\ SessionMatches(x.att)
    /\ \/ disposition[x.att] = "RECOVERY_PENDING" /\ UNCHANGED rows
       \/ /\ disposition[x.att] = NULL
          /\ disposition' = [disposition EXCEPT ![x.att] = "RECOVERY_PENDING"]
          /\ UNCHANGED <<taskVars, attemptState, quarantine, boundGen,
                         dispatchVars, sessionVars, pairOpVars>>

\* The D12 outcome of an observation, or NULL when the execution goes on.
\* Absent and stale-generation outcomes close both quarantine gates.
PostSendOutcome(x, o, handoff) ==
    CASE o = "notFound"   -> "SESSION_ABSENT"
      [] o = "staleGen"   -> "STALE_EXECUTION_GENERATION"
      [] o = "terminated" -> "WORKER_TERMINATION_UNKNOWN"
      [] o = "idle" /\ x.state = "DISPATCHED" /\ ~handoff -> "MISSED_ACTIVE_WINDOW"
      [] OTHER -> NULL

\* What a continuing execution is annotated with.
PostSendDisposition(x, o) ==
    CASE o = "waiting_input" -> "AO_WAITING_INPUT_OBSERVED"
      [] o = "blocked"       -> "AO_BLOCKED_DECISION"
      [] o = "idle" /\ x.state = "DISPATCHED" -> "MISSED_ACTIVE_WINDOW"
      [] OTHER -> NULL

ObserveTerminal(x, outcome) ==
    LET a == x.att
        closesGates == outcome \in DoubleQuarantine
    IN  /\ taskState' = [taskState EXCEPT ![a[1]] = "FAILED"]
        /\ attemptState' = [attemptState EXCEPT ![a] = "ENDED"]
        /\ disposition' = [disposition EXCEPT ![a] = outcome]
        /\ quarantine' = [quarantine EXCEPT ![a] = IF closesGates THEN "QUARANTINED" ELSE @]
        /\ sessionQuarantine' = IF closesGates THEN "QUARANTINED" ELSE sessionQuarantine
        /\ sessionStatus' = IF outcome = "WORKER_TERMINATION_UNKNOWN"
                              THEN "TERMINATED" ELSE sessionStatus
        /\ UNCHANGED <<currentAttempt, contract, boundGen, dispatchVars, sessionGen, pairOpVars>>

\* A disposition other than RECOVERY_PENDING is sticky: the observation of a
\* continuing execution then changes nothing, not even DISPATCHED -> RUNNING.
ObserveContinuing(x, o) ==
    LET a == x.att IN
    \/ x.disp \notin { NULL, "RECOVERY_PENDING" } /\ UNCHANGED rows
    \/ /\ x.disp \in { NULL, "RECOVERY_PENDING" }
       /\ taskState' = [taskState EXCEPT ![a[1]] = IF o = "exited" THEN @ ELSE "RUNNING"]
       /\ disposition' = [disposition EXCEPT ![a] = PostSendDisposition(x, o)]
       /\ UNCHANGED <<currentAttempt, contract, attemptState, quarantine, boundGen,
                      dispatchVars, sessionVars, pairOpVars>>

\* One transaction: hold resolution, task state, D12 closure, quarantine.
ObservePostSend(x, o, handoff) ==
    /\ o \in { "notFound", "staleGen", "terminated" } \cup Busy \cup Admissible
    /\ SameExecution(x)
    /\ resolution[x.att] = NULL
    /\ SessionMatches(x.att) \/ o \in { "notFound", "staleGen" }
    /\ LET outcome == PostSendOutcome(x, o, handoff) IN
         \/ outcome # NULL /\ ObserveTerminal(x, outcome)
         \/ outcome = NULL /\ ObserveContinuing(x, o)

-----------------------------------------------------------------------------
(* Runner.classifyExecution.                                               *)

ClassifyPreSend(x, o) ==
    \/ /\ o \in { "protocol", "protocol404" }
       /\ \/ x.disp = "PRE_SEND_PROTOCOL_UNVERIFIED" /\ UNCHANGED rows
          \/ /\ x.disp # "PRE_SEND_PROTOCOL_UNVERIFIED"
             /\ RecordPreSendHold(x.att, "PRE_SEND_PROTOCOL_UNVERIFIED")
    \/ /\ o = "unavailable"
       /\ \/ x.disp \notin { NULL, "RECOVERY_PENDING" } /\ UNCHANGED rows
          \/ /\ x.disp \in { NULL, "RECOVERY_PENDING" }
             /\ RecordPreSendHold(x.att, "RECOVERY_PENDING")
    \/ /\ o = "notFound"
       /\ AtomicTerminalTransition(x.att, "DISPATCHED", "SESSION_ABSENT")
    \/ /\ o \in PreSendFailures \ {"protocol404"}
       /\ AtomicTerminalTransition(x.att, "DISPATCHED", FailureFor[o])
    \/ /\ o \in Busy
       /\ RecordPreSendAdmissibilityRejected(x.att)
    \/ /\ o \in Admissible
       /\ \/ x.disp = "RECOVERY_PENDING" /\ ResolvePreSendHold(x.att, "RECOVERY_PENDING")
          \/ x.disp # "RECOVERY_PENDING" /\ UNCHANGED rows

\* A protocol error or another session's status is refused here.
ClassifyPostSend(x, o, handoff) ==
    \/ /\ o = "unavailable"
       /\ \/ x.disp \notin { NULL, "RECOVERY_PENDING" } /\ UNCHANGED rows
          \/ x.disp \in { NULL, "RECOVERY_PENDING" } /\ RecordPostSendOutage(x)
    \/ ObservePostSend(x, o, handoff)

ClassifyExecution(x) ==
    \/ x.stage = "SEND_REQUESTED" /\ RecordUnknownDelivery(x.att)
    \/ /\ x.stage = "DISPATCH_BOUND"
       /\ \E o \in Observations : ClassifyPreSend(x, o)
    \/ /\ x.stage = "SEND_CONFIRMED"
       /\ \E o \in Observations, handoff \in BOOLEAN : ClassifyPostSend(x, o, handoff)

\* executionWinner, asked when a transaction reports ErrStateConflict: the
\* target has changed.  At every stage some answer of the GET leads there (a
\* foreign status for a confirmed send); other errors end the pass.
Superseded(x) ==
    \/ Execution(x.att) # x
    \/ attemptState[x.att] = "ENDED"
    \/ resolution[x.att] = "DELIVERY_OUTCOME_UNKNOWN"

Classify(x) == ClassifyExecution(x) \/ (Superseded(x) /\ UNCHANGED rows)

-----------------------------------------------------------------------------
(* Runner.Run.                                                             *)

\* Mutant: the sweep leaves send intents to the poller.
RunStart_SkipsIntents ==
    /\ phase \in { "closed", "ready" }
    /\ poll = {}
    /\ ~Inconsistent
    /\ phase' = "intents"
    /\ work' = ExecutionsAt({ "DISPATCH_BOUND" }, OwnedAttempts)
    /\ escalate' = BlockedAttempts
    /\ owned' = OwnedAttempts
    /\ UNCHANGED <<vars, poll>>

\* pollAccess: the sweep waits for a tick in progress, and closes the gate.
RunStart ==
    /\ phase \in { "closed", "ready" }
    /\ poll = {}
    /\ ~Inconsistent
    /\ phase' = "intents"
    /\ work' = ExecutionsAt({ "DISPATCH_BOUND", "SEND_REQUESTED" }, OwnedAttempts)
    /\ escalate' = BlockedAttempts
    /\ owned' = OwnedAttempts
    /\ UNCHANGED <<vars, poll>>

RunClassify(x) ==
    /\ phase \in { "intents", "confirmed" }
    /\ x \in work
    /\ Classify(x)
    /\ work' = work \ {x}
    /\ UNCHANGED <<callVars, wireVars, acked, phase, escalate, owned, poll>>

\* Close a BLOCKED attempt, or find it closed that way already.
RunEscalate(a) ==
    /\ phase = "intents"
    /\ work = {}
    /\ a \in escalate
    /\ \/ AtomicAttemptClosureTransition(a)
       \/ /\ taskState[a[1]] = "HUMAN_REQUIRED"
          /\ attemptState[a] = "ENDED"
          /\ disposition[a] = "AO_BLOCKED_ESCALATED"
          /\ UNCHANGED rows
    /\ escalate' = escalate \ {a}
    /\ UNCHANGED <<callVars, wireVars, acked, phase, work, owned, poll>>

\* The second snapshot, for the confirmed executions that are left.  What is
\* skipped is what a stop owned in the first one.
RunReread ==
    /\ phase = "intents"
    /\ work = {}
    /\ escalate = {}
    /\ ~Inconsistent
    /\ phase' = "confirmed"
    /\ work' = ExecutionsAt({ "SEND_CONFIRMED" }, owned)
    /\ UNCHANGED <<vars, escalate, owned, poll>>

RunComplete ==
    /\ phase = "confirmed"
    /\ work = {}
    /\ ~LegacyWithoutBudget
    /\ phase' = "ready"
    /\ owned' = {}
    /\ UNCHANGED <<vars, work, escalate, poll>>

\* An error anywhere in the sweep leaves the gate closed.
RunFails ==
    /\ phase \in { "intents", "confirmed" }
    /\ phase' = "closed"
    /\ work' = {}
    /\ escalate' = {}
    /\ owned' = {}
    /\ UNCHANGED <<vars, poll>>

-----------------------------------------------------------------------------
(* Poller.PollOnce.                                                        *)

\* A tick skips SEND_REQUESTED: its caller may still be waiting for AO.
PollStart ==
    /\ phase = "ready"
    /\ poll = {}
    /\ ~Inconsistent
    /\ poll' = ExecutionsAt({ "DISPATCH_BOUND", "SEND_CONFIRMED" }, OwnedAttempts)
    /\ UNCHANGED <<vars, phase, work, escalate, owned>>

PollClassify(x) ==
    /\ x \in poll
    /\ Classify(x)
    /\ poll' = poll \ {x}
    /\ UNCHANGED <<callVars, wireVars, acked, phase, work, escalate, owned>>

PollFails ==
    /\ poll # {}
    /\ poll' = {}
    /\ UNCHANGED <<vars, phase, work, escalate, owned>>

-----------------------------------------------------------------------------

ProcessCrash ==
    /\ Crash
    /\ phase' = "closed"
    /\ work' = {}
    /\ escalate' = {}
    /\ owned' = {}
    /\ poll' = {}

SagaStep ==
    /\ (\E c \in Callers : CallerStep(c)) \/ EnvironmentStep
    /\ UNCHANGED recoveryVars

SweepStep ==
    \/ RunStart
    \/ \E x \in work : RunClassify(x)
    \/ \E a \in escalate : RunEscalate(a)
    \/ RunReread
    \/ RunComplete
    \/ RunFails

PollStep ==
    \/ PollStart
    \/ \E x \in poll : PollClassify(x)
    \/ PollFails

RecoveryNext ==
    \/ SagaStep
    \/ SweepStep
    \/ PollStep
    \/ ProcessCrash

RecoverySpec == RecoveryInit /\ [][RecoveryNext]_allVars

\* A send intent that nobody has resolved.
Unresolved(a) ==
    /\ stage[a] = "SEND_REQUESTED"
    /\ attemptState[a] = "OPEN"

-----------------------------------------------------------------------------
(* Properties.                                                             *)

\* After a restart an intent that the crash left unresolved does not stay so:
\* the sweep, however often it is interrupted, contains it (Runner.Run,
\* RecordUnknownDelivery), or its own caller confirms it first.
IntentResolved ==
    \A a \in Attempts : phase = "closed" /\ Unresolved(a) ~> ~Unresolved(a)

\* The gate opens: no combination of persisted rows, late callers, stops in
\* flight and AO answers leaves a step of the sweep with no way to go on.
GateOpens == phase = "closed" ~> phase = "ready"

\* A target in a snapshot that has not changed since is still the open,
\* current, unresolved attempt it was read as: equality with the snapshot is
\* what makes a late observation safe to apply.
SnapshotIsSound ==
    \A x \in work \cup poll :
        /\ attemptState[x.att] # "NONE"
        /\ Execution(x.att) = x /\ attemptState[x.att] = "OPEN" =>
              /\ currentAttempt[x.att[1]] = x.att[2]
              /\ resolution[x.att] = NULL

-----------------------------------------------------------------------------
(* A statement of the documentation that the code does not meet.           *)

\* ADR-016: an unconfirmed SEND_REQUESTED that is given up leaves the attempt
\* and the session quarantined, so also when it is a poll tick that ends it.
PollContainsIntents ==
    [][ poll # {} /\ poll' # poll =>
          \A a \in Attempts :
              Unresolved(a) /\ attemptState'[a] = "ENDED" =>
                  quarantine'[a] = "QUARANTINED" /\ sessionQuarantine' = "QUARANTINED" ]_allVars
=============================================================================
