--------------------------- MODULE RecoveryProofs ---------------------------
(***************************************************************************)
(* Theorems about Recovery, for every set of tasks and callers and every   *)
(* bound.  A step is quiet if it moves no dispatch operation along its     *)
(* stages and puts nothing on the wire; the quiet steps are reduced to a   *)
(* few forms (QuietTx), the others (LoudStep) are treated one by one.      *)
(***************************************************************************)
EXTENDS Recovery, TLAPS

\* The D12 outcomes that AtomicTerminalTransition and ObservePostSend write.
Outcomes ==
    DoubleQuarantine \cup { "WORKER_TERMINATION_UNKNOWN", "MISSED_ACTIVE_WINDOW" }

\* An executing attempt and its task are failed with an outcome.
Closes(a, from, outcome) ==
    /\ CurrentOpen(a)
    /\ taskState[a[1]] = from
    /\ from \in { "DISPATCHED", "RUNNING" }
    /\ from = "RUNNING" => ~StopOwned(a)
    /\ taskState' = [taskState EXCEPT ![a[1]] = "FAILED"]
    /\ attemptState' = [attemptState EXCEPT ![a] = "ENDED"]
    /\ disposition' = [disposition EXCEPT ![a] = outcome]
    /\ quarantine' \in { quarantine, [quarantine EXCEPT ![a] = "QUARANTINED"] }
    /\ sessionQuarantine' \in { sessionQuarantine, "QUARANTINED" }
    /\ quarantine' # quarantine => sessionQuarantine' = "QUARANTINED"
    /\ sessionStatus' \in { sessionStatus, "TERMINATED" }
    /\ UNCHANGED <<currentAttempt, contract, boundGen, dispatchVars, sessionGen, pairOpVars>>

\* A disposition written on an open attempt; its task may start to run.
Annotates(a, d, state) ==
    /\ attemptState[a] = "OPEN"
    /\ \/ state = taskState[a[1]]
       \/ /\ state = "RUNNING"
          /\ taskState[a[1]] = "DISPATCHED"
          /\ stage[a] = "SEND_CONFIRMED"
          /\ CurrentOpen(a)
    /\ d = "PRE_SEND_PROTOCOL_UNVERIFIED" => stage[a] = "DISPATCH_BOUND"
    /\ d = "RECOVERY_PENDING" => stage[a] # "SEND_REQUESTED"
    /\ disposition[a] = "PRE_SEND_PROTOCOL_UNVERIFIED" => d = disposition[a] \/ OperatorVerified
    /\ d # "WORKER_STOPPED"
    /\ disposition' = [disposition EXCEPT ![a] = d]
    /\ taskState' = [taskState EXCEPT ![a[1]] = state]
    /\ UNCHANGED <<currentAttempt, contract, attemptState, quarantine, boundGen,
                   dispatchVars, sessionVars, pairOpVars>>

\* A transaction that moves no dispatch operation along its stages.
QuietTx ==
    \/ UNCHANGED rows
    \/ \E t \in Tasks, to \in TaskStates :
          <<taskState[t], to>> \in Edges /\ TransitionTask(t, to)
    \/ \E t \in Tasks : InsertTaskContract(t)
    \/ \E a \in Attempts : RecordUnknownDelivery(a)
    \/ \E a \in Attempts : AtomicAttemptClosureTransition(a)
    \/ \E a \in Attempts, from \in TaskStates, outcome \in Outcomes : Closes(a, from, outcome)
    \/ \E a \in Attempts, d \in Dispositions, state \in TaskStates : Annotates(a, d, state)

USE DEF NULL, NoAttempt
USE DEF taskVars, attemptVars, dispatchVars, sessionVars, pairOpVars, rows

\* The task of an attempt.
LEMMA TaskOf ==
    ASSUME RowsTypeOK, NEW a \in Attempts
    PROVE  a[1] \in Tasks /\ taskState[a[1]] \in TaskStates
BY DEF RowsTypeOK, Attempts

\* An attempt is its task and its number.
LEMMA AttemptIdentity ==
    ASSUME NEW a \in Attempts, NEW b \in Attempts, a[1] = b[1], a[2] = b[2]
    PROVE  a = b
BY DEF Attempts

\* Writing the state a task already has changes nothing.
LEMMA SameState ==
    ASSUME RowsTypeOK, NEW a \in Attempts
    PROVE  [taskState EXCEPT ![a[1]] = taskState[a[1]]] = taskState
BY DEF RowsTypeOK, Attempts

\* RecordPreSendHold annotates a bound attempt, or changes nothing.
LEMMA HoldIsQuiet ==
    ASSUME RowsTypeOK, NEW a \in Attempts, NEW hold \in PreSendHolds,
           RecordPreSendHold(a, hold)
    PROVE  QuietTx
<1>1. CASE UNCHANGED rows
  BY <1>1 DEF QuietTx
<1>2. CASE ~UNCHANGED rows
  <2>1. Annotates(a, hold, taskState[a[1]])
    BY <1>2, SameState DEF RecordPreSendHold, Annotates, PreSendHolds
  <2>2. hold \in Dispositions
    BY DEF Dispositions
  <2> QED BY TaskOf, <2>1, <2>2 DEF QuietTx
<1> QED BY <1>1, <1>2

\* ResolvePreSendHold annotates: it writes NULL over a hold.
LEMMA ResolveIsQuiet ==
    ASSUME RowsTypeOK, NEW a \in Attempts, NEW hold, ResolvePreSendHold(a, hold),
           hold = "PRE_SEND_PROTOCOL_UNVERIFIED" => OperatorVerified
    PROVE  QuietTx
<1>1. Annotates(a, NULL, taskState[a[1]])
  BY SameState DEF ResolvePreSendHold, Annotates, CurrentOpen
<1>2. NULL \in Dispositions
  BY DEF Dispositions
<1> QED BY TaskOf, <1>1, <1>2 DEF QuietTx

\* AtomicTerminalTransition closes an executing attempt.
LEMMA TerminalIsQuiet ==
    ASSUME RowsTypeOK, NEW a \in Attempts, NEW outcome \in Outcomes,
           AtomicTerminalTransition(a, "DISPATCHED", outcome)
    PROVE  QuietTx
<1>1. Closes(a, "DISPATCHED", outcome)
  <2>1. /\ quarantine' \in { quarantine, [quarantine EXCEPT ![a] = "QUARANTINED"] }
        /\ quarantine' # quarantine => sessionQuarantine' = "QUARANTINED"
    BY DEF AtomicTerminalTransition, RowsTypeOK
  <2> QED BY <2>1 DEF AtomicTerminalTransition, Closes
<1>2. "DISPATCHED" \in TaskStates
  BY DEF TaskStates
<1> QED BY <1>1, <1>2 DEF QuietTx

\* ObservePostSend closes or annotates an attempt equal to its snapshot.
LEMMA ObserveIsQuiet ==
    ASSUME RowsTypeOK, NEW x \in ExecutionRows, NEW o \in Observations,
           NEW handoff \in BOOLEAN, ObservePostSend(x, o, handoff)
    PROVE  QuietTx
<1> DEFINE outcome == PostSendOutcome(x, o, handoff)
<1>a. x.att \in Attempts /\ x.state \in { "DISPATCHED", "RUNNING" }
  BY DEF ExecutionRows
<1>s. /\ CurrentOpen(x.att)
      /\ taskState[x.att[1]] = x.state
      /\ stage[x.att] = x.stage
      /\ disposition[x.att] = x.disp
      /\ x.stage = "SEND_CONFIRMED"
      /\ ~StopOwned(x.att)
  BY DEF ObservePostSend, SameExecution, Execution
<1>1. CASE outcome # NULL /\ ObserveTerminal(x, outcome)
  <2>1. outcome \in Outcomes
    BY <1>1 DEF PostSendOutcome, Outcomes, DoubleQuarantine
  <2>2. /\ quarantine' \in { quarantine, [quarantine EXCEPT ![x.att] = "QUARANTINED"] }
        /\ quarantine' # quarantine => sessionQuarantine' = "QUARANTINED"
    BY <1>1, <1>a DEF ObserveTerminal, RowsTypeOK
  <2>3. Closes(x.att, x.state, outcome)
    BY <1>1, <1>a, <1>s, <2>2 DEF ObserveTerminal, Closes
  <2>4. x.state \in TaskStates
    BY <1>a DEF TaskStates
  <2> QED BY <1>a, <2>1, <2>3, <2>4 DEF QuietTx
<1>2. CASE outcome = NULL /\ ObserveContinuing(x, o)
  <2>1. CASE UNCHANGED rows
    BY <2>1 DEF QuietTx
  <2>2. CASE ~UNCHANGED rows
    <3> DEFINE d == PostSendDisposition(x, o)
               st == IF o = "exited" THEN x.state ELSE "RUNNING"
    <3>1. d \in Dispositions /\ d \notin PreSendHolds /\ d # "WORKER_STOPPED"
      BY DEF PostSendDisposition, Dispositions, PreSendHolds
    <3>2. st \in TaskStates
      BY <1>a DEF TaskStates
    <3>3. taskState' = [taskState EXCEPT ![x.att[1]] = st]
      BY <1>2, <1>s, <2>2, TaskOf, <1>a DEF ObserveContinuing
    <3>4. st = taskState[x.att[1]] \/ (st = "RUNNING" /\ taskState[x.att[1]] = "DISPATCHED")
      BY <1>a, <1>s
    <3>5. /\ disposition' = [disposition EXCEPT ![x.att] = d]
          /\ UNCHANGED <<currentAttempt, contract, attemptState, quarantine, boundGen,
                         dispatchVars, sessionVars, pairOpVars>>
      BY <1>2, <2>2 DEF ObserveContinuing
    <3>7. disposition[x.att] # "PRE_SEND_PROTOCOL_UNVERIFIED"
      BY <1>2, <1>s, <2>2 DEF ObserveContinuing
    <3> HIDE DEF d, st
    <3>6. Annotates(x.att, d, st)
      BY <3>7, <1>s, <3>1, <3>3, <3>4, <3>5 DEF Annotates, CurrentOpen, PreSendHolds
    <3> QED BY <1>a, <3>1, <3>2, <3>6 DEF QuietTx
  <2> QED BY <2>1, <2>2
<1> QED BY <1>1, <1>2 DEF ObservePostSend

\* RecordPostSendOutage annotates a confirmed attempt.
LEMMA OutageIsQuiet ==
    ASSUME RowsTypeOK, NEW x \in ExecutionRows, RecordPostSendOutage(x)
    PROVE  QuietTx
<1>a. x.att \in Attempts
  BY DEF ExecutionRows
<1>1. CASE UNCHANGED rows
  BY <1>1 DEF QuietTx
<1>2. CASE ~UNCHANGED rows
  <2>1. Annotates(x.att, "RECOVERY_PENDING", taskState[x.att[1]])
    BY <1>2, <1>a, SameState
       DEF RecordPostSendOutage, Annotates, SameExecution, Execution, CurrentOpen
  <2>2. "RECOVERY_PENDING" \in Dispositions
    BY DEF Dispositions, PreSendHolds
  <2> QED BY <1>a, TaskOf, <2>1, <2>2 DEF QuietTx
<1> QED BY <1>1, <1>2

\* Whatever an observer decides about an execution, it moves no stage.
LEMMA ClassifyIsQuiet ==
    ASSUME RowsTypeOK, NEW x \in ExecutionRows, Classify(x)
    PROVE  QuietTx
<1>a. x.att \in Attempts
  BY DEF ExecutionRows
<1>1. CASE UNCHANGED rows
  BY <1>1 DEF QuietTx
<1>2. CASE x.stage = "SEND_REQUESTED" /\ RecordUnknownDelivery(x.att)
  BY <1>2, <1>a DEF QuietTx
<1>3. ASSUME NEW o \in Observations, ClassifyPreSend(x, o), ~UNCHANGED rows
      PROVE  QuietTx
  <2>1. CASE \E hold \in PreSendHolds : RecordPreSendHold(x.att, hold)
    BY <1>a, <2>1, HoldIsQuiet
  <2>2. CASE \E outcome \in Outcomes :
               AtomicTerminalTransition(x.att, "DISPATCHED", outcome)
    BY <1>a, <2>2, TerminalIsQuiet
  <2>3. CASE ResolvePreSendHold(x.att, "RECOVERY_PENDING")
    BY <1>a, <2>3, ResolveIsQuiet
  <2>4. /\ "SESSION_ABSENT" \in Outcomes
        /\ \A p \in PreSendFailures : FailureFor[p] \in Outcomes
        /\ "RECOVERY_PENDING" \in PreSendHolds
        /\ "PRE_SEND_PROTOCOL_UNVERIFIED" \in PreSendHolds
    BY DEF Outcomes, DoubleQuarantine, PreSendFailures, FailureFor, PreSendHolds
  <2> QED
    BY <1>3, <2>1, <2>2, <2>3, <2>4
       DEF ClassifyPreSend, RecordPreSendAdmissibilityRejected
<1>4. ASSUME NEW o \in Observations, NEW handoff \in BOOLEAN,
             ClassifyPostSend(x, o, handoff), ~UNCHANGED rows
      PROVE  QuietTx
  BY <1>4, OutageIsQuiet, ObserveIsQuiet DEF ClassifyPostSend
<1> QED BY <1>1, <1>2, <1>3, <1>4 DEF Classify, ClassifyExecution

-----------------------------------------------------------------------------
(* The inductive invariant.                                                *)

\* Attempts exist up to the current one, each with its dispatch operation.
AttemptsExist ==
    \A a \in Attempts :
        /\ attemptState[a] = "NONE" <=> currentAttempt[a[1]] < a[2]
        /\ attemptState[a] = "NONE" <=> stage[a] = "NONE"

Executing == { "RUNNING", "REPORT_READY", "EVIDENCE_READY", "REVIEWING", "BLOCKED" }

\* The current attempt of a task at work is open, and confirmed once it runs.
CurrentIsOpen ==
    /\ \A t \in Tasks :
          taskState[t] \in {"DISPATCHED"} \cup Executing => currentAttempt[t] > 0
    /\ \A a \in Attempts :
          currentAttempt[a[1]] = a[2] =>
              /\ taskState[a[1]] = "DISPATCHED" => attemptState[a] = "OPEN"
              /\ taskState[a[1]] \in Executing =>
                    attemptState[a] = "OPEN" /\ stage[a] = "SEND_CONFIRMED"

\* A message is accepted only if sent, and sent only under an intent.
WireFollowsIntent ==
    \A a \in Attempts :
        /\ delivered[a] <= sends[a]
        /\ sends[a] <= 1
        /\ sends[a] > 0 => stage[a] \in { "SEND_REQUESTED", "SEND_CONFIRMED" }

\* A caller past its intent works on an attempt with an intent; the one about
\* to send is alone and has not sent yet.
CallersHoldIntent ==
    /\ \A c \in Callers : pc[c] # "idle" => att[c] \in Attempts
    /\ \A c \in Callers :
          pc[c] \in { "send", "await", "contain", "d5" } =>
              stage[att[c]] \in { "SEND_REQUESTED", "SEND_CONFIRMED" }
    /\ \A c \in Callers : pc[c] = "send" => sends[att[c]] = 0
    /\ \A c, d \in Callers :
          pc[c] = "send" /\ pc[d] = "send" /\ att[c] = att[d] => c = d

\* An intent resolved as unknown is a closed attempt (UnknownIsContained adds
\* the gates, which stops and clearances may open again).
UnknownIsClosed ==
    \A a \in Attempts :
        resolution[a] = "DELIVERY_OUTCOME_UNKNOWN" =>
            /\ stage[a] = "SEND_REQUESTED"
            /\ attemptState[a] = "ENDED"
            /\ disposition[a] = "UNCERTAIN_DELIVERY_CRASH"

RowInv ==
    /\ AttemptsExist
    /\ CurrentIsOpen
    /\ UnknownIsClosed
    /\ HeldNeverSent
    /\ OneActiveLane

SagaInv ==
    /\ RecoveryTypeOK
    /\ RowInv
    /\ WireFollowsIntent
    /\ CallersHoldIntent
    /\ ConfirmedIsReal

-----------------------------------------------------------------------------

\* The states the transactions write are states of the graph.
LEMMA TaskStatesAreStates ==
    /\ {"DISPATCHED", "FAILED", "HUMAN_REQUIRED", "RUNNING"} \subseteq TaskStates
    /\ Outcomes \subseteq Dispositions
    /\ {"UNCERTAIN_DELIVERY_CRASH", "AO_BLOCKED_ESCALATED"} \subseteq Dispositions
    /\ Outcomes \cap PreSendHolds = {}
BY DEF TaskStates, Outcomes, DoubleQuarantine, Dispositions, PreSendHolds

\* A quiet transaction keeps the types of the rows.
LEMMA QuietType ==
    ASSUME RowsTypeOK, QuietTx
    PROVE  RowsTypeOK'
<1> USE TaskStatesAreStates
<1>1. CASE UNCHANGED rows
  BY <1>1 DEF RowsTypeOK
<1>2. ASSUME NEW t \in Tasks, NEW to \in TaskStates, TransitionTask(t, to)
      PROVE  RowsTypeOK'
  BY <1>2 DEF TransitionTask, RowsTypeOK
<1>3. ASSUME NEW t \in Tasks, InsertTaskContract(t)
      PROVE  RowsTypeOK'
  BY <1>3 DEF InsertTaskContract, RowsTypeOK, ContractStates
<1>4. ASSUME NEW a \in Attempts, RecordUnknownDelivery(a)
      PROVE  RowsTypeOK'
  BY <1>4, TaskOf DEF RecordUnknownDelivery, RowsTypeOK, AttemptStates, QuarantineStates,
     DispatchResolutions
<1>5. ASSUME NEW a \in Attempts, AtomicAttemptClosureTransition(a)
      PROVE  RowsTypeOK'
  BY <1>5, TaskOf DEF AtomicAttemptClosureTransition, RowsTypeOK, AttemptStates
<1>6. ASSUME NEW a \in Attempts, NEW from \in TaskStates, NEW outcome \in Outcomes,
             Closes(a, from, outcome)
      PROVE  RowsTypeOK'
  BY <1>6, TaskOf DEF Closes, RowsTypeOK, AttemptStates, QuarantineStates, SessionStatuses
<1>7. ASSUME NEW a \in Attempts, NEW d \in Dispositions, NEW state \in TaskStates,
             Annotates(a, d, state)
      PROVE  RowsTypeOK'
  BY <1>7, TaskOf DEF Annotates, RowsTypeOK
<1> QED BY <1>1, <1>2, <1>3, <1>4, <1>5, <1>6, <1>7 DEF QuietTx

\* A quiet transaction moves no stage, binds no budget and allocates nothing;
\* it resolves only an intent that is not confirmed.
LEMMA QuietStages ==
    ASSUME QuietTx
    PROVE  /\ UNCHANGED <<stage, budget, currentAttempt>>
           /\ \/ UNCHANGED resolution
              \/ \E a \in Attempts :
                    /\ stage[a] = "SEND_REQUESTED"
                    /\ resolution[a] = NULL
                    /\ resolution' = [resolution EXCEPT ![a] = "DELIVERY_OUTCOME_UNKNOWN"]
BY DEF QuietTx, TransitionTask, InsertTaskContract, RecordUnknownDelivery,
       AtomicAttemptClosureTransition, Closes, Annotates

\* Every quiet transaction keeps what relates the rows to each other.
LEMMA QuietRowInv ==
    ASSUME RowsTypeOK, RowInv, QuietTx
    PROVE  RowInv'
<1> USE TaskStatesAreStates
<1>1. CASE UNCHANGED rows
  BY <1>1 DEF RowInv, AttemptsExist, CurrentIsOpen, UnknownIsClosed, HeldNeverSent, OneActiveLane
<1>2. ASSUME NEW t \in Tasks, NEW to \in TaskStates,
             <<taskState[t], to>> \in Edges, TransitionTask(t, to)
      PROVE  RowInv'
  <2>e. /\ CanTransition(taskState[t], to)
        /\ <<taskState[t], to>> \notin SagaEdges
    BY <1>2, EdgesAssumption DEF TransitionTask
  <2>1. AttemptsExist'
    BY <1>2 DEF RowInv, AttemptsExist, TransitionTask
  <2>2. to \in Executing => taskState[t] \in Executing
    BY <2>e DEF CanTransition, AllowedTransitions, SagaEdges, Executing
  <2>3. to # "DISPATCHED"
    BY <2>e DEF CanTransition, AllowedTransitions, SagaEdges
  <2>4. CurrentIsOpen'
    BY <1>2, <2>2, <2>3, TaskOf DEF RowInv, CurrentIsOpen, TransitionTask, RowsTypeOK
  <2>5. UnknownIsClosed' /\ HeldNeverSent'
    BY <1>2 DEF RowInv, UnknownIsClosed, HeldNeverSent, TransitionTask
  <2>6. OneActiveLane'
    BY <1>2, <2>3 DEF RowInv, OneActiveLane, TransitionTask, ActiveLane, LaneBusy, RowsTypeOK
  <2> QED BY <2>1, <2>4, <2>5, <2>6 DEF RowInv
<1>3. ASSUME NEW t \in Tasks, InsertTaskContract(t)
      PROVE  RowInv'
  BY <1>3 DEF InsertTaskContract, RowInv, AttemptsExist, CurrentIsOpen, UnknownIsClosed,
     HeldNeverSent, OneActiveLane
<1>4. ASSUME NEW a \in Attempts, RecordUnknownDelivery(a)
      PROVE  RowInv'
  <2> USE <1>4, TaskOf DEF RecordUnknownDelivery, RowsTypeOK, RowInv, CurrentOpen
  <2>1. AttemptsExist'
    BY DEF AttemptsExist
  <2>2. CurrentIsOpen'
    BY DEF CurrentIsOpen, Executing, Attempts
  <2>3. UnknownIsClosed'
    BY DEF UnknownIsClosed
  <2>4. HeldNeverSent'
    BY DEF HeldNeverSent, PreSendHolds
  <2>5. OneActiveLane'
    BY DEF OneActiveLane, ActiveLane
  <2> QED BY <2>1, <2>2, <2>3, <2>4, <2>5
<1>5. ASSUME NEW a \in Attempts, AtomicAttemptClosureTransition(a)
      PROVE  RowInv'
  <2> USE <1>5, TaskOf DEF AtomicAttemptClosureTransition, RowsTypeOK, RowInv, CurrentOpen
  <2>1. AttemptsExist'
    BY DEF AttemptsExist
  <2>2. CurrentIsOpen'
    BY DEF CurrentIsOpen, Executing, Attempts
  <2>3. UnknownIsClosed'
    BY DEF UnknownIsClosed
  <2>4. HeldNeverSent'
    BY DEF HeldNeverSent, PreSendHolds
  <2>5. OneActiveLane'
    BY DEF OneActiveLane, ActiveLane
  <2> QED BY <2>1, <2>2, <2>3, <2>4, <2>5
<1>6. ASSUME NEW a \in Attempts, NEW from \in TaskStates, NEW outcome \in Outcomes,
             Closes(a, from, outcome)
      PROVE  RowInv'
  <2> USE <1>6, TaskOf DEF Closes, RowsTypeOK, RowInv, CurrentOpen
  <2>1. AttemptsExist'
    BY DEF AttemptsExist
  <2>2. CurrentIsOpen'
    BY DEF CurrentIsOpen, Executing, Attempts
  <2>3. UnknownIsClosed'
    BY DEF UnknownIsClosed
  <2>4. HeldNeverSent'
    BY DEF HeldNeverSent, PreSendHolds
  <2>5. OneActiveLane'
    BY DEF OneActiveLane, ActiveLane
  <2> QED BY <2>1, <2>2, <2>3, <2>4, <2>5
<1>7. ASSUME NEW a \in Attempts, NEW d \in Dispositions, NEW state \in TaskStates,
             Annotates(a, d, state)
      PROVE  RowInv'
  <2> USE <1>7, TaskOf DEF Annotates, RowsTypeOK, RowInv, CurrentOpen
  <2>1. AttemptsExist'
    BY DEF AttemptsExist
  <2>2. CurrentIsOpen'
    <3>1. CASE state = taskState[a[1]]
      BY <3>1, SameState DEF CurrentIsOpen
    <3>2. CASE state # taskState[a[1]]
      <4>1. \A b \in Attempts : currentAttempt[b[1]] = b[2] /\ b[1] = a[1] => b = a
        BY <3>2 DEF Attempts
      <4> QED BY <3>2, <4>1, SMTT(30) DEF CurrentIsOpen, Executing
    <3> QED BY <3>1, <3>2
  <2>3. UnknownIsClosed'
    BY DEF UnknownIsClosed
  <2>4. HeldNeverSent'
    BY DEF HeldNeverSent, PreSendHolds
  <2>5. OneActiveLane'
    BY DEF OneActiveLane, ActiveLane
  <2> QED BY <2>1, <2>2, <2>3, <2>4, <2>5
<1> QED BY <1>1, <1>2, <1>3, <1>4, <1>5, <1>6, <1>7 DEF QuietTx

-----------------------------------------------------------------------------
(* The steps, sorted by what they do to stages, wire and callers.          *)

\* Every caller stays where it is, has not reached its intent, or goes on
\* with the attempt it has an intent for.
CallersRelax ==
    \A c \in Callers :
        \/ /\ pc'[c] \in { "idle", "bound", "observed" }
           /\ pc'[c] # "idle" => att'[c] \in Attempts
        \/ pc'[c] = pc[c] /\ att'[c] = att[c]
        \/ /\ pc[c] \in { "send", "await", "contain" }
           /\ pc'[c] \in { "await", "contain", "d5" }
           /\ att'[c] = att[c]

\* A quiet transaction, or none, by a caller, an observer or a crash.
QuietStep ==
    /\ QuietTx
    /\ CallersRelax
    /\ UNCHANGED <<wireVars, acked>>

USE DEF callVars, wireVars, vars, recoveryVars, allVars

\* A call that returns gives up what it held.
LEMMA ReturnRelaxes ==
    ASSUME NEW c \in Callers, pc \in [Callers -> PCs],
           att \in [Callers -> Attempts \cup {NoAttempt}], Return(c)
    PROVE  CallersRelax
BY DEF Return, CallersRelax

\* A call past its intent goes on with the same attempt.
LEMMA GotoRelaxes ==
    ASSUME NEW c \in Callers, pc \in [Callers -> PCs],
           att \in [Callers -> Attempts \cup {NoAttempt}],
           NEW label \in { "await", "contain", "d5" },
           pc[c] \in { "send", "await", "contain" }, Goto(c, label)
    PROVE  CallersRelax
BY DEF Goto, CallersRelax

\* Nothing is given up when no call moves.
LEMMA StaysRelaxes ==
    ASSUME UNCHANGED callVars
    PROVE  CallersRelax
BY DEF CallersRelax

\* Steps of a call that neither allocate, request, send nor confirm.
LEMMA QuietCallerSteps ==
    ASSUME TypeOK, CallersHoldIntent, NEW c \in Callers,
           \/ \E a \in Attempts : DispatchRetry(c, a)
           \/ \E o \in Observations : GetWorkerStatus(c, o)
           \/ PreSendHold(c)
           \/ PreSendFailure(c)
           \/ PreSendRejected(c)
           \/ DispatchFails(c)
           \/ SendFails(c)
           \/ ContainUnknown(c)
    PROVE  QuietStep
<1> USE DEF TypeOK
<1>a. pc[c] # "idle" => att[c] \in Attempts
  BY DEF CallersHoldIntent
<1>u. UNCHANGED rows => QuietTx
  BY DEF QuietTx
<1>1. CASE \E a \in Attempts : DispatchRetry(c, a)
  BY <1>1, <1>u DEF DispatchRetry, QuietStep, CallersRelax
<1>2. CASE \E o \in Observations : GetWorkerStatus(c, o)
  BY <1>2, <1>u, <1>a DEF GetWorkerStatus, QuietStep, CallersRelax
<1>3. CASE PreSendHold(c)
  <2>1. HoldFor[obs[c]] \in PreSendHolds
    BY <1>3 DEF PreSendHold, HoldFor, PreSendHolds
  <2> QED BY <1>3, <1>a, <2>1, HoldIsQuiet, ReturnRelaxes DEF PreSendHold, QuietStep
<1>4. CASE PreSendFailure(c)
  <2>1. FailureFor[obs[c]] \in Outcomes
    BY <1>4 DEF PreSendFailure, FailureFor, Outcomes, PreSendFailures, DoubleQuarantine
  <2> QED BY <1>4, <1>a, <2>1, TerminalIsQuiet, ReturnRelaxes DEF PreSendFailure, QuietStep
<1>5. CASE PreSendRejected(c)
  BY <1>5, <1>u, ReturnRelaxes
     DEF PreSendRejected, RecordPreSendAdmissibilityRejected, QuietStep
<1>6. CASE DispatchFails(c)
  BY <1>6, <1>u, ReturnRelaxes DEF DispatchFails, QuietStep
<1>7. CASE SendFails(c)
  BY <1>7, <1>u, GotoRelaxes DEF SendFails, QuietStep
<1>8. CASE ContainUnknown(c)
  <2>1. QuietTx
    BY <1>8, <1>a DEF ContainUnknown, QuietTx
  <2> QED BY <1>8, <2>1, ReturnRelaxes DEF ContainUnknown, QuietStep
<1> QED BY <1>1, <1>2, <1>3, <1>4, <1>5, <1>6, <1>7, <1>8

\* Operator and orchestrator.
LEMMA QuietEnvironmentSteps ==
    ASSUME TypeOK,
           \/ \E a \in Attempts, hold \in PreSendHolds : RecoverPreSend(a, hold)
           \/ \E t \in Tasks, to \in TaskStates : MoveTask(t, to)
           \/ \E t \in Tasks : ReviseContract(t)
    PROVE  QuietStep
<1>1. QuietTx
  <2>1. ASSUME NEW a \in Attempts, NEW hold \in PreSendHolds, RecoverPreSend(a, hold)
        PROVE  QuietTx
    BY <2>1, ResolveIsQuiet DEF RecoverPreSend, TypeOK
  <2>2. ASSUME NEW t \in Tasks, NEW to \in TaskStates, MoveTask(t, to)
        PROVE  QuietTx
    BY <2>2 DEF MoveTask, QuietTx
  <2>3. ASSUME NEW t \in Tasks, ReviseContract(t)
        PROVE  QuietTx
    BY <2>3 DEF ReviseContract, QuietTx
  <2> QED BY <2>1, <2>2, <2>3
<1>2. UNCHANGED <<callVars, wireVars, acked>>
  BY DEF RecoverPreSend, MoveTask, ReviseContract
<1> QED BY <1>1, <1>2, StaysRelaxes DEF QuietStep

\* The sweep and the poller.
LEMMA QuietObserverSteps ==
    ASSUME RecoveryTypeOK, SweepStep \/ PollStep
    PROVE  QuietStep
<1>u. UNCHANGED rows => QuietTx
  BY DEF QuietTx
<1>1. CASE RunStart \/ RunReread \/ RunComplete \/ RunFails \/ PollStart \/ PollFails
  BY <1>1, <1>u, StaysRelaxes
     DEF RunStart, RunReread, RunComplete, RunFails, PollStart, PollFails, QuietStep
<1>2. ASSUME NEW x \in work, RunClassify(x)
      PROVE  QuietStep
  BY <1>2, ClassifyIsQuiet, StaysRelaxes DEF RunClassify, QuietStep, RecoveryTypeOK, TypeOK
<1>3. ASSUME NEW x \in poll, PollClassify(x)
      PROVE  QuietStep
  BY <1>3, ClassifyIsQuiet, StaysRelaxes DEF PollClassify, QuietStep, RecoveryTypeOK, TypeOK
<1>4. ASSUME NEW a \in escalate, RunEscalate(a)
      PROVE  QuietStep
  <2>1. a \in Attempts
    BY DEF RecoveryTypeOK
  <2>2. QuietTx
    BY <1>4, <2>1, <1>u DEF RunEscalate, QuietTx
  <2> QED BY <1>4, <2>2, StaysRelaxes DEF RunEscalate, QuietStep
<1> QED BY <1>1, <1>2, <1>3, <1>4 DEF SweepStep, PollStep

\* A crash, and a step that changes nothing.
LEMMA QuietCrash ==
    ASSUME Crash \/ UNCHANGED vars
    PROVE  QuietStep
<1>1. CASE Crash
  BY <1>1 DEF Crash, QuietStep, QuietTx, CallersRelax
<1>2. CASE UNCHANGED vars
  BY <1>2, StaysRelaxes DEF QuietStep, QuietTx
<1> QED BY <1>1, <1>2

-----------------------------------------------------------------------------
(* The steps that allocate, request, send, confirm and acknowledge.        *)

\* The complement of the quiet steps.
LoudStep ==
    \/ \E c \in Callers, t \in Tasks : DispatchReady(c, t)
    \/ \E c \in Callers :
          \/ RequestSend(c)
          \/ DispatchTaskContract(c)
          \/ ConfirmSend(c)
          \/ ContainReread(c)
    \/ \E a \in Attempts : AODeliver(a)

\* Every step of the system is of one kind or the other.
LEMMA QuietOrLoud ==
    ASSUME RecoveryTypeOK, CallersHoldIntent, [RecoveryNext]_allVars
    PROVE  QuietStep \/ LoudStep
<1> USE DEF RecoveryTypeOK
<1>1. ASSUME NEW c \in Callers, CallerStep(c)
      PROVE  QuietStep \/ LoudStep
  BY <1>1, QuietCallerSteps DEF CallerStep, LoudStep
<1>2. CASE EnvironmentStep
  BY <1>2, QuietEnvironmentSteps DEF EnvironmentStep, LoudStep
<1>3. CASE SweepStep \/ PollStep
  BY <1>3, QuietObserverSteps
<1>4. CASE ProcessCrash \/ UNCHANGED allVars
  BY <1>4, QuietCrash DEF ProcessCrash
<1> QED BY <1>1, <1>2, <1>3, <1>4 DEF RecoveryNext, SagaStep

\* Below the bound, the next attempt of a task is an attempt of that task.
LEMMA NextAttemptExists ==
    ASSUME RowsTypeOK, NEW t \in Tasks, currentAttempt[t] < MaxAttempts
    PROVE  /\ NextAttempt(t) \in Attempts
           /\ NextAttempt(t)[1] = t
           /\ NextAttempt(t)[2] = currentAttempt[t] + 1
BY MaxAttemptsAssumption DEF RowsTypeOK, NextAttempt, Attempts

\* The rows keep their types.
LEMMA RowsTypeStep ==
    ASSUME RecoveryTypeOK, CallersHoldIntent, [RecoveryNext]_allVars
    PROVE  RowsTypeOK'
<1> USE DEF RecoveryTypeOK, TypeOK
<1>1. CASE QuietStep
  BY <1>1, QuietType DEF QuietStep
<1>2. ASSUME NEW c \in Callers, NEW t \in Tasks, DispatchReady(c, t)
      PROVE  RowsTypeOK'
  <2>1. NextAttempt(t) \in Attempts
    BY <1>2, NextAttemptExists DEF DispatchReady, PrepareBoundDispatch, BindAttempt
  <2>2. currentAttempt' \in [Tasks -> 0 .. MaxAttempts]
    BY <1>2, MaxAttemptsAssumption DEF DispatchReady, PrepareBoundDispatch, BindAttempt, RowsTypeOK
  <2> QED
    BY <1>2, <2>1, <2>2, TaskStatesAreStates
       DEF DispatchReady, PrepareBoundDispatch, BindAttempt, RowsTypeOK, ContractStates, AttemptStates,
           DispatchStages
<1>3. ASSUME NEW c \in Callers, RequestSend(c) \/ ConfirmSend(c)
      PROVE  RowsTypeOK'
  BY <1>3 DEF RequestSend, ConfirmSend, RecordSendRequested, RecordSendConfirmed, RowsTypeOK,
     DispatchStages, BudgetBases
<1>4. ASSUME NEW c \in Callers, DispatchTaskContract(c) \/ ContainReread(c)
      PROVE  RowsTypeOK'
  BY <1>4 DEF DispatchTaskContract, ContainReread, RowsTypeOK
<1>5. ASSUME NEW a \in Attempts, AODeliver(a)
      PROVE  RowsTypeOK'
  BY <1>5 DEF AODeliver, RowsTypeOK
<1> QED BY <1>1, <1>2, <1>3, <1>4, <1>5, QuietOrLoud DEF LoudStep

CallTypeOK ==
    /\ pc \in [Callers -> PCs]
    /\ att \in [Callers -> Attempts \cup {NoAttempt}]
    /\ obs \in [Callers -> Observations \cup {NULL}]
    /\ sends \in [Attempts -> 0 .. MaxSends]
    /\ delivered \in [Attempts -> 0 .. MaxSends]
    /\ acked \subseteq Attempts

\* Callers and wire keep their types.
LEMMA CallTypeStep ==
    ASSUME RecoveryTypeOK, CallersHoldIntent, [RecoveryNext]_allVars
    PROVE  CallTypeOK'
<1> USE DEF RecoveryTypeOK, TypeOK, CallTypeOK, PCs
<1>r. ASSUME NEW c \in Callers, Return(c)
      PROVE  /\ pc' \in [Callers -> PCs]
             /\ att' \in [Callers -> Attempts \cup {NoAttempt}]
             /\ obs' \in [Callers -> Observations \cup {NULL}]
  BY <1>r DEF Return
<1>g. ASSUME NEW c \in Callers, NEW label \in PCs, Goto(c, label)
      PROVE  /\ pc' \in [Callers -> PCs]
             /\ att' \in [Callers -> Attempts \cup {NoAttempt}]
             /\ obs' \in [Callers -> Observations \cup {NULL}]
  BY <1>g DEF Goto
<1>a. \A c \in Callers : pc[c] # "idle" => att[c] \in Attempts
  BY DEF CallersHoldIntent
<1>1. ASSUME NEW c \in Callers, CallerStep(c)
      PROVE  CallTypeOK'
  <2>1. ASSUME NEW t \in Tasks, DispatchReady(c, t)
        PROVE  CallTypeOK'
    BY <2>1, NextAttemptExists DEF DispatchReady, PrepareBoundDispatch, BindAttempt
  <2>2. ASSUME NEW a \in Attempts, DispatchRetry(c, a)
        PROVE  CallTypeOK'
    BY <2>2 DEF DispatchRetry
  <2>3. ASSUME NEW o \in Observations, GetWorkerStatus(c, o)
        PROVE  CallTypeOK'
    BY <2>3 DEF GetWorkerStatus
  <2>4. CASE PreSendHold(c) \/ PreSendFailure(c) \/ PreSendRejected(c) \/ DispatchFails(c)
               \/ ContainUnknown(c)
    BY <2>4, <1>r DEF PreSendHold, PreSendFailure, PreSendRejected, DispatchFails, ContainUnknown
  <2>5. CASE RequestSend(c)
    BY <2>5, <1>r, <1>g DEF RequestSend
  <2>6. CASE DispatchTaskContract(c)
    <3>1. sends' \in [Attempts -> 0 .. MaxSends]
      BY <2>6, <1>a, MaxSendsAssumption DEF DispatchTaskContract
    <3> QED BY <2>6, <1>g, <3>1 DEF DispatchTaskContract
  <2>7. CASE ConfirmSend(c)
    BY <2>7, <1>r, <1>g, <1>a DEF ConfirmSend
  <2>8. CASE SendFails(c)
    BY <2>8, <1>g DEF SendFails
  <2>9. CASE ContainReread(c)
    <3>1. acked' \subseteq Attempts
      BY <2>9, <1>a DEF ContainReread
    <3> QED BY <2>9, <1>r, <1>g, <3>1 DEF ContainReread
  <2> QED BY <1>1, <2>1, <2>2, <2>3, <2>4, <2>5, <2>6, <2>7, <2>8, <2>9 DEF CallerStep
<1>2. CASE EnvironmentStep
  <2>1. ASSUME NEW a \in Attempts, AODeliver(a)
        PROVE  CallTypeOK'
    BY <2>1, MaxSendsAssumption DEF AODeliver
  <2> QED
    BY <1>2, <2>1
       DEF EnvironmentStep, RecoverPreSend, MoveTask, ReviseContract
<1>3. CASE SweepStep \/ PollStep
  BY <1>3 DEF SweepStep, PollStep, RunStart, RunClassify, RunEscalate, RunReread, RunComplete,
     RunFails, PollStart, PollClassify, PollFails
<1>4. CASE ProcessCrash
  BY <1>4 DEF ProcessCrash, Crash
<1>5. CASE UNCHANGED allVars
  BY <1>5
<1> QED BY <1>1, <1>2, <1>3, <1>4, <1>5 DEF RecoveryNext, SagaStep

ObserverTypeOK ==
    /\ phase \in Phases
    /\ work \subseteq ExecutionRows
    /\ escalate \subseteq Attempts
    /\ owned \subseteq Attempts
    /\ poll \subseteq ExecutionRows

\* A snapshot only holds well-typed targets.
LEMMA SnapshotType ==
    ASSUME RowsTypeOK, NEW stages, NEW skipped, "NONE" \notin stages
    PROVE  ExecutionsAt(stages, skipped) \subseteq ExecutionRows
<1> SUFFICES ASSUME NEW a \in Attempts, Recoverable(a), stage[a] \in stages
             PROVE  Execution(a) \in ExecutionRows
  BY DEF ExecutionsAt
<1> QED BY DEF Execution, ExecutionRows, Recoverable, RowsTypeOK, DispatchStages

\* The observers keep their types.
LEMMA ObserverTypeStep ==
    ASSUME RecoveryTypeOK, [RecoveryNext]_allVars
    PROVE  ObserverTypeOK'
<1> USE DEF RecoveryTypeOK, TypeOK, ObserverTypeOK, Phases
<1>1. CASE SagaStep \/ UNCHANGED allVars
  BY <1>1 DEF SagaStep
<1>2. CASE RunStart
  BY <1>2, SnapshotType DEF RunStart, BlockedAttempts, OwnedAttempts
<1>3. CASE RunReread
  BY <1>3, SnapshotType DEF RunReread
<1>4. CASE PollStart
  BY <1>4, SnapshotType DEF PollStart
<1>5. CASE \/ \E x \in work : RunClassify(x)
           \/ \E a \in escalate : RunEscalate(a)
           \/ RunComplete
           \/ RunFails
  BY <1>5 DEF RunClassify, RunEscalate, RunComplete, RunFails
<1>6. CASE (\E x \in poll : PollClassify(x)) \/ PollFails
  BY <1>6 DEF PollClassify, PollFails
<1>7. CASE ProcessCrash
  BY <1>7 DEF ProcessCrash
<1> QED BY <1>1, <1>2, <1>3, <1>4, <1>5, <1>6, <1>7 DEF RecoveryNext, SweepStep, PollStep

\* Every step keeps the types.
LEMMA TypeStep ==
    ASSUME RecoveryTypeOK, CallersHoldIntent, [RecoveryNext]_allVars
    PROVE  RecoveryTypeOK'
BY RowsTypeStep, CallTypeStep, ObserverTypeStep
   DEF RecoveryTypeOK, TypeOK, CallTypeOK, ObserverTypeOK

-----------------------------------------------------------------------------
(* Preservation.                                                           *)

\* The invariant holds initially.
LEMMA InitInv == RecoveryInit => SagaInv
<1> SUFFICES ASSUME RecoveryInit PROVE SagaInv
  OBVIOUS
<1> USE DEF RecoveryInit, Init
<1>1. RowsTypeOK
  BY MaxAttemptsAssumption, MaxGenAssumption, MaxRestoresAssumption
     DEF RowsTypeOK, TaskStates, ContractStates, AttemptStates, Dispositions, QuarantineStates,
         Generations, DispatchStages, DispatchResolutions, BudgetBases, SessionStatuses,
         RestoreRows, NoRestore, RestoreStages, RestoreResolutions, ProvisionStages
<1>2. RecoveryTypeOK
  BY <1>1, MaxSendsAssumption DEF RecoveryTypeOK, TypeOK, PCs, Phases
<1>3. RowInv
  BY DEF RowInv, AttemptsExist, CurrentIsOpen, UnknownIsClosed, HeldNeverSent, OneActiveLane,
     Attempts, Executing, ActiveLane, PreSendHolds
<1>4. WireFollowsIntent /\ CallersHoldIntent /\ ConfirmedIsReal
  BY DEF WireFollowsIntent, CallersHoldIntent, ConfirmedIsReal
<1> QED BY <1>2, <1>3, <1>4 DEF SagaInv

\* Callers that only return, move on or wait keep CallersHoldIntent, as long as
\* no intent is withdrawn and nothing is sent.
LEMMA RelaxInv ==
    ASSUME CallersHoldIntent, CallersRelax, sends' = sends,
           \A b \in Attempts :
               stage[b] \in { "SEND_REQUESTED", "SEND_CONFIRMED" } =>
                   stage'[b] \in { "SEND_REQUESTED", "SEND_CONFIRMED" }
    PROVE  CallersHoldIntent'
<1>1. \A c \in Callers : pc'[c] # "idle" => att'[c] \in Attempts
  BY DEF CallersHoldIntent, CallersRelax
<1>2. \A c \in Callers :
        pc'[c] \in { "send", "await", "contain", "d5" } =>
            /\ pc[c] \in { "send", "await", "contain", "d5" }
            /\ att'[c] = att[c]
  BY DEF CallersRelax
<1>3. \A c \in Callers :
        pc'[c] \in { "send", "await", "contain", "d5" } =>
            stage'[att'[c]] \in { "SEND_REQUESTED", "SEND_CONFIRMED" }
  <2> SUFFICES ASSUME NEW c \in Callers, pc'[c] \in { "send", "await", "contain", "d5" }
               PROVE  stage'[att[c]] \in { "SEND_REQUESTED", "SEND_CONFIRMED" }
    BY <1>2
  <2>1. att[c] \in Attempts /\ stage[att[c]] \in { "SEND_REQUESTED", "SEND_CONFIRMED" }
    BY <1>2 DEF CallersHoldIntent
  <2> QED BY <2>1
<1>4. \A c \in Callers : pc'[c] = "send" => pc[c] = "send" /\ att'[c] = att[c]
  BY DEF CallersRelax
<1>5. \A c \in Callers : pc'[c] = "send" => sends'[att'[c]] = 0
  BY <1>4 DEF CallersHoldIntent
<1>6. \A c, d \in Callers :
        pc'[c] = "send" /\ pc'[d] = "send" /\ att'[c] = att'[d] => c = d
  BY <1>4 DEF CallersHoldIntent
<1> QED BY <1>1, <1>3, <1>5, <1>6 DEF CallersHoldIntent

\* Quiet steps keep the invariant.
LEMMA QuietInv ==
    ASSUME SagaInv, QuietStep
    PROVE  RowInv' /\ WireFollowsIntent' /\ CallersHoldIntent' /\ ConfirmedIsReal'
<1> USE DEF SagaInv, RecoveryTypeOK, TypeOK, QuietStep
<1>1. RowInv'
  BY QuietRowInv
<1>2. WireFollowsIntent'
  BY QuietStages DEF WireFollowsIntent
<1>3. CallersHoldIntent'
  BY QuietStages, RelaxInv
<1>4. ConfirmedIsReal'
  BY QuietStages DEF ConfirmedIsReal, RowsTypeOK
<1> QED BY <1>1, <1>2, <1>3, <1>4

\* DispatchReady keeps it: the attempt it opens is new and the lane was free.
LEMMA PrepareInv ==
    ASSUME SagaInv, NEW c \in Callers, NEW t \in Tasks, DispatchReady(c, t)
    PROVE  RowInv' /\ WireFollowsIntent' /\ CallersHoldIntent' /\ ConfirmedIsReal'
<1> DEFINE a == NextAttempt(t)
<1> USE DEF SagaInv, RecoveryTypeOK, TypeOK
<1>p. PrepareBoundDispatch(t)
  BY DEF DispatchReady
<1>a. a \in Attempts /\ a[1] = t /\ a[2] = currentAttempt[t] + 1
  BY <1>p, NextAttemptExists DEF PrepareBoundDispatch, BindAttempt
<1>n. attemptState[a] = "NONE" /\ stage[a] = "NONE"
  BY <1>a DEF RowInv, AttemptsExist, RowsTypeOK
<1>e. \A b \in Attempts : b[1] = t /\ b[2] = currentAttempt[t] + 1 => b = a
  BY <1>a DEF Attempts
<1>r. /\ taskState' = [taskState EXCEPT ![t] = "DISPATCHED"]
      /\ currentAttempt' = [currentAttempt EXCEPT ![t] = currentAttempt[t] + 1]
      /\ attemptState' = [attemptState EXCEPT ![a] = "OPEN"]
      /\ stage' = [stage EXCEPT ![a] = "DISPATCH_BOUND"]
      /\ UNCHANGED <<disposition, quarantine, resolution, budget, sessionQuarantine>>
      /\ UNCHANGED <<sends, delivered, acked>>
      /\ ~LaneBusy(t)
  BY <1>p DEF PrepareBoundDispatch, BindAttempt, DispatchReady
<1> HIDE DEF a
<1>1. AttemptsExist'
  <2> SUFFICES ASSUME NEW b \in Attempts
               PROVE  /\ attemptState'[b] = "NONE" <=> currentAttempt'[b[1]] < b[2]
                      /\ attemptState'[b] = "NONE" <=> stage'[b] = "NONE"
    BY DEF AttemptsExist
  <2>1. CASE b = a
    BY <2>1, <1>a, <1>r DEF RowsTypeOK
  <2>2. CASE b # a
    BY <2>2, <1>a, <1>e, <1>r, TaskOf DEF RowInv, AttemptsExist, RowsTypeOK, Attempts
  <2> QED BY <2>1, <2>2
<1>2. CurrentIsOpen'
  <2>1. \A u \in Tasks :
           taskState'[u] \in {"DISPATCHED"} \cup Executing => currentAttempt'[u] > 0
    BY <1>r DEF RowInv, CurrentIsOpen, RowsTypeOK
  <2>2. ASSUME NEW b \in Attempts, currentAttempt'[b[1]] = b[2]
        PROVE  /\ taskState'[b[1]] = "DISPATCHED" => attemptState'[b] = "OPEN"
               /\ taskState'[b[1]] \in Executing =>
                     attemptState'[b] = "OPEN" /\ stage'[b] = "SEND_CONFIRMED"
    <3>1. CASE b[1] = t
      BY <3>1, <2>2, <1>a, <1>e, <1>r DEF RowsTypeOK, Executing
    <3>2. CASE b[1] # t
      BY <3>2, <2>2, <1>a, <1>r, TaskOf DEF RowInv, CurrentIsOpen, RowsTypeOK
    <3> QED BY <3>1, <3>2
  <2> QED BY <2>1, <2>2 DEF CurrentIsOpen
<1>3. UnknownIsClosed'
  BY <1>a, <1>n, <1>r DEF RowInv, UnknownIsClosed, RowsTypeOK
<1>4. HeldNeverSent'
  BY <1>a, <1>n, <1>r DEF RowInv, HeldNeverSent, RowsTypeOK
<1>5. OneActiveLane'
  BY <1>r DEF RowInv, OneActiveLane, LaneBusy, RowsTypeOK
<1>6. WireFollowsIntent'
  BY <1>a, <1>n, <1>r DEF WireFollowsIntent, RowsTypeOK
<1>7. CallersHoldIntent'
  <2>1. CallersRelax
    BY <1>a DEF DispatchReady, CallersRelax, a
  <2>2. \A b \in Attempts :
           stage[b] \in { "SEND_REQUESTED", "SEND_CONFIRMED" } =>
               stage'[b] \in { "SEND_REQUESTED", "SEND_CONFIRMED" }
    BY <1>a, <1>n, <1>r DEF RowsTypeOK
  <2> QED BY <2>1, <2>2, <1>r, RelaxInv
<1>8. ConfirmedIsReal'
  BY <1>a, <1>n, <1>r DEF ConfirmedIsReal, RowsTypeOK
<1> QED BY <1>1, <1>2, <1>3, <1>4, <1>5, <1>6, <1>7, <1>8 DEF RowInv

\* RequestSend keeps it: nobody else holds this intent, and nothing was sent.
LEMMA RequestInv ==
    ASSUME SagaInv, NEW c \in Callers, RequestSend(c)
    PROVE  RowInv' /\ WireFollowsIntent' /\ CallersHoldIntent' /\ ConfirmedIsReal'
<1> USE DEF SagaInv, RecoveryTypeOK, TypeOK
<1>a. att[c] \in Attempts
  BY DEF CallersHoldIntent, RequestSend
<1>r. /\ stage[att[c]] = "DISPATCH_BOUND"
      /\ disposition[att[c]] = NULL
      /\ stage' = [stage EXCEPT ![att[c]] = "SEND_REQUESTED"]
      /\ UNCHANGED <<taskVars, attemptVars, resolution, budget, sessionVars>>
      /\ UNCHANGED <<sends, delivered, acked>>
  BY DEF RequestSend, RecordSendRequested
<1>1. AttemptsExist'
  BY <1>a, <1>r DEF RowInv, AttemptsExist, RowsTypeOK
<1>2. CurrentIsOpen'
  BY <1>a, <1>r DEF RowInv, CurrentIsOpen, RowsTypeOK
<1>3. UnknownIsClosed' /\ HeldNeverSent' /\ OneActiveLane'
  BY <1>a, <1>r DEF RowInv, UnknownIsClosed, HeldNeverSent, OneActiveLane, RowsTypeOK
<1>4. WireFollowsIntent'
  BY <1>a, <1>r DEF WireFollowsIntent, RowsTypeOK
<1>5. CallersHoldIntent'
  <2>1. sends[att[c]] = 0
    <3>1. ~(sends[att[c]] > 0) /\ sends[att[c]] \in 0 .. MaxSends
      BY <1>a, <1>r DEF WireFollowsIntent
    <3> QED BY <3>1, MaxSendsAssumption
  <2>2. \A d \in Callers : pc[d] = "send" => att[d] # att[c]
    BY <1>r DEF CallersHoldIntent
  <2>3. CASE Goto(c, "send")
    BY <2>1, <2>2, <2>3, <1>a, <1>r DEF CallersHoldIntent, Goto, RowsTypeOK
  <2>4. CASE Return(c)
    BY <2>4, <1>a, <1>r DEF CallersHoldIntent, Return, RowsTypeOK
  <2> QED BY <2>3, <2>4 DEF RequestSend
<1>6. ConfirmedIsReal'
  BY <1>a, <1>r DEF ConfirmedIsReal, RowsTypeOK
<1> QED BY <1>1, <1>2, <1>3, <1>4, <1>5, <1>6 DEF RowInv

\* What relates the rows depends on the rows only.
LEMMA RowInvUnchanged ==
    ASSUME RowInv, UNCHANGED rows
    PROVE  RowInv'
BY DEF RowInv, AttemptsExist, CurrentIsOpen, UnknownIsClosed, HeldNeverSent, OneActiveLane

\* DispatchTaskContract keeps it: the one caller at "send" sends the first message.
LEMMA PostInv ==
    ASSUME SagaInv, NEW c \in Callers, DispatchTaskContract(c)
    PROVE  RowInv' /\ WireFollowsIntent' /\ CallersHoldIntent' /\ ConfirmedIsReal'
<1> USE DEF SagaInv, RecoveryTypeOK, TypeOK, DispatchTaskContract
<1>a. /\ att[c] \in Attempts
      /\ sends[att[c]] = 0
      /\ stage[att[c]] \in { "SEND_REQUESTED", "SEND_CONFIRMED" }
      /\ \A d \in Callers : pc[d] = "send" /\ att[d] = att[c] => d = c
  BY DEF CallersHoldIntent
<1>s. sends' = [sends EXCEPT ![att[c]] = 1]
  BY <1>a
<1>1. RowInv'
  BY RowInvUnchanged
<1>2. WireFollowsIntent'
  BY <1>a, <1>s DEF WireFollowsIntent
<1>3. CallersHoldIntent'
  BY <1>a, <1>s DEF CallersHoldIntent, Goto
<1>4. ConfirmedIsReal'
  BY DEF ConfirmedIsReal
<1> QED BY <1>1, <1>2, <1>3, <1>4

\* ConfirmSend keeps it: AO has accepted the message.
LEMMA ConfirmInv ==
    ASSUME SagaInv, NEW c \in Callers, ConfirmSend(c)
    PROVE  RowInv' /\ WireFollowsIntent' /\ CallersHoldIntent' /\ ConfirmedIsReal'
<1> USE DEF SagaInv, RecoveryTypeOK, TypeOK
<1>a. att[c] \in Attempts
  BY DEF CallersHoldIntent, ConfirmSend
<1>r. /\ stage[att[c]] = "SEND_REQUESTED"
      /\ taskState[att[c][1]] = "DISPATCHED"
      /\ attemptState[att[c]] = "OPEN"
      /\ delivered[att[c]] > 0
      /\ resolution[att[c]] = NULL
      /\ stage' = [stage EXCEPT ![att[c]] = "SEND_CONFIRMED"]
      /\ budget' = [budget EXCEPT ![att[c]] = "SEND_CONFIRMATION_ATOMIC"]
      /\ UNCHANGED <<taskVars, attemptVars, resolution, sessionVars>>
      /\ UNCHANGED <<sends, delivered>>
  BY DEF ConfirmSend, RecordSendConfirmed, CurrentOpen
<1>1. AttemptsExist'
  BY <1>a, <1>r DEF RowInv, AttemptsExist, RowsTypeOK
<1>2. CurrentIsOpen'
  BY <1>a, <1>r DEF RowInv, CurrentIsOpen, RowsTypeOK
<1>3. UnknownIsClosed' /\ HeldNeverSent' /\ OneActiveLane'
  BY <1>a, <1>r DEF RowInv, UnknownIsClosed, HeldNeverSent, OneActiveLane, RowsTypeOK
<1>4. WireFollowsIntent'
  BY <1>a, <1>r DEF WireFollowsIntent, RowsTypeOK
<1>5. CallersHoldIntent'
  <2>1. CallersRelax
    BY ReturnRelaxes, GotoRelaxes DEF ConfirmSend
  <2>2. \A b \in Attempts :
           stage[b] \in { "SEND_REQUESTED", "SEND_CONFIRMED" } =>
               stage'[b] \in { "SEND_REQUESTED", "SEND_CONFIRMED" }
    BY <1>a, <1>r DEF RowsTypeOK
  <2> QED BY <2>1, <2>2, <1>r, RelaxInv
<1>6. ConfirmedIsReal'
  <2>1. acked' \subseteq acked \cup {att[c]}
    BY DEF ConfirmSend
  <2> QED BY <2>1, <1>a, <1>r DEF ConfirmedIsReal, RowsTypeOK
<1> QED BY <1>1, <1>2, <1>3, <1>4, <1>5, <1>6 DEF RowInv

\* ContainReread keeps it: it acknowledges a confirmed row only.
LEMMA RereadInv ==
    ASSUME SagaInv, NEW c \in Callers, ContainReread(c)
    PROVE  RowInv' /\ WireFollowsIntent' /\ CallersHoldIntent' /\ ConfirmedIsReal'
<1> USE DEF SagaInv, RecoveryTypeOK, TypeOK
<1>1. RowInv'
  BY RowInvUnchanged DEF ContainReread
<1>2. WireFollowsIntent'
  BY DEF WireFollowsIntent, ContainReread
<1>3. CallersHoldIntent'
  <2>1. CallersRelax
    BY ReturnRelaxes, GotoRelaxes DEF ContainReread
  <2> QED BY <2>1, RelaxInv DEF ContainReread
<1>4. ConfirmedIsReal'
  BY DEF ConfirmedIsReal, ContainReread
<1> QED BY <1>1, <1>2, <1>3, <1>4

\* AODeliver keeps it: only what was sent is accepted.
LEMMA DeliverInv ==
    ASSUME SagaInv, NEW a \in Attempts, AODeliver(a)
    PROVE  RowInv' /\ WireFollowsIntent' /\ CallersHoldIntent' /\ ConfirmedIsReal'
<1> USE DEF SagaInv, RecoveryTypeOK, TypeOK, AODeliver
<1>1. RowInv'
  BY RowInvUnchanged
<1>2. WireFollowsIntent'
  BY MaxSendsAssumption DEF WireFollowsIntent
<1>3. CallersHoldIntent'
  BY DEF CallersHoldIntent
<1>4. ConfirmedIsReal'
  BY MaxSendsAssumption DEF ConfirmedIsReal
<1> QED BY <1>1, <1>2, <1>3, <1>4

\* The invariant is inductive.
LEMMA StepInv ==
    ASSUME SagaInv, [RecoveryNext]_allVars
    PROVE  SagaInv'
<1>1. RecoveryTypeOK'
  BY TypeStep DEF SagaInv
<1>2. QuietStep \/ LoudStep
  BY QuietOrLoud DEF SagaInv
<1>3. RowInv' /\ WireFollowsIntent' /\ CallersHoldIntent' /\ ConfirmedIsReal'
  BY <1>2, QuietInv, PrepareInv, RequestInv, PostInv, ConfirmInv, RereadInv, DeliverInv
     DEF LoudStep
<1> QED BY <1>1, <1>3 DEF SagaInv

-----------------------------------------------------------------------------
(* Theorems.                                                               *)

\* The inductive invariant holds in every reachable state.
THEOREM SagaInvariant == RecoverySpec => []SagaInv
<1>1. RecoveryInit => SagaInv
  BY InitInv
<1>2. SagaInv /\ [RecoveryNext]_allVars => SagaInv'
  BY StepInv
<1> QED BY <1>1, <1>2, PTL DEF RecoverySpec

\* Rows, callers, wire and snapshots stay well typed.
THEOREM TypeCorrect == RecoverySpec => []RecoveryTypeOK
<1>1. SagaInv => RecoveryTypeOK
  BY DEF SagaInv
<1> QED BY <1>1, SagaInvariant, PTL

\* Coordinator.Dispatch never sends an instruction twice, nor without intent.
THEOREM SendsOnce == RecoverySpec => []SendDiscipline
<1>1. SagaInv => SendDiscipline
  BY DEF SagaInv, WireFollowsIntent, SendDiscipline
<1> QED BY <1>1, SagaInvariant, PTL

\* A nil result and a SEND_CONFIRMED row stand for an accepted message.
THEOREM ConfirmationIsReal == RecoverySpec => []ConfirmedIsReal
<1>1. SagaInv => ConfirmedIsReal
  BY DEF SagaInv
<1> QED BY <1>1, SagaInvariant, PTL

\* No step of dispatch or recovery opens a gate that an unknown delivery closed.
LEMMA ContainedStep ==
    ASSUME SagaInv, UnknownIsContained, [RecoveryNext]_allVars
    PROVE  UnknownIsContained'
<1> USE DEF SagaInv, RecoveryTypeOK, TypeOK, RowsTypeOK
<1>1. SagaInv'
  BY StepInv
<1>2. UnknownIsClosed'
  BY <1>1 DEF RowInv
<1>3. \A a \in Attempts :
        resolution'[a] = "DELIVERY_OUTCOME_UNKNOWN" =>
            quarantine'[a] = "QUARANTINED" /\ sessionQuarantine' = "QUARANTINED"
  <2>1. CASE QuietStep
    <3>1. CASE \/ UNCHANGED rows
               \/ \E t \in Tasks : InsertTaskContract(t)
               \/ \E t \in Tasks, to \in TaskStates : TransitionTask(t, to)
      BY <3>1 DEF UnknownIsContained, InsertTaskContract, TransitionTask
    <3>2. CASE \E b \in Attempts : RecordUnknownDelivery(b) \/ AtomicAttemptClosureTransition(b)
      BY <3>2 DEF UnknownIsContained, RecordUnknownDelivery, AtomicAttemptClosureTransition
    <3>3. CASE \E b \in Attempts, from \in TaskStates, outcome \in Outcomes :
                 Closes(b, from, outcome)
      BY <3>3 DEF UnknownIsContained, Closes
    <3>4. CASE \E b \in Attempts, d \in Dispositions, state \in TaskStates :
                 Annotates(b, d, state)
      BY <3>4 DEF UnknownIsContained, Annotates
    <3> QED BY <2>1, <3>1, <3>2, <3>3, <3>4 DEF QuietStep, QuietTx
  <2>2. CASE LoudStep
    BY <2>2 DEF UnknownIsContained, LoudStep, DispatchReady, PrepareBoundDispatch, BindAttempt,
       RequestSend, RecordSendRequested, ConfirmSend, RecordSendConfirmed, DispatchTaskContract,
       ContainReread, AODeliver
  <2> QED BY <2>1, <2>2, QuietOrLoud
<1> QED BY <1>2, <1>3 DEF UnknownIsContained, UnknownIsClosed

\* RecordUnknownDelivery's containment is complete and stays complete.
THEOREM UnknownStaysContained == RecoverySpec => []UnknownIsContained
<1>1. RecoveryInit => UnknownIsContained
  BY DEF RecoveryInit, Init, UnknownIsContained
<1>2. SagaInv /\ UnknownIsContained /\ [RecoveryNext]_allVars => UnknownIsContained'
  BY ContainedStep
<1> QED BY <1>1, <1>2, SagaInvariant, PTL DEF RecoverySpec

\* Holds and send intents exclude each other.
THEOREM HoldsStopSends == RecoverySpec => []HeldNeverSent
<1>1. SagaInv => HeldNeverSent
  BY DEF SagaInv, RowInv
<1> QED BY <1>1, SagaInvariant, PTL

\* One task of the Pair at a time is in the lane.
THEOREM LaneIsExclusive == RecoverySpec => []OneActiveLane
<1>1. SagaInv => OneActiveLane
  BY DEF SagaInv, RowInv
<1> QED BY <1>1, SagaInvariant, PTL

\* The task of an executing attempt names an open attempt with its operation.
LEMMA InvIsConsistent == SagaInv => PersistedConsistent
<1>1. ASSUME SagaInv, NEW t \in Tasks,
             taskState[t] \in { "DISPATCHED", "RUNNING", "BLOCKED" }
      PROVE  /\ currentAttempt[t] > 0
             /\ attemptState[<<t, currentAttempt[t]>>] = "OPEN"
             /\ stage[<<t, currentAttempt[t]>>] # "NONE"
             /\ taskState[t] \in { "RUNNING", "BLOCKED" } =>
                   stage[<<t, currentAttempt[t]>>] = "SEND_CONFIRMED"
  <2> DEFINE a == <<t, currentAttempt[t]>>
  <2>1. currentAttempt[t] > 0
    BY <1>1 DEF SagaInv, RowInv, CurrentIsOpen, Executing
  <2>2. a \in Attempts /\ a[1] = t /\ a[2] = currentAttempt[t]
    BY <1>1, <2>1, MaxAttemptsAssumption DEF SagaInv, RecoveryTypeOK, TypeOK, RowsTypeOK, Attempts
  <2> HIDE DEF a
  <2>3. /\ attemptState[a] = "OPEN"
        /\ taskState[t] \in { "RUNNING", "BLOCKED" } => stage[a] = "SEND_CONFIRMED"
    BY <1>1, <2>2 DEF SagaInv, RowInv, CurrentIsOpen, Executing
  <2>4. stage[a] # "NONE"
    BY <1>1, <2>2, <2>3 DEF SagaInv, RowInv, AttemptsExist
  <2> QED BY <2>1, <2>3, <2>4 DEF a
<1> QED BY <1>1 DEF PersistedConsistent

\* ListRecoverySnapshot never finds the database inconsistent.
THEOREM SnapshotNeverRefused == RecoverySpec => []PersistedConsistent
BY SagaInvariant, InvIsConsistent, PTL

-----------------------------------------------------------------------------
(* What a step may not do.                                                 *)

\* No step touches the outcome columns of a closed attempt.
LEMMA HistoryFrozen ==
    ASSUME SagaInv, QuietStep \/ LoudStep, NEW a \in Attempts, attemptState[a] = "ENDED"
    PROVE  /\ attemptState'[a] = "ENDED"
           /\ disposition'[a] = disposition[a]
           /\ stage'[a] = stage[a]
           /\ resolution'[a] = resolution[a]
           /\ budget'[a] = budget[a]
<1> USE DEF SagaInv, RecoveryTypeOK, TypeOK, RowsTypeOK
<1>2. CASE QuietStep
  <2>1. CASE \/ UNCHANGED rows
             \/ \E t \in Tasks : InsertTaskContract(t)
             \/ \E t \in Tasks, to \in TaskStates : TransitionTask(t, to)
    BY <2>1 DEF InsertTaskContract, TransitionTask
  <2>2. CASE \E b \in Attempts : RecordUnknownDelivery(b) \/ AtomicAttemptClosureTransition(b)
    BY <2>2 DEF RecordUnknownDelivery, AtomicAttemptClosureTransition, CurrentOpen
  <2>3. CASE \E b \in Attempts, from \in TaskStates, outcome \in Outcomes : Closes(b, from, outcome)
    BY <2>3 DEF Closes, CurrentOpen
  <2>4. CASE \E b \in Attempts, d \in Dispositions, state \in TaskStates : Annotates(b, d, state)
    BY <2>4 DEF Annotates
  <2> QED BY <1>2, <2>1, <2>2, <2>3, <2>4 DEF QuietStep, QuietTx
<1>3. ASSUME NEW c \in Callers, NEW t \in Tasks, DispatchReady(c, t)
      PROVE  attemptState[NextAttempt(t)] = "NONE"
  <2>1. currentAttempt[t] < MaxAttempts
    BY <1>3 DEF DispatchReady, PrepareBoundDispatch
  <2>2. /\ NextAttempt(t) \in Attempts
        /\ NextAttempt(t)[1] = t
        /\ NextAttempt(t)[2] = currentAttempt[t] + 1
    BY <2>1, NextAttemptExists
  <2>3. currentAttempt[NextAttempt(t)[1]] < NextAttempt(t)[2]
    BY <2>2
  <2> QED BY <2>2, <2>3 DEF RowInv, AttemptsExist
<1>4. ASSUME NEW c \in Callers, NEW t \in Tasks, DispatchReady(c, t)
      PROVE  /\ attemptState'[a] = "ENDED"
             /\ stage'[a] = stage[a]
             /\ UNCHANGED <<disposition, resolution, budget>>
  BY <1>3, <1>4 DEF DispatchReady, PrepareBoundDispatch, BindAttempt
<1>5. CASE \E c \in Callers : RequestSend(c) \/ ConfirmSend(c)
  BY <1>5 DEF RequestSend, ConfirmSend, RecordSendRequested, RecordSendConfirmed, CurrentOpen
<1>6. CASE \/ \E c \in Callers : DispatchTaskContract(c) \/ ContainReread(c)
           \/ \E b \in Attempts : AODeliver(b)
  BY <1>6 DEF DispatchTaskContract, ContainReread, AODeliver
<1> QED BY <1>2, <1>4, <1>5, <1>6 DEF LoudStep

\* A closed attempt is history, whatever late callers and observers do.
THEOREM HistoryIsFinal == RecoverySpec => ClosedIsFinal
<1>1. SagaInv /\ [RecoveryNext]_allVars =>
        [ \A a \in Attempts :
            attemptState[a] = "ENDED" =>
                /\ attemptState'[a] = "ENDED"
                /\ disposition'[a] = disposition[a]
                /\ stage'[a] = stage[a]
                /\ resolution'[a] = resolution[a]
                /\ budget'[a] = budget[a] ]_vars
  BY HistoryFrozen, QuietOrLoud DEF SagaInv
<1> QED BY <1>1, SagaInvariant, PTL DEF RecoverySpec, ClosedIsFinal

\* Without an operator, no step lifts a protocol hold from an open attempt.
LEMMA HoldStays ==
    ASSUME SagaInv, [RecoveryNext]_allVars, NEW a \in Attempts,
           disposition[a] = "PRE_SEND_PROTOCOL_UNVERIFIED", ~OperatorVerified
    PROVE  disposition'[a] = disposition[a] \/ attemptState'[a] = "ENDED"
<1> USE DEF SagaInv, RecoveryTypeOK, TypeOK, RowsTypeOK
<1>1. QuietStep \/ LoudStep
  BY QuietOrLoud
<1>2. CASE QuietStep
  <2>1. CASE \/ UNCHANGED rows
             \/ \E t \in Tasks : InsertTaskContract(t)
             \/ \E t \in Tasks, to \in TaskStates : TransitionTask(t, to)
    BY <2>1 DEF InsertTaskContract, TransitionTask
  <2>2. CASE \E b \in Attempts : RecordUnknownDelivery(b) \/ AtomicAttemptClosureTransition(b)
    BY <2>2 DEF RecordUnknownDelivery, AtomicAttemptClosureTransition, CurrentOpen
  <2>3. CASE \E b \in Attempts, from \in TaskStates, outcome \in Outcomes : Closes(b, from, outcome)
    BY <2>3 DEF Closes, CurrentOpen
  <2>4. CASE \E b \in Attempts, d \in Dispositions, state \in TaskStates : Annotates(b, d, state)
    BY <2>4 DEF Annotates
  <2> QED BY <1>2, <2>1, <2>2, <2>3, <2>4 DEF QuietStep, QuietTx
<1>3. CASE LoudStep
  BY <1>3 DEF LoudStep, DispatchReady, PrepareBoundDispatch, BindAttempt, RequestSend, RecordSendRequested,
     ConfirmSend, RecordSendConfirmed, DispatchTaskContract, ContainReread, AODeliver
<1> QED BY <1>1, <1>2, <1>3

\* With the host's principal hook unwired, a protocol hold ends only with its
\* attempt.
THEOREM ProtocolHoldIsSticky == RecoverySpec => ProtocolHoldSticky
<1>1. SagaInv /\ [RecoveryNext]_allVars =>
        [ \A a \in Attempts :
            disposition[a] = "PRE_SEND_PROTOCOL_UNVERIFIED" /\ ~OperatorVerified =>
                \/ disposition'[a] = disposition[a]
                \/ attemptState'[a] = "ENDED" ]_vars
  BY HoldStays
<1> QED BY <1>1, SagaInvariant, PTL DEF RecoverySpec, ProtocolHoldSticky

-----------------------------------------------------------------------------
(* Snapshots.                                                              *)

Targets == work \cup poll

\* Sweep and poll tick exclude each other.  Every target is an attempt that
\* exists, one per task; while a DISPATCHED target is open nobody else starts it,
\* and a RUNNING target that is no longer current belongs to a task not RUNNING.
SnapshotInv ==
    /\ phase \in { "closed", "ready" } => work = {}
    /\ poll # {} => phase = "ready"
    /\ \A x \in Targets : attemptState[x.att] # "NONE"
    /\ \A x, y \in Targets : x.att[1] = y.att[1] => x = y
    /\ \A x \in Targets :
          attemptState[x.att] = "OPEN" =>
              /\ x.state = "DISPATCHED" =>
                    CurrentOpen(x.att) /\ taskState[x.att[1]] = "DISPATCHED"
              /\ x.state = "RUNNING" =>
                    CurrentOpen(x.att) \/ taskState[x.att[1]] # "RUNNING"

\* Attempts never disappear or reopen, and the current attempt of a dispatched
\* task stays so until it starts to run or is closed.
LEMMA AttemptsMove ==
    ASSUME SagaInv, [RecoveryNext]_allVars, NEW a \in Attempts, attemptState[a] # "NONE"
    PROVE  /\ attemptState'[a] # "NONE"
           /\ attemptState'[a] = "OPEN" => attemptState[a] = "OPEN"
           /\ currentAttempt[a[1]] = a[2] =>
                 currentAttempt'[a[1]] = a[2] \/ taskState'[a[1]] = "DISPATCHED"
           /\ CurrentOpen(a) /\ taskState[a[1]] = "DISPATCHED" /\ attemptState'[a] = "OPEN" =>
                 CurrentOpen(a)' /\ taskState'[a[1]] \in { "DISPATCHED", "RUNNING" }
<1> USE DEF SagaInv, RecoveryTypeOK, TypeOK, RowsTypeOK, CurrentOpen
<1>t. a[1] \in Tasks
  BY TaskOf
<1>1. CASE QuietStep
  <2>1. CASE \/ UNCHANGED rows
             \/ \E t \in Tasks : InsertTaskContract(t)
    BY <2>1 DEF InsertTaskContract
  <2>2. ASSUME NEW t \in Tasks, NEW to \in TaskStates, <<taskState[t], to>> \in Edges,
               TransitionTask(t, to)
        PROVE  taskState[t] # "DISPATCHED"
    BY <2>2, EdgesAssumption DEF TransitionTask, SagaEdges, CanTransition, AllowedTransitions
  <2>3. CASE \E t \in Tasks, to \in TaskStates :
               <<taskState[t], to>> \in Edges /\ TransitionTask(t, to)
    BY <2>2, <2>3, <1>t DEF TransitionTask
  <2>4. \A b \in Attempts : CurrentOpen(b) /\ currentAttempt[a[1]] = a[2] /\ b[1] = a[1] => b = a
    BY AttemptIdentity
  <2>5. CASE \E b \in Attempts : RecordUnknownDelivery(b) \/ AtomicAttemptClosureTransition(b)
    BY <2>4, <2>5, <1>t DEF RecordUnknownDelivery, AtomicAttemptClosureTransition
  <2>6. CASE \E b \in Attempts, from \in TaskStates, outcome \in Outcomes : Closes(b, from, outcome)
    BY <2>4, <2>6, <1>t DEF Closes
  <2>7. CASE \E b \in Attempts, d \in Dispositions, state \in TaskStates : Annotates(b, d, state)
    BY <2>7, <1>t DEF Annotates
  <2> QED BY <1>1, <2>1, <2>3, <2>5, <2>6, <2>7 DEF QuietStep, QuietTx
<1>2. ASSUME NEW c \in Callers, NEW t \in Tasks, DispatchReady(c, t)
      PROVE  /\ attemptState'[a] = attemptState[a]
             /\ currentAttempt[a[1]] = a[2] =>
                   currentAttempt'[a[1]] = a[2] \/ taskState'[a[1]] = "DISPATCHED"
             /\ taskState[a[1]] = "DISPATCHED" =>
                   UNCHANGED <<currentAttempt[a[1]], taskState[a[1]]>>
  <2>1. PrepareBoundDispatch(t)
    BY <1>2 DEF DispatchReady
  <2>2. /\ NextAttempt(t) \in Attempts
        /\ NextAttempt(t)[1] = t
        /\ NextAttempt(t)[2] = currentAttempt[t] + 1
    BY <2>1, NextAttemptExists DEF PrepareBoundDispatch
  <2>3. attemptState[NextAttempt(t)] = "NONE"
    BY <2>2 DEF RowInv, AttemptsExist
  <2> QED BY <2>1, <2>2, <2>3, <1>t DEF PrepareBoundDispatch, BindAttempt
<1>3. CASE \/ \E c \in Callers : \/ RequestSend(c)
                                 \/ ConfirmSend(c)
                                 \/ DispatchTaskContract(c)
                                 \/ ContainReread(c)
           \/ \E b \in Attempts : AODeliver(b)
  BY <1>3 DEF RequestSend, RecordSendRequested, ConfirmSend, RecordSendConfirmed,
     DispatchTaskContract, ContainReread, AODeliver
<1> QED BY <1>1, <1>2, <1>3, QuietOrLoud DEF LoudStep

\* Only an observer starts a task, with a target of its snapshot that is then
\* done with: no Dispatch call, operator or edge of the orchestrator does.
LEMMA OnlyObserversStart ==
    ASSUME SagaInv, SnapshotInv, [RecoveryNext]_allVars, NEW t \in Tasks,
           taskState[t] # "RUNNING", taskState'[t] = "RUNNING"
    PROVE  \E x \in Targets : x.att[1] = t /\ x \notin Targets' /\ CurrentOpen(x.att)
<1> USE DEF SagaInv, RecoveryTypeOK, TypeOK, RowsTypeOK
<1>1. ASSUME NEW x \in ExecutionRows, Classify(x)
      PROVE  x.att[1] = t /\ CurrentOpen(x.att)
  <2>1. x.att \in Attempts /\ x.att[1] \in Tasks
    BY TaskOf DEF ExecutionRows
  <2>2. CASE UNCHANGED rows
    BY <2>2
  <2>3. CASE RecordUnknownDelivery(x.att)
    BY <2>1, <2>3 DEF RecordUnknownDelivery
  <2>4. CASE \E o \in Observations : ClassifyPreSend(x, o)
    BY <2>1, <2>4 DEF ClassifyPreSend, RecordPreSendHold, AtomicTerminalTransition,
       RecordPreSendAdmissibilityRejected, ResolvePreSendHold
  <2>5. CASE \E o \in Observations, handoff \in BOOLEAN : ClassifyPostSend(x, o, handoff)
    BY <2>1, <2>5 DEF ClassifyPostSend, RecordPostSendOutage, ObservePostSend, SameExecution,
       ObserveTerminal, ObserveContinuing
  <2> QED BY <1>1, <2>2, <2>3, <2>4, <2>5 DEF Classify, ClassifyExecution
<1>2. CASE SagaStep
  <2>1. ASSUME NEW c \in Callers, CallerStep(c)
        PROVE  FALSE
    <3>1. pc[c] # "idle" => att[c] \in Attempts /\ att[c][1] \in Tasks
      BY TaskOf DEF CallersHoldIntent
    <3> QED
      BY <2>1, <3>1 DEF CallerStep, DispatchReady, PrepareBoundDispatch, DispatchRetry,
         GetWorkerStatus, PreSendHold, RecordPreSendHold, PreSendFailure, AtomicTerminalTransition,
         PreSendRejected, RecordPreSendAdmissibilityRejected, RequestSend, RecordSendRequested,
         DispatchFails, DispatchTaskContract, ConfirmSend, RecordSendConfirmed, SendFails,
         ContainReread, ContainUnknown, RecordUnknownDelivery
  <2>2. CASE EnvironmentStep
    <3>1. ASSUME NEW u \in Tasks, NEW to \in TaskStates, MoveTask(u, to)
          PROVE  to # "RUNNING"
      BY <3>1, EdgesAssumption
         DEF MoveTask, SagaEdges, AllowedTransitions
    <3>2. CASE \E u \in Tasks, to \in TaskStates : MoveTask(u, to)
      BY <3>1, <3>2 DEF MoveTask, TransitionTask
    <3> QED BY <2>2, <3>2 DEF EnvironmentStep, AODeliver, RecoverPreSend, ResolvePreSendHold,
            ReviseContract, InsertTaskContract
  <2> QED BY <1>2, <2>1, <2>2 DEF SagaStep
<1>3. ASSUME NEW x \in work, RunClassify(x)
      PROVE  x.att[1] = t /\ x \notin Targets' /\ CurrentOpen(x.att)
  BY <1>1, <1>3 DEF RunClassify, SnapshotInv, Targets
<1>4. ASSUME NEW x \in poll, PollClassify(x)
      PROVE  x.att[1] = t /\ x \notin Targets' /\ CurrentOpen(x.att)
  BY <1>1, <1>4 DEF PollClassify, SnapshotInv, Targets
<1>5. ASSUME NEW a \in escalate, RunEscalate(a)
      PROVE  FALSE
  <2>1. a \in Attempts /\ a[1] \in Tasks
    BY TaskOf
  <2> QED BY <1>5, <2>1 DEF RunEscalate, AtomicAttemptClosureTransition
<1>6. CASE \/ UNCHANGED vars
           \/ ProcessCrash
  BY <1>6 DEF ProcessCrash, Crash
<1> QED BY <1>2, <1>3, <1>4, <1>5, <1>6
        DEF RecoveryNext, SweepStep, PollStep, RunStart, RunReread, RunComplete, RunFails,
            PollStart, PollFails, Targets

\* What a snapshot holds when it is taken.
LEMMA FreshSnapshot ==
    ASSUME SagaInv, NEW stages, NEW skipped, NEW x \in ExecutionsAt(stages, skipped)
    PROVE  /\ x.att \in Attempts
           /\ CurrentOpen(x.att)
           /\ taskState[x.att[1]] = x.state
           /\ x = Execution(x.att)
BY DEF ExecutionsAt, Execution, Recoverable

\* Every step keeps SnapshotInv.
LEMMA SnapshotStep ==
    ASSUME SagaInv, SnapshotInv, [RecoveryNext]_allVars
    PROVE  SnapshotInv'
<1> USE DEF SagaInv, RecoveryTypeOK, TypeOK, RowsTypeOK
<1>1. /\ (phase \in { "closed", "ready" } => work = {})'
      /\ (poll # {} => phase = "ready")'
  BY DEF SnapshotInv, RecoveryNext, SagaStep, SweepStep, PollStep, ProcessCrash, RunStart,
     RunClassify, RunEscalate, RunReread, RunComplete, RunFails, PollStart, PollClassify, PollFails
<1>2. CASE Targets' \subseteq Targets
  <2> SUFFICES ASSUME NEW x \in Targets'
               PROVE  /\ attemptState'[x.att] # "NONE"
                      /\ attemptState'[x.att] = "OPEN" =>
                           /\ x.state = "DISPATCHED" =>
                                CurrentOpen(x.att)' /\ taskState'[x.att[1]] = "DISPATCHED"
                           /\ x.state = "RUNNING" =>
                                CurrentOpen(x.att)' \/ taskState'[x.att[1]] # "RUNNING"
    BY <1>1, <1>2 DEF SnapshotInv
  <2>1. /\ x \in Targets
        /\ x.att \in Attempts
        /\ x.att[1] \in Tasks
        /\ attemptState[x.att] # "NONE"
    BY <1>2, TaskOf DEF Targets, ExecutionRows, SnapshotInv
  <2>2. taskState[x.att[1]] # "RUNNING" => taskState'[x.att[1]] # "RUNNING"
    <3> SUFFICES ASSUME taskState[x.att[1]] # "RUNNING", taskState'[x.att[1]] = "RUNNING"
                 PROVE  FALSE
      OBVIOUS
    <3>1. PICK y \in Targets : y.att[1] = x.att[1] /\ y \notin Targets'
      BY <2>1, OnlyObserversStart
    <3> QED BY <2>1, <3>1 DEF SnapshotInv
  <2>3. attemptState'[x.att] # "NONE"
    BY <2>1, AttemptsMove
  <2>4. ASSUME attemptState'[x.att] = "OPEN", x.state = "DISPATCHED"
        PROVE  CurrentOpen(x.att)' /\ taskState'[x.att[1]] = "DISPATCHED"
    <3>1. CurrentOpen(x.att) /\ taskState[x.att[1]] = "DISPATCHED"
      BY <2>1, <2>4, AttemptsMove DEF SnapshotInv
    <3> QED BY <2>1, <2>2, <2>4, <3>1, AttemptsMove
  <2>5. ASSUME attemptState'[x.att] = "OPEN", x.state = "RUNNING"
        PROVE  CurrentOpen(x.att)' \/ taskState'[x.att[1]] # "RUNNING"
    <3>1. CurrentOpen(x.att) \/ taskState[x.att[1]] # "RUNNING"
      BY <2>1, <2>5, AttemptsMove DEF SnapshotInv
    <3> QED BY <2>1, <2>2, <2>5, <3>1, AttemptsMove DEF CurrentOpen
  <2> QED BY <2>3, <2>4, <2>5
<1>3. ASSUME UNCHANGED rows, NEW stages, NEW skipped, Targets' = ExecutionsAt(stages, skipped)
      PROVE  SnapshotInv'
  <2>1. \A x \in Targets' :
          /\ x.att \in Attempts
          /\ CurrentOpen(x.att)
          /\ taskState[x.att[1]] = x.state
          /\ x = Execution(x.att)
    BY <1>3, FreshSnapshot
  <2>2. \A x, y \in Targets' : x.att[1] = y.att[1] => x.att = y.att
    <3> SUFFICES ASSUME NEW x \in Targets', NEW y \in Targets', x.att[1] = y.att[1]
                 PROVE  x.att = y.att
      OBVIOUS
    <3>1. /\ x.att \in Attempts /\ currentAttempt[x.att[1]] = x.att[2]
          /\ y.att \in Attempts /\ currentAttempt[y.att[1]] = y.att[2]
      BY <2>1 DEF CurrentOpen
    <3> QED BY <3>1, AttemptIdentity
  <2>3. \A x, y \in Targets' : x.att[1] = y.att[1] => x = y
    BY <2>1, <2>2
  <2>4. \A x \in Targets' :
          /\ attemptState'[x.att] = "OPEN"
          /\ CurrentOpen(x.att)'
          /\ taskState'[x.att[1]] = x.state
    BY <1>3, <2>1 DEF CurrentOpen
  <2> QED BY <1>1, <2>3, <2>4 DEF SnapshotInv
<1>4. CASE RunStart \/ RunReread \/ PollStart
  BY <1>3, <1>4 DEF RunStart, RunReread, PollStart, Targets, SnapshotInv
<1>5. CASE ~(RunStart \/ RunReread \/ PollStart)
  <2>1. Targets' \subseteq Targets
    BY <1>5 DEF Targets, RecoveryNext, SagaStep, SweepStep, PollStep, ProcessCrash,
       RunClassify, RunEscalate, RunComplete, RunFails, PollClassify, PollFails
  <2> QED BY <1>2, <2>1
<1> QED BY <1>4, <1>5

\* An unchanged target is still the open, current, unresolved attempt it was
\* read as: what equality with the snapshot rests on in ObservePostSend.
THEOREM SnapshotSound == RecoverySpec => []SnapshotIsSound
<1>1. RecoveryInit => SnapshotInv
  BY DEF RecoveryInit, SnapshotInv, Targets
<1>2. SagaInv /\ SnapshotInv /\ [RecoveryNext]_allVars => SnapshotInv'
  BY SnapshotStep
<1>3. SagaInv /\ SnapshotInv => SnapshotIsSound
  <2> SUFFICES ASSUME SagaInv, SnapshotInv, NEW x \in work \cup poll
               PROVE  /\ attemptState[x.att] # "NONE"
                      /\ Execution(x.att) = x /\ attemptState[x.att] = "OPEN" =>
                            /\ currentAttempt[x.att[1]] = x.att[2]
                            /\ resolution[x.att] = NULL
    BY DEF SnapshotIsSound
  <2>1. x \in ExecutionRows /\ x.att \in Attempts /\ x.state \in { "DISPATCHED", "RUNNING" }
    BY DEF SagaInv, RecoveryTypeOK, ExecutionRows
  <2>2. Execution(x.att) = x => taskState[x.att[1]] = x.state
    BY DEF Execution
  <2>3. attemptState[x.att] = "OPEN" => resolution[x.att] = NULL
    BY <2>1 DEF SagaInv, RowInv, UnknownIsClosed, RecoveryTypeOK, TypeOK, RowsTypeOK,
       DispatchResolutions
  <2> QED BY <2>1, <2>2, <2>3 DEF SnapshotInv, Targets, CurrentOpen
<1> QED BY <1>1, <1>2, <1>3, SagaInvariant, PTL DEF RecoverySpec

-----------------------------------------------------------------------------
(* Refinement.                                                             *)

\* An attempt that does not exist yet, or is only bound, is unresolved.
LEMMA UnresolvedBeforeIntent ==
    ASSUME SagaInv, NEW a \in Attempts, stage[a] # "SEND_REQUESTED"
    PROVE  resolution[a] = NULL
BY DEF SagaInv, RecoveryTypeOK, TypeOK, RowsTypeOK, DispatchResolutions, RowInv, UnknownIsClosed

\* A stage advanced from an unresolved attempt a advances its outcome.
LEMMA OutcomeAdvances ==
    ASSUME SagaInv, NEW a \in Attempts, NEW from, NEW to,
           resolution[a] = NULL, resolution' = resolution,
           stage' = [stage EXCEPT ![a] = to],
           <<stage[a], to>> \in { <<"NONE", "DISPATCH_BOUND">>,
                                  <<"DISPATCH_BOUND", "SEND_REQUESTED">>,
                                  <<"SEND_REQUESTED", "SEND_CONFIRMED">> }
    PROVE  /\ [b \in Attempts |-> OutcomeOf(b)]' =
                 [[b \in Attempts |-> OutcomeOf(b)] EXCEPT ![a] = OutcomeOf(a)']
           /\ <<OutcomeOf(a), OutcomeOf(a)'>> \in
                 { <<"none", "bound">>, <<"bound", "intended">>, <<"intended", "confirmed">> }
           /\ stage[a] = "NONE" => OutcomeOf(a) = "none" /\ OutcomeOf(a)' = "bound"
           /\ stage[a] = "DISPATCH_BOUND" => OutcomeOf(a) = "bound" /\ OutcomeOf(a)' = "intended"
           /\ stage[a] = "SEND_REQUESTED" => OutcomeOf(a) = "intended" /\ OutcomeOf(a)' = "confirmed"
<1> USE DEF SagaInv, RecoveryTypeOK, TypeOK, RowsTypeOK
<1>1. stage'[a] = to /\ \A b \in Attempts : b # a => stage'[b] = stage[b]
  OBVIOUS
<1>2. /\ stage[a] = "NONE" => OutcomeOf(a) = "none" /\ OutcomeOf(a)' = "bound"
      /\ stage[a] = "DISPATCH_BOUND" => OutcomeOf(a) = "bound" /\ OutcomeOf(a)' = "intended"
      /\ stage[a] = "SEND_REQUESTED" => OutcomeOf(a) = "intended" /\ OutcomeOf(a)' = "confirmed"
  BY <1>1 DEF OutcomeOf, StageOutcome
<1>3. \A b \in Attempts : b # a => OutcomeOf(b)' = OutcomeOf(b)
  BY <1>1 DEF OutcomeOf
<1> QED BY <1>2, <1>3

\* Rows that keep stages and resolutions keep outcomes.
LEMMA OutcomeStays ==
    ASSUME UNCHANGED <<stage, resolution>>
    PROVE  [b \in Attempts |-> OutcomeOf(b)]' = [b \in Attempts |-> OutcomeOf(b)]
BY DEF OutcomeOf

\* A quiet step contains an intent, or leaves every outcome alone.
LEMMA QuietRefines ==
    ASSUME SagaInv, QuietStep
    PROVE  [Promise!DeliveryNext]_(Promise!dvars)
<1> USE DEF SagaInv, RecoveryTypeOK, TypeOK, RowsTypeOK
<1>w. UNCHANGED <<sends, delivered>>
  BY DEF QuietStep
<1>1. CASE UNCHANGED resolution
  <2>1. UNCHANGED <<stage, resolution>>
    BY <1>1, QuietStages DEF QuietStep
  <2> QED BY <2>1, <1>w, OutcomeStays DEF Promise!dvars
<1>2. ASSUME NEW a \in Attempts, stage[a] = "SEND_REQUESTED", resolution[a] = NULL,
             resolution' = [resolution EXCEPT ![a] = "DELIVERY_OUTCOME_UNKNOWN"],
             UNCHANGED stage
      PROVE  Promise!Contain(a)
  <2>1. OutcomeOf(a) = "intended" /\ OutcomeOf(a)' = "unknown"
    BY <1>2 DEF OutcomeOf, StageOutcome
  <2>2. \A b \in Attempts : b # a => OutcomeOf(b)' = OutcomeOf(b)
    BY <1>2 DEF OutcomeOf
  <2>3. [b \in Attempts |-> OutcomeOf(b)]' =
          [[b \in Attempts |-> OutcomeOf(b)] EXCEPT ![a] = "unknown"]
    BY <2>1, <2>2
  <2> QED BY <1>w, <2>1, <2>3 DEF Promise!Contain, Promise!Advance
<1> QED BY <1>1, <1>2, QuietStages DEF QuietStep, Promise!DeliveryNext

\* The steps that allocate, request, send, deliver and confirm are the steps
\* Bind, Intend, Transmit, Accept and Confirm of Delivery.
LEMMA LoudRefines ==
    ASSUME SagaInv, LoudStep
    PROVE  [Promise!DeliveryNext]_(Promise!dvars)
<1> USE DEF SagaInv, RecoveryTypeOK, TypeOK
<1>1. ASSUME NEW c \in Callers, NEW t \in Tasks, DispatchReady(c, t)
      PROVE  [Promise!DeliveryNext]_(Promise!dvars)
  <2> DEFINE a == NextAttempt(t)
  <2>a. a \in Attempts /\ a[1] = t /\ a[2] = currentAttempt[t] + 1
    BY <1>1, NextAttemptExists DEF DispatchReady, PrepareBoundDispatch, BindAttempt
  <2>n. stage' = [stage EXCEPT ![a] = "DISPATCH_BOUND"]
    BY <1>1 DEF DispatchReady, PrepareBoundDispatch, BindAttempt
  <2>1. a \in Attempts /\ stage[a] = "NONE" /\ stage' = [stage EXCEPT ![a] = "DISPATCH_BOUND"]
    BY <2>a, <2>n DEF RowInv, AttemptsExist, RowsTypeOK
  <2>2. UNCHANGED <<resolution, sends, delivered>>
    BY <1>1 DEF DispatchReady, PrepareBoundDispatch, BindAttempt
  <2> HIDE DEF a
  <2>3. resolution[a] = NULL
    BY <2>1, UnresolvedBeforeIntent
  <2>4. Promise!Bind(a)
    BY <2>1, <2>2, <2>3, OutcomeAdvances DEF Promise!Bind, Promise!Advance
  <2> QED BY <2>1, <2>4 DEF Promise!DeliveryNext
<1>2. ASSUME NEW c \in Callers, RequestSend(c)
      PROVE  [Promise!DeliveryNext]_(Promise!dvars)
  <2>1. att[c] \in Attempts
    BY <1>2 DEF CallersHoldIntent, RequestSend
  <2>2. /\ stage[att[c]] = "DISPATCH_BOUND"
        /\ resolution[att[c]] = NULL
        /\ stage' = [stage EXCEPT ![att[c]] = "SEND_REQUESTED"]
        /\ UNCHANGED <<resolution, sends, delivered>>
    BY <1>2 DEF RequestSend, RecordSendRequested
  <2>3. Promise!Intend(att[c])
    BY <2>1, <2>2, OutcomeAdvances DEF Promise!Intend, Promise!Advance
  <2> QED BY <2>1, <2>3 DEF Promise!DeliveryNext
<1>3. ASSUME NEW c \in Callers, ConfirmSend(c)
      PROVE  [Promise!DeliveryNext]_(Promise!dvars)
  <2>1. att[c] \in Attempts
    BY <1>3 DEF CallersHoldIntent, ConfirmSend
  <2>2. /\ stage[att[c]] = "SEND_REQUESTED"
        /\ resolution[att[c]] = NULL
        /\ delivered[att[c]] > 0
        /\ stage' = [stage EXCEPT ![att[c]] = "SEND_CONFIRMED"]
        /\ UNCHANGED <<resolution, sends, delivered>>
    BY <1>3 DEF ConfirmSend, RecordSendConfirmed
  <2>3. Promise!Confirm(att[c])
    BY <2>1, <2>2, OutcomeAdvances DEF Promise!Confirm, Promise!Advance
  <2> QED BY <2>1, <2>3 DEF Promise!DeliveryNext
<1>4. ASSUME NEW c \in Callers, DispatchTaskContract(c)
      PROVE  [Promise!DeliveryNext]_(Promise!dvars)
  <2>0. PICK b \in Attempts : b = att[c]
    BY <1>4 DEF CallersHoldIntent, DispatchTaskContract
  <2>1. sends[b] = 0 /\ stage[b] \in { "SEND_REQUESTED", "SEND_CONFIRMED" }
    BY <1>4, <2>0 DEF CallersHoldIntent, DispatchTaskContract
  <2>2. delivered[b] <= 0
    BY <2>1 DEF WireFollowsIntent
  <2>3. stage[b] = "SEND_REQUESTED"
    <3>1. delivered[b] \in Nat
      BY MaxSendsAssumption
    <3> QED BY <2>1, <2>2, <3>1 DEF ConfirmedIsReal
  <2>4. OutcomeOf(b) \in { "intended", "unknown" }
    BY <2>3 DEF OutcomeOf, StageOutcome
  <2>5. sends' = [sends EXCEPT ![b] = 1] /\ UNCHANGED <<stage, resolution, delivered>>
    BY <1>4, <2>0, <2>1 DEF DispatchTaskContract
  <2>6. { a \in Attempts : sends[a] > 0 }' = { a \in Attempts : sends[a] > 0 } \cup {b}
    BY <2>5
  <2>7. Promise!Transmit(b)
    BY <2>1, <2>4, <2>5, <2>6, OutcomeStays DEF Promise!Transmit
  <2> QED BY <2>7 DEF Promise!DeliveryNext
<1>5. ASSUME NEW a \in Attempts, AODeliver(a)
      PROVE  [Promise!DeliveryNext]_(Promise!dvars)
  <2>1. delivered[a] \in Nat /\ sends[a] \in Nat
    BY MaxSendsAssumption
  <2>2. delivered[a] = 0 /\ sends[a] > 0
    BY <1>5, <2>1 DEF AODeliver, WireFollowsIntent
  <2>3. delivered' = [delivered EXCEPT ![a] = 1] /\ UNCHANGED <<stage, resolution, sends>>
    BY <1>5, <2>2 DEF AODeliver
  <2>4. { b \in Attempts : delivered[b] > 0 }' = { b \in Attempts : delivered[b] > 0 } \cup {a}
    BY <2>3
  <2>5. Promise!Accept(a)
    BY <2>2, <2>3, <2>4, OutcomeStays DEF Promise!Accept
  <2> QED BY <2>5 DEF Promise!DeliveryNext
<1>6. ASSUME NEW c \in Callers, ContainReread(c)
      PROVE  [Promise!DeliveryNext]_(Promise!dvars)
  BY <1>6, OutcomeStays DEF ContainReread, Promise!dvars
<1> QED BY <1>1, <1>2, <1>3, <1>4, <1>5, <1>6 DEF LoudStep

\* The saga with its observers and crashes implements Delivery: durable intent
\* before transmission, at most one transmission, confirmation only of what AO
\* accepted, final outcomes.
THEOREM SagaImplementsDelivery == RecoverySpec => ImplementsDelivery
<1>1. RecoveryInit => Promise!DeliveryInit
  BY DEF RecoveryInit, Init, Promise!DeliveryInit, OutcomeOf, StageOutcome
<1>2. SagaInv /\ [RecoveryNext]_allVars => [Promise!DeliveryNext]_(Promise!dvars)
  BY QuietOrLoud, QuietRefines, LoudRefines DEF SagaInv
<1> QED BY <1>1, <1>2, SagaInvariant, PTL DEF RecoverySpec, ImplementsDelivery, Promise!DeliverySpec
=============================================================================
