------------------------------ MODULE Dispatch ------------------------------
(***************************************************************************)
(* The dispatch saga (internal/dispatch/coordinator.go): callers of        *)
(* Coordinator.Dispatch, each a program counter over the same rows, the AO *)
(* service they GET and POST to, the operator, and the orchestrator that   *)
(* moves tasks between sagas.  A caller's GET, its transaction, its POST   *)
(* and its confirmation are separate steps; any of them may fail, a commit *)
(* may succeed and still be reported as an error, and a crash loses every  *)
(* program counter but no row and no request already on the wire.          *)
(***************************************************************************)
EXTENDS DispatchStore

CONSTANTS
    Callers,           \* concurrent Dispatch calls
    Edges,             \* task transitions driven through Store.TransitionTask
    MaxSends,          \* bound on the POST /send calls counted per attempt
    OperatorVerified   \* does the host vouch for an operator principal?

\* Transitions that the code commits together with attempt rows.
SagaEdges ==
    { <<"READY", "DISPATCHED">>, <<"DISPATCHED", "RUNNING">>,
      <<"DISPATCHED", "FAILED">>, <<"RUNNING", "FAILED">>,
      <<"BLOCKED", "HUMAN_REQUIRED">> }

ASSUME EdgesAssumption == Edges \subseteq AllowedTransitions \ SagaEdges
\* Two or more, so that the bound never hides a second send.
ASSUME MaxSendsAssumption == MaxSends \in Nat /\ MaxSends >= 2
ASSUME OperatorAssumption == OperatorVerified \in BOOLEAN

VARIABLES
    pc,         \* where each Dispatch call is
    att,        \* the attempt a call works on
    obs,        \* the answer of its GET, while it is being acted upon
    sends,      \* POST /send calls issued, by attempt
    delivered,  \* of those, the ones AO has accepted
    acked       \* attempts for which some Dispatch call returned nil

callVars == <<pc, att, obs>>
wireVars == <<sends, delivered>>
vars == <<rows, callVars, wireVars, acked>>

PCs == { "idle", "bound", "observed", "send", "await", "contain", "d5" }

\* What GetWorkerStatus can return: an error of each class the code tells
\* apart, or a status.  protocol404 is a ProtocolError carrying status 404.
PreSendFailures == { "protocol404", "foreign", "staleGen", "terminated" }
Busy == { "active", "blocked", "exited" }
Admissible == { "idle", "waiting_input" }
Observations ==
    { "unavailable", "notFound", "protocol" } \cup PreSendFailures \cup Busy \cup Admissible

\* Ill-typed rows, callers and wire never arise.
TypeOK ==
    /\ RowsTypeOK
    /\ pc \in [Callers -> PCs]
    /\ att \in [Callers -> Attempts \cup {NoAttempt}]
    /\ obs \in [Callers -> Observations \cup {NULL}]
    /\ sends \in [Attempts -> 0 .. MaxSends]
    /\ delivered \in [Attempts -> 0 .. MaxSends]
    /\ acked \subseteq Attempts

Init ==
    /\ taskState = [t \in Tasks |-> "READY"]
    /\ currentAttempt = [t \in Tasks |-> 0]
    /\ contract = [t \in Tasks |-> "MUTABLE"]
    /\ attemptState = [a \in Attempts |-> "NONE"]
    /\ disposition = [a \in Attempts |-> NULL]
    /\ quarantine = [a \in Attempts |-> "CLEAN"]
    /\ boundGen = [a \in Attempts |-> 0]
    /\ stage = [a \in Attempts |-> "NONE"]
    /\ resolution = [a \in Attempts |-> NULL]
    /\ budget = [a \in Attempts |-> "NONE"]
    /\ sessionGen = 0
    /\ sessionStatus = "IDLE"
    /\ sessionQuarantine = "CLEAN"
    /\ stopOp = [s \in Stops |-> NoStop]
    /\ restoreOp = NoRestore
    /\ provisionStage = "PROVISION_CONFIRMED"
    /\ pc = [c \in Callers |-> "idle"]
    /\ att = [c \in Callers |-> NoAttempt]
    /\ obs = [c \in Callers |-> NULL]
    /\ sends = [a \in Attempts |-> 0]
    /\ delivered = [a \in Attempts |-> 0]
    /\ acked = {}

-----------------------------------------------------------------------------
(* One Dispatch call.                                                      *)

\* The call returns: its program counter and what it remembers are gone.
Return(c) ==
    /\ pc' = [pc EXCEPT ![c] = "idle"]
    /\ att' = [att EXCEPT ![c] = NoAttempt]
    /\ obs' = [obs EXCEPT ![c] = NULL]

Goto(c, label) ==
    /\ pc' = [pc EXCEPT ![c] = label]
    /\ obs' = [obs EXCEPT ![c] = NULL]
    /\ UNCHANGED att

\* A READY task: allocate.  The second alternative is a commit that the
\* caller sees as an error.
DispatchReady(c, t) ==
    /\ pc[c] = "idle"
    /\ PrepareBoundDispatch(t)
    /\ \/ /\ pc' = [pc EXCEPT ![c] = "bound"]
          /\ att' = [att EXCEPT ![c] = NextAttempt(t)]
          /\ UNCHANGED obs
       \/ UNCHANGED callVars
    /\ UNCHANGED <<wireVars, acked>>

\* A DISPATCHED task: the same request again, for the bound open attempt.
DispatchRetry(c, a) ==
    /\ pc[c] = "idle"
    /\ taskState[a[1]] = "DISPATCHED"
    /\ CurrentOpen(a)
    /\ stage[a] = "DISPATCH_BOUND"
    /\ pc' = [pc EXCEPT ![c] = "bound"]
    /\ att' = [att EXCEPT ![c] = a]
    /\ UNCHANGED <<rows, obs, wireVars, acked>>

GetWorkerStatus(c, o) ==
    /\ pc[c] = "bound"
    /\ pc' = [pc EXCEPT ![c] = "observed"]
    /\ obs' = [obs EXCEPT ![c] = o]
    /\ UNCHANGED <<rows, att, wireVars, acked>>

\* The hold a failed GET leaves.  A well-formed HTTP 404 reaches the
\* coordinator as an APIError, not as a ProtocolError.
HoldFor ==
    [ unavailable |-> "RECOVERY_PENDING",
      notFound    |-> "RECOVERY_PENDING",
      protocol    |-> "PRE_SEND_PROTOCOL_UNVERIFIED" ]

FailureFor ==
    [ protocol404 |-> "SESSION_ABSENT",
      foreign     |-> "PRE_SEND_IDENTITY_MISMATCH",
      staleGen    |-> "STALE_EXECUTION_GENERATION",
      terminated  |-> "WORKER_TERMINATION_UNKNOWN" ]

PreSendHold(c) ==
    /\ pc[c] = "observed"
    /\ obs[c] \in DOMAIN HoldFor
    /\ RecordPreSendHold(att[c], HoldFor[obs[c]])
    /\ Return(c)
    /\ UNCHANGED <<wireVars, acked>>

PreSendFailure(c) ==
    /\ pc[c] = "observed"
    /\ obs[c] \in PreSendFailures
    /\ AtomicTerminalTransition(att[c], "DISPATCHED", FailureFor[obs[c]])
    /\ Return(c)
    /\ UNCHANGED <<wireVars, acked>>

PreSendRejected(c) ==
    /\ pc[c] = "observed"
    /\ obs[c] \in Busy
    /\ RecordPreSendAdmissibilityRejected(att[c])
    /\ Return(c)
    /\ UNCHANGED <<wireVars, acked>>

RequestSend(c) ==
    /\ pc[c] = "observed"
    /\ obs[c] \in Admissible
    /\ RecordSendRequested(att[c])
    /\ Goto(c, "send") \/ Return(c)
    /\ UNCHANGED <<wireVars, acked>>

\* A read, transaction or GET failed before the intent was committed.
DispatchFails(c) ==
    /\ pc[c] \in { "bound", "observed" }
    /\ Return(c)
    /\ UNCHANGED <<rows, wireVars, acked>>

\* Mutant: an ambiguous POST is tried once more before it is contained.
DispatchTaskContract_Retried(c) ==
    /\ pc[c] \in { "send", "contain" }
    /\ sends[att[c]] < MaxSends
    /\ sends' = [sends EXCEPT ![att[c]] = @ + 1]
    /\ Goto(c, "await")
    /\ UNCHANGED <<rows, delivered, acked>>

\* Mutant: the POST is issued on the strength of the GET, before the intent.
DispatchTaskContract_BeforeIntent(c) ==
    /\ pc[c] \in { "observed", "send" }
    /\ sends[att[c]] < MaxSends
    /\ sends' = [sends EXCEPT ![att[c]] = @ + 1]
    /\ Goto(c, "await")
    /\ UNCHANGED <<rows, delivered, acked>>

\* The one POST /send of the call.
DispatchTaskContract(c) ==
    /\ pc[c] = "send"
    /\ sends[att[c]] < MaxSends
    /\ sends' = [sends EXCEPT ![att[c]] = @ + 1]
    /\ Goto(c, "await")
    /\ UNCHANGED <<rows, delivered, acked>>

\* Mutant: any answer to the POST is taken for HTTP 200.
ConfirmSend_AnyAnswer(c) ==
    /\ pc[c] = "await"
    /\ RecordSendConfirmed(att[c])
    /\ Return(c)
    /\ acked' = acked \cup {att[c]}
    /\ UNCHANGED wireVars

\* HTTP 200 for this session.  A confirmation that commits and is reported
\* as an error goes to containment.
ConfirmSend(c) ==
    /\ pc[c] = "await"
    /\ delivered[att[c]] > 0
    /\ RecordSendConfirmed(att[c])
    /\ \/ Return(c) /\ acked' = acked \cup {att[c]}
       \/ Goto(c, "contain") /\ UNCHANGED acked
    /\ UNCHANGED wireVars

\* The POST could not be made, its answer was an error or lost, or the
\* confirmation was refused.
SendFails(c) ==
    /\ pc[c] \in { "send", "await" }
    /\ Goto(c, "contain")
    /\ UNCHANGED <<rows, wireVars, acked>>

\* containAmbiguousSend rereads the rows: confirmed after all, the exact
\* unresolved intent, or neither.  Its reads are separate; a torn tuple ends in
\* one of the last two, and D5 checks every row again.
ContainReread(c) ==
    /\ pc[c] = "contain"
    /\ LET a == att[c] IN
         \/ /\ stage[a] = "SEND_CONFIRMED"
            /\ currentAttempt[a[1]] = a[2]
            /\ acked' = acked \cup {a}
            /\ Return(c)
         \/ /\ stage[a] = "SEND_REQUESTED"
            /\ resolution[a] = NULL
            /\ CurrentOpen(a)
            /\ taskState[a[1]] = "DISPATCHED"
            /\ Goto(c, "d5")
            /\ UNCHANGED acked
         \/ /\ UNCHANGED acked
            /\ Return(c)
    /\ UNCHANGED <<rows, wireVars>>

\* The D5 transaction of containAmbiguousSend, and its refusal.
ContainUnknown(c) ==
    /\ pc[c] = "d5"
    /\ RecordUnknownDelivery(att[c]) \/ UNCHANGED rows
    /\ Return(c)
    /\ UNCHANGED <<wireVars, acked>>

-----------------------------------------------------------------------------
(* Everyone else.                                                          *)

\* AO accepts a request that is on the wire, however late.
AODeliver(a) ==
    /\ delivered[a] < sends[a]
    /\ delivered' = [delivered EXCEPT ![a] = @ + 1]
    /\ UNCHANGED <<rows, callVars, sends, acked>>

\* The operator clears a hold after a fresh idle or waiting_input status;
\* a protocol hold needs a principal the host vouches for.
RecoverPreSend(a, hold) ==
    /\ hold = "PRE_SEND_PROTOCOL_UNVERIFIED" => OperatorVerified
    /\ ResolvePreSendHold(a, hold)
    /\ UNCHANGED <<callVars, wireVars, acked>>

\* The orchestrator moves a task along an edge of the graph.
MoveTask(t, to) ==
    /\ <<taskState[t], to>> \in Edges
    /\ TransitionTask(t, to)
    /\ UNCHANGED <<callVars, wireVars, acked>>

ReviseContract(t) ==
    /\ InsertTaskContract(t)
    /\ UNCHANGED <<callVars, wireVars, acked>>

\* The Supervisor process dies.
Crash ==
    /\ pc' = [c \in Callers |-> "idle"]
    /\ att' = [c \in Callers |-> NoAttempt]
    /\ obs' = [c \in Callers |-> NULL]
    /\ UNCHANGED <<rows, wireVars, acked>>

-----------------------------------------------------------------------------

CallerStep(c) ==
    \/ \E t \in Tasks : DispatchReady(c, t)
    \/ \E a \in Attempts : DispatchRetry(c, a)
    \/ \E o \in Observations : GetWorkerStatus(c, o)
    \/ PreSendHold(c)
    \/ PreSendFailure(c)
    \/ PreSendRejected(c)
    \/ RequestSend(c)
    \/ DispatchFails(c)
    \/ DispatchTaskContract(c)
    \/ ConfirmSend(c)
    \/ SendFails(c)
    \/ ContainReread(c)
    \/ ContainUnknown(c)

EnvironmentStep ==
    \/ \E a \in Attempts : AODeliver(a)
    \/ \E a \in Attempts, hold \in PreSendHolds : RecoverPreSend(a, hold)
    \/ \E t \in Tasks, to \in TaskStates : MoveTask(t, to)
    \/ \E t \in Tasks : ReviseContract(t)

Next ==
    \/ \E c \in Callers : CallerStep(c)
    \/ EnvironmentStep
    \/ Crash

Spec == Init /\ [][Next]_vars

-----------------------------------------------------------------------------
(* Properties.                                                             *)

\* An instruction is put on the wire at most once per attempt, and only after
\* its intent was committed: concurrent and repeated Dispatch calls, commits
\* reported as errors and crashes never resend (coordinator.go: "It never
\* retries an ambiguous delivery").
SendDiscipline ==
    \A a \in Attempts :
        /\ sends[a] <= 1
        /\ sends[a] > 0 => stage[a] \in { "SEND_REQUESTED", "SEND_CONFIRMED" }

\* A Dispatch call that returned nil, directly or after containment, and every
\* SEND_CONFIRMED row, stand for a message AO really accepted, with an
\* execution budget bound and no unknown-delivery resolution.
ConfirmedIsReal ==
    \A a \in Attempts :
        /\ a \in acked => stage[a] = "SEND_CONFIRMED"
        /\ stage[a] = "SEND_CONFIRMED" =>
              /\ delivered[a] > 0
              /\ budget[a] # "NONE"
              /\ resolution[a] = NULL

\* D5: an intent resolved as unknown is a closed attempt of a task no longer
\* in the lane through it, with attempt and session quarantined; no later
\* step of a late caller or of an observer undoes part of it.
UnknownIsContained ==
    \A a \in Attempts :
        resolution[a] = "DELIVERY_OUTCOME_UNKNOWN" =>
            /\ stage[a] = "SEND_REQUESTED"
            /\ attemptState[a] = "ENDED"
            /\ disposition[a] = "UNCERTAIN_DELIVERY_CRASH"
            /\ quarantine[a] = "QUARANTINED"
            /\ sessionQuarantine = "QUARANTINED"

\* At most one task of the Pair is DISPATCHED, RUNNING or REVIEWING, although
\* allocation, observation and TransitionTask claim the lane independently.
OneActiveLane ==
    \A t, u \in Tasks :
        taskState[t] \in ActiveLane /\ taskState[u] \in ActiveLane => t = u

\* A pre-send hold and a send intent exclude each other: a hold recorded while
\* a caller is between its GET and its intent stops that caller, and no hold
\* lands on an attempt whose message may be on the wire.
HeldNeverSent ==
    \A a \in Attempts :
        /\ disposition[a] = "PRE_SEND_PROTOCOL_UNVERIFIED" => stage[a] = "DISPATCH_BOUND"
        /\ disposition[a] = "RECOVERY_PENDING" => stage[a] # "SEND_REQUESTED"
        /\ disposition[a] \in PreSendHolds => attemptState[a] = "OPEN"

\* Work in progress is recoverable: a task that is DISPATCHED, RUNNING or
\* BLOCKED has an open current attempt with a dispatch operation, confirmed
\* once it runs, so ListRecoverySnapshot never refuses the whole database
\* with ErrInconsistentPersistedState.
PersistedConsistent ==
    \A t \in Tasks :
        taskState[t] \in { "DISPATCHED", "RUNNING", "BLOCKED" } =>
            /\ currentAttempt[t] > 0
            /\ attemptState[<<t, currentAttempt[t]>>] = "OPEN"
            /\ stage[<<t, currentAttempt[t]>>] # "NONE"
            /\ taskState[t] \in { "RUNNING", "BLOCKED" } =>
                  stage[<<t, currentAttempt[t]>>] = "SEND_CONFIRMED"

\* A closed attempt is history: no late confirmation, containment, hold or
\* observation rewrites its outcome, and it is never reopened.
ClosedIsFinal ==
    [][ \A a \in Attempts :
          attemptState[a] = "ENDED" =>
              /\ attemptState'[a] = "ENDED"
              /\ disposition'[a] = disposition[a]
              /\ stage'[a] = stage[a]
              /\ resolution'[a] = resolution[a]
              /\ budget'[a] = budget[a] ]_vars

\* Unless the host vouches for an operator, a protocol hold stays until its
\* attempt is closed: availability holds, successful GETs and retries of
\* Dispatch do not lift it.
ProtocolHoldSticky ==
    [][ \A a \in Attempts :
          disposition[a] = "PRE_SEND_PROTOCOL_UNVERIFIED" /\ ~OperatorVerified =>
              \/ disposition'[a] = disposition[a]
              \/ attemptState'[a] = "ENDED" ]_vars

-----------------------------------------------------------------------------
(* The saga implements Delivery.                                           *)

StageOutcome ==
    [ NONE |-> "none", DISPATCH_BOUND |-> "bound",
      SEND_REQUESTED |-> "intended", SEND_CONFIRMED |-> "confirmed" ]

OutcomeOf(a) == IF resolution[a] # NULL THEN "unknown" ELSE StageOutcome[stage[a]]

Promise == INSTANCE Delivery WITH
    outcome     <- [a \in Attempts |-> OutcomeOf(a)],
    transmitted <- { a \in Attempts : sends[a] > 0 },
    accepted    <- { a \in Attempts : delivered[a] > 0 }

\* Every behaviour of the rows, the callers and the wire is a behaviour of
\* Delivery: intent before transmission, one transmission, confirmation only
\* of an accepted message, final outcomes.
ImplementsDelivery == Promise!DeliverySpec

=============================================================================
