-------------------------------- MODULE Stop --------------------------------
(***************************************************************************)
(* The stop saga (internal/stop/coordinator.go, recovery/timeout_monitor.go *)
(* and the stop half of the sweep and the poller) composed with dispatch   *)
(* and recovery.  A stop is an intent, one POST /kill by the call that     *)
(* created the intent, and a confirmation within a deadline; the sweep     *)
(* takes over intents that lost their creator.  A GET and the transaction  *)
(* that acts on it are one step: the answer is arbitrary, and the          *)
(* transaction reads every row again.                                      *)
(***************************************************************************)
EXTENDS Recovery, StopStore

CONSTANTS
    StartPurposes,  \* purposes for which an operator calls Coordinator.Start
    MaxKills        \* bound on the POST /kill calls counted per stop

ASSUME StartPurposesAssumption == StartPurposes \subseteq StopPurposes
\* Two or more, so that the bound never hides a second kill.
ASSUME MaxKillsAssumption == MaxKills \in Nat /\ MaxKills >= 2

VARIABLES
    spc,         \* where the call that created each stop is
    kills,       \* POST /kill calls issued, by stop
    killed,      \* stops for which AO has executed one
    sweepStops,  \* stops the sweep has still to classify
    pollStops,   \* stops the poll tick has still to observe
    tick         \* executions the timeout tick has still to look at

effectVars == <<spc, kills, killed>>
observerVars == <<sweepStops, pollStops, tick>>
stopVars == <<auditVars, clockVars, effectVars, observerVars>>
stopAllVars == <<allVars, stopVars>>

SPCs == { "none", "reserved", "kill", "await", "observe" }

StopSnapshots == [ stop : Stops, stage : { "STOP_REQUESTED", "STOP_CALL_SUCCEEDED" } ]

\* The types of the stop saga on top of the recovery ones.
StopTypeOK ==
    /\ RecoveryTypeOK
    /\ StopTypes
    /\ spc \in [Stops -> SPCs]
    /\ kills \in [Stops -> 0 .. MaxKills]
    /\ killed \subseteq Stops
    /\ sweepStops \subseteq StopSnapshots
    /\ pollStops \subseteq StopSnapshots
    /\ tick \subseteq ExecutionRows

StopProcessesInit ==
    /\ spc = [s \in Stops |-> "none"]
    /\ kills = [s \in Stops |-> 0]
    /\ killed = {}
    /\ sweepStops = {}
    /\ pollStops = {}
    /\ tick = {}

StopInit ==
    /\ RecoveryInit
    /\ StopStoreInit
    /\ StopProcessesInit

\* Nothing but rows, spc and the named variables is touched by a stop call.
OtherProcesses == <<callVars, wireVars, acked, recoveryVars>>

GotoStop(s, label) == spc' = [spc EXCEPT ![s] = label]

-----------------------------------------------------------------------------
(* Coordinator.start.                                                      *)

\* Start by an operator.  A commit reported as an error confers no permit.
Start(s, purpose, a) ==
    /\ purpose \in StartPurposes
    /\ purpose # "RUNNING_ATTEMPT_STOP" => OperatorVerified
    /\ ReserveStopOperation(s, purpose, a, FALSE)
    /\ GotoStop(s, "reserved") \/ UNCHANGED spc
    /\ UNCHANGED <<OtherProcesses, auditVars, clockVars, kills, killed, observerVars>>

\* The outcome a pre-effect observation decides without a kill.
PreEffectOutcome ==
    [ notFound   |-> <<"STOP_TARGET_ABSENT", "STOP_TARGET_ABSENT">>,
      staleGen   |-> <<"STOP_REQUESTED", "STOP_GENERATION_MISMATCH">>,
      terminated |-> <<"STOP_REQUESTED", "STOP_EFFECT_UNPROVEN_TARGET_ALREADY_TERMINATED">> ]

StopPreEffect(s, o) ==
    /\ spc[s] = "reserved"
    /\ \/ /\ o \in DOMAIN PreEffectOutcome
          /\ CommitStopOutcome(s, "STOP_REQUESTED", PreEffectOutcome[o][1], PreEffectOutcome[o][2])
          /\ GotoStop(s, "none")
       \/ /\ o \in Busy \cup Admissible
          /\ stopOp[s].timeout =>
               o \in { "active", "waiting_input" } /\ ValidateTimeoutEffectOwner(s)
          /\ GotoStop(s, "kill")
          /\ UNCHANGED rows
    /\ UNCHANGED <<OtherProcesses, auditVars, clockVars, kills, killed, observerVars>>

\* Mutant: a kill without an answer is tried again.
StopWorker_Retried(s) ==
    /\ spc[s] \in { "kill", "await" }
    /\ kills[s] < MaxKills
    /\ kills' = [kills EXCEPT ![s] = @ + 1]
    /\ GotoStop(s, "await")
    /\ UNCHANGED <<rows, OtherProcesses, auditVars, clockVars, killed, observerVars>>

\* The one POST /kill of the call; it may fail before it leaves.
StopWorker(s) ==
    /\ spc[s] = "kill"
    /\ \/ kills[s] < MaxKills /\ kills' = [kills EXCEPT ![s] = @ + 1]
       \/ UNCHANGED kills
    /\ GotoStop(s, "await")
    /\ UNCHANGED <<rows, OtherProcesses, auditVars, clockVars, killed, observerVars>>

\* Mutant: any answer is an acceptance.
StopAccepted_AnyAnswer(s) ==
    /\ spc[s] = "await"
    /\ CommitStopCallAccepted(s)
    /\ GotoStop(s, "observe")
    /\ UNCHANGED <<OtherProcesses, auditVars, clockVars, kills, killed, observerVars>>

\* HTTP 200 for this session.  The observation that follows is made by the same
\* call, unless the commit was reported as an error.
StopAccepted(s) ==
    /\ spc[s] = "await"
    /\ s \in killed
    /\ CommitStopCallAccepted(s)
    /\ GotoStop(s, "observe") \/ GotoStop(s, "none")
    /\ UNCHANGED <<OtherProcesses, auditVars, clockVars, kills, killed, observerVars>>

\* A 404, another API error, or an answer that says nothing.
StopRefused(s) ==
    /\ spc[s] = "await"
    /\ \/ /\ kills[s] > 0
          /\ CommitStopOutcome(s, "STOP_REQUESTED", "STOP_TARGET_ABSENT", "STOP_TARGET_ABSENT")
       \/ /\ kills[s] > 0
          /\ CommitStopOutcome(s, "STOP_REQUESTED", "STOP_CALL_FAILED", "STOP_CALL_FAILED")
       \/ CommitStopOutcome(s, "STOP_REQUESTED", "STOP_REQUESTED", "STOP_CALL_OUTCOME_UNKNOWN")
    /\ GotoStop(s, "none")
    /\ UNCHANGED <<OtherProcesses, auditVars, clockVars, kills, killed, observerVars>>

\* The call returns with its intent as it is: the GET failed or named another
\* session, a timeout is no longer admissible, or a commit was refused.
StopReturns(s) ==
    /\ spc[s] \in { "reserved", "await", "observe" }
    /\ GotoStop(s, "none")
    /\ UNCHANGED <<rows, OtherProcesses, auditVars, clockVars, kills, killed, observerVars>>

-----------------------------------------------------------------------------
(* Runner.classifyStop, which Coordinator.Observe repeats for its own stop. *)

StopSnapshot(s) == [stop |-> s, stage |-> stopOp[s].stage]

\* ListRecoverySnapshot's stop_operations.
InFlightAt(stages) ==
    { StopSnapshot(s) : s \in { r \in Stops : \E g \in stages : StopIs(r, g, "IN_FLIGHT") } }

\* Mutant: an outage extends the deadline.
AwaitConfirmation_Patient(x) == UNCHANGED rows

\* An observation with no verdict: the deadline decides, once there is one.
AwaitConfirmation(x) ==
    \/ /\ x.stage = "STOP_CALL_SUCCEEDED"
       /\ x.stop \in late
       /\ CommitStopOutcome(x.stop, x.stage, x.stage, "STOP_CONFIRMATION_TIMEOUT")
    \/ /\ x.stage # "STOP_CALL_SUCCEEDED" \/ x.stop \notin late
       /\ UNCHANGED rows

\* A status of another session is an error.
ClassifyStop(x, o) ==
    \/ /\ o = "notFound"
       /\ CommitStopOutcome(x.stop, x.stage, "STOP_TARGET_ABSENT", "STOP_TARGET_ABSENT")
    \/ /\ o \in { "unavailable", "protocol", "protocol404" }
       /\ AwaitConfirmation(x)
    \/ /\ o = "staleGen"
       /\ CommitStopOutcome(x.stop, x.stage, x.stage, "STOP_GENERATION_MISMATCH")
    \/ /\ o = "terminated"
       /\ \/ /\ x.stage = "STOP_REQUESTED"
             /\ CommitStopOutcome(x.stop, x.stage, x.stage,
                                  "STOP_EFFECT_UNPROVEN_TARGET_ALREADY_TERMINATED")
          \/ /\ x.stage = "STOP_CALL_SUCCEEDED"
             /\ x.stop \notin late
             /\ CommitStopOutcome(x.stop, x.stage, "STOP_TERMINATION_CONFIRMED",
                                  "TERMINATION_CONFIRMED")
          \/ x.stage = "STOP_CALL_SUCCEEDED" /\ x.stop \in late /\ AwaitConfirmation(x)
    \/ /\ o \in Busy \cup Admissible
       /\ \/ x.stage = "STOP_REQUESTED" /\ ClassifyAbandonedStopAlive(x.stop)
          \/ x.stage = "STOP_CALL_SUCCEEDED" /\ AwaitConfirmation(x)

\* stopWinner: the stop has moved on since the snapshot.
StopSuperseded(x) == ~StopIs(x.stop, x.stage, "IN_FLIGHT")

ObserveStop(x) ==
    \/ \E o \in Observations : ClassifyStop(x, o)
    \/ StopSuperseded(x) /\ UNCHANGED rows

\* Coordinator.Observe, by the creating call or by anyone who asks.
Observe(s) ==
    /\ StopIs(s, "STOP_CALL_SUCCEEDED", "IN_FLIGHT")
    /\ \E o \in Observations : ClassifyStop(StopSnapshot(s), o)
    /\ spc' = [spc EXCEPT ![s] = IF @ = "observe" THEN "none" ELSE @]
    /\ UNCHANGED <<OtherProcesses, auditVars, clockVars, kills, killed, observerVars>>

-----------------------------------------------------------------------------
(* TimeoutMonitor.Tick.                                                    *)

\* A timeout call is in the stack of the tick that made it.
TimeoutInStack == \E s \in Stops : spc[s] # "none" /\ stopOp[s].timeout

TickStart ==
    /\ phase = "ready"
    /\ tick = {}
    /\ ~TimeoutInStack
    /\ ~Inconsistent
    /\ tick' = { x \in ExecutionsAt({ "SEND_CONFIRMED" }, OwnedAttempts) :
                   /\ x.state = "RUNNING"
                   /\ x.disp \in { NULL, "AO_WAITING_INPUT_OBSERVED" } }
    /\ UNCHANGED <<allVars, auditVars, clockVars, effectVars, sweepStops, pollStops>>

\* StartTimeout: the preflight status was active or waiting_input.  The lane
\* rule leaves at most one target per Pair, so the tick ends with it.
TickTimeout(x, s) ==
    /\ x \in tick
    /\ x.att \in overdue
    /\ ReserveStopOperation(s, "RUNNING_ATTEMPT_STOP", x.att, TRUE)
    /\ GotoStop(s, "reserved") \/ UNCHANGED spc
    /\ tick' = tick \ {x}
    /\ UNCHANGED <<OtherProcesses, auditVars, clockVars, kills, killed, sweepStops, pollStops>>

\* Any other preflight answer is handled as an observation of the poller.
TickObserve(x) ==
    /\ x \in tick
    /\ x.att \in overdue
    /\ Classify(x)
    /\ tick' = tick \ {x}
    /\ UNCHANGED <<OtherProcesses, auditVars, clockVars, effectVars, sweepStops, pollStops>>

\* The budget has time left, somebody else's stop won, the attempt is closed,
\* or the tick gives up with an error.
TickSkip(x) ==
    /\ x \in tick
    /\ tick' = tick \ {x}
    /\ UNCHANGED <<allVars, auditVars, clockVars, effectVars, sweepStops, pollStops>>

-----------------------------------------------------------------------------
(* The sweep and the poller, with their stops.                             *)

\* Mutant: the sweep does not wait for a tick in progress.
StopRunStart_NoWait ==
    /\ RunStart
    /\ pollStops = {}
    /\ sweepStops' = InFlightAt({ "STOP_REQUESTED", "STOP_CALL_SUCCEEDED" })
    /\ UNCHANGED <<auditVars, clockVars, effectVars, pollStops, tick>>

\* pollAccess is held by poll and timeout ticks, not by an operator's Start.
StopRunStart ==
    /\ RunStart
    /\ pollStops = {}
    /\ tick = {}
    /\ ~TimeoutInStack
    /\ sweepStops' = InFlightAt({ "STOP_REQUESTED", "STOP_CALL_SUCCEEDED" })
    /\ UNCHANGED <<auditVars, clockVars, effectVars, pollStops, tick>>

\* Stops come after the executions and before the escalations.
RunStop(x) ==
    /\ phase = "intents"
    /\ work = {}
    /\ x \in sweepStops
    /\ ObserveStop(x)
    /\ sweepStops' = sweepStops \ {x}
    /\ UNCHANGED <<OtherProcesses, auditVars, clockVars, effectVars, pollStops, tick>>

StopRunFails ==
    /\ RunFails
    /\ sweepStops' = {}
    /\ UNCHANGED <<auditVars, clockVars, effectVars, pollStops, tick>>

\* Between the snapshot and the end of the sweep.
StopSweepWork ==
    \/ \E x \in sweepStops : RunStop(x)
    \/ /\ \/ \E x \in work : RunClassify(x)
          \/ sweepStops = {} /\ \E a \in escalate : RunEscalate(a)
          \/ sweepStops = {} /\ RunReread
          \/ RunComplete
       /\ UNCHANGED stopVars

StopSweepStep == StopRunStart \/ StopSweepWork \/ StopRunFails

\* A tick observes only stops whose kill was accepted: a STOP_REQUESTED has
\* "no proved abandoned effect owner".
StopPollStart ==
    /\ PollStart
    /\ pollStops = {}
    /\ pollStops' = InFlightAt({ "STOP_CALL_SUCCEEDED" })
    /\ UNCHANGED <<auditVars, clockVars, effectVars, sweepStops, tick>>

PollStop(x) ==
    /\ x \in pollStops
    /\ ObserveStop(x)
    /\ pollStops' = pollStops \ {x}
    /\ UNCHANGED <<OtherProcesses, auditVars, clockVars, effectVars, sweepStops, tick>>

PollAborts ==
    /\ poll # {} \/ pollStops # {}
    /\ poll' = {}
    /\ pollStops' = {}
    /\ UNCHANGED <<vars, phase, work, escalate, owned, auditVars, clockVars, effectVars,
                   sweepStops, tick>>

StopPollStep ==
    \/ StopPollStart
    \/ \E x \in pollStops : PollStop(x)
    \/ /\ pollStops = {}
       /\ \E x \in poll : PollClassify(x)
       /\ UNCHANGED stopVars
    \/ PollAborts

-----------------------------------------------------------------------------
(* AO, the clock, the operator, the process.                               *)

AOKill(s) ==
    /\ kills[s] > 0
    /\ killed' = killed \cup {s}
    /\ UNCHANGED <<allVars, auditVars, clockVars, spc, kills, observerVars>>

BudgetExpires(a) ==
    /\ budget[a] # "NONE"
    /\ overdue' = overdue \cup {a}
    /\ UNCHANGED <<allVars, auditVars, late, effectVars, observerVars>>

ConfirmationExpires(s) ==
    /\ StopIs(s, "STOP_CALL_SUCCEEDED", "IN_FLIGHT")
    /\ late' = late \cup {s}
    /\ UNCHANGED <<allVars, auditVars, overdue, effectVars, observerVars>>

\* Coordinator.AcceptAdministrativeRisk and ClearQuarantine.
AcceptAdministrativeRisk(s, ls, p) ==
    /\ OperatorVerified
    /\ AcceptStopAdministrativeRisk(s, ls, p)
    /\ UNCHANGED <<OtherProcesses, clockVars, effectVars, observerVars>>

ClearQuarantine(evidence, p) ==
    /\ OperatorVerified
    /\ ClearQuarantineWithEvidence(evidence, p)
    /\ UNCHANGED <<OtherProcesses, clockVars, effectVars, observerVars>>

StopCrash ==
    /\ ProcessCrash
    /\ spc' = [s \in Stops |-> "none"]
    /\ sweepStops' = {}
    /\ pollStops' = {}
    /\ tick' = {}
    /\ UNCHANGED <<auditVars, clockVars, kills, killed>>

-----------------------------------------------------------------------------

StopCallStep(s) ==
    \/ \E p \in StartPurposes, a \in Lineages : Start(s, p, a)
    \/ \E o \in Observations : StopPreEffect(s, o)
    \/ StopWorker(s)
    \/ StopAccepted(s)
    \/ StopRefused(s)
    \/ StopReturns(s)
    \/ Observe(s)

TickStep ==
    \/ TickStart
    \/ \E x \in tick, s \in Stops : TickTimeout(x, s)
    \/ \E x \in tick : TickObserve(x)
    \/ \E x \in tick : TickSkip(x)

OperatorStep ==
    \/ \E s \in Stops, ls \in SUBSET Lineages, p \in Principals :
         AcceptAdministrativeRisk(s, ls, p)
    \/ \E evidence \in [QuarantinedAttempts \cup {NoAttempt} -> Stops], p \in Principals :
         ClearQuarantine(evidence, p)

ClockStep ==
    \/ \E a \in Attempts : BudgetExpires(a)
    \/ \E s \in Stops : ConfirmationExpires(s)

StopStep ==
    \/ SagaStep /\ UNCHANGED stopVars
    \/ \E s \in Stops : StopCallStep(s)
    \/ TickStep
    \/ StopPollStep
    \/ \E s \in Stops : AOKill(s)
    \/ ClockStep
    \/ OperatorStep

StopNext ==
    \/ StopStep
    \/ StopSweepStep
    \/ StopCrash

StopSpec == StopInit /\ [][StopNext]_stopAllVars
-----------------------------------------------------------------------------
(* Fairness: a host whose gate is closed starts the sweep, a sweep goes on *)
(* until it returns, the poller keeps ticking, and no step of either that  *)
(* can succeed fails, or is cut off by a crash, every time it is tried.    *)

StopFairness ==
    /\ WF_stopAllVars(StopSweepStep /\ phase # "ready")
    /\ \A a \in Attempts :
         SF_stopAllVars((\E x \in work : x.att = a /\ RunClassify(x)) /\ UNCHANGED stopVars)
    /\ \A a \in Attempts :
         SF_stopAllVars(sweepStops = {} /\ RunEscalate(a) /\ UNCHANGED stopVars)
    /\ \A s \in Stops : SF_stopAllVars(\E x \in sweepStops : x.stop = s /\ RunStop(x))
    /\ SF_stopAllVars(sweepStops = {} /\ RunReread /\ UNCHANGED stopVars)
    /\ SF_stopAllVars(RunComplete /\ UNCHANGED stopVars)
    /\ WF_stopAllVars(StopPollStep)
    /\ \A s \in Stops : SF_stopAllVars(\E x \in pollStops : x.stop = s /\ PollStop(x))

LiveStopSpec == StopSpec /\ StopFairness

-----------------------------------------------------------------------------
(* Properties.                                                             *)

\* A /kill is posted at most once per stop, after its intent, and at most one
\* live stop of an attempt ever posts one: restarts, sweeps, ticks and commits
\* reported as errors never reissue it (coordinator.go: "A pre-existing
\* STOP_REQUESTED is never an execution permit").
KillDiscipline ==
    \A s \in Stops :
        /\ kills[s] <= 1
        /\ kills[s] > 0 => Reserved(s)
        /\ \A r \in Stops \ {s} :
             /\ kills[s] > 0
             /\ stopOp[s].purpose = "RUNNING_ATTEMPT_STOP"
             /\ Reserved(r)
             /\ stopOp[r].purpose = "RUNNING_ATTEMPT_STOP"
             => stopOp[r].att # stopOp[s].att

\* WORKER_STOPPED is only ever written for a worker that AO has killed for this
\* attempt, with the confirmation of that very stop on record; an accepted or
\* confirmed stop is one AO has executed.
StoppedIsReal ==
    /\ \A a \in Attempts :
         disposition[a] = "WORKER_STOPPED" =>
             \E s \in killed :
                 /\ StopIs(s, "STOP_TERMINATION_CONFIRMED", "TERMINATION_CONFIRMED")
                 /\ stopOp[s].purpose = "RUNNING_ATTEMPT_STOP"
                 /\ stopOp[s].att = a
    /\ \A s \in Stops :
         /\ Reserved(s)
         /\ stopOp[s].stage \in { "STOP_CALL_SUCCEEDED", "STOP_TERMINATION_CONFIRMED" }
         => s \in killed

\* The session gate covers the Pair: a CLEAN session, the one gate that a new
\* dispatch of another task looks at, means that no attempt of any task is
\* quarantined, that no stop is unresolved, and that the last stop of this
\* runtime was confirmed or accepted for the session itself, whichever of D5,
\* D12, a live stop and D6 wrote the gates last.
SessionGateCovers ==
    sessionStatus # "NONE" /\ sessionQuarantine = "CLEAN" =>
        /\ QuarantinedAttempts = {}
        /\ \A s \in Stops : ~StopUnresolved(s)
        /\ \A s \in Stops :
             /\ Covers(s, NoAttempt)
             /\ \A r \in Stops : Covers(r, NoAttempt) => r <= s
             => \/ stopOp[s].resolution = "TERMINATION_CONFIRMED"
                \/ \E p \in Principals : AcceptedBy(s, NoAttempt, p)

\* A live stop in flight owns its attempt: no observer, late dispatch caller or
\* other stop closes it underneath (guardStopOwnedExecutionTx), so the stop can
\* still be resolved.
StopOwnsAttempt ==
    \A s \in Stops :
        /\ Reserved(s)
        /\ stopOp[s].purpose = "RUNNING_ATTEMPT_STOP"
        /\ stopOp[s].resolution = "IN_FLIGHT"
        => /\ CurrentOpen(stopOp[s].att)
           /\ taskState[stopOp[s].att[1]] = "RUNNING"
           /\ LineageQuarantined(stopOp[s].att)

\* Until its kill is answered, the creating call and nobody else decides an
\* intent; what the sweep finds abandoned has no creator left
\* (ClassifyAbandonedStopAlive: "no creator retains an in-stack effect permit").
CreatorDecides ==
    \A s \in Stops :
        spc[s] \in { "reserved", "kill", "await" } => StopIs(s, "STOP_REQUESTED", "IN_FLIGHT")

\* What a poll tick holds it can finish: when the timeout monitor wins the
\* attempt, the tick that lost rereads and goes on (the execution-budget
\* addendum of ADR-016: observation and monitor compete, "loser đọc lại state").
PollReconcilesStops ==
    \A x \in poll :
        x.stage = "SEND_CONFIRMED" /\ StopOwned(x.att) => Superseded(x)

\* Evidence that settles the risk of lineage l: a kill AO executed and that was
\* confirmed, for the attempt itself or for the session's runtime, or a risk
\* that an operator accepted for this lineage.
Settled(l) ==
    \/ \E s \in killed : /\ StopIs(s, "STOP_TERMINATION_CONFIRMED", "TERMINATION_CONFIRMED")
                         /\ Covers(s, l)
    \/ \E s \in Stops, p \in Principals : AcceptedBy(s, l, p)

\* No gate opens without evidence for its own lineage: late outcomes, the
\* physical proof of another attempt's stop, or an operator's decision about
\* something else never clean it.
ClearedOnEvidence ==
    [][ \A l \in Lineages :
          LineageQuarantined(l) /\ ~LineageQuarantined(l)' => Settled(l)' ]_stopAllVars

\* A stop's resolution is decided once: a late answer, a late observer or a
\* second sweep finds the row taken; only an operator's acceptance follows.
StopDecidedOnce ==
    [][ \A s \in Stops :
          Reserved(s) /\ stopOp'[s] # stopOp[s] =>
              \/ stopOp[s].resolution = "IN_FLIGHT"
              \/ /\ stopOp'[s].resolution = "ADMINISTRATIVE_RISK_ACCEPTED"
                 /\ stopOp'[s].stage = stopOp[s].stage
                 /\ accepted'[s] # {} ]_stopAllVars

\* An intent whose delivery is unknown stays contained until an operator has
\* settled its own attempt, also across stops of later attempts.
UnknownNeedsSettlement ==
    \A a \in Attempts :
        resolution[a] = "DELIVERY_OUTCOME_UNKNOWN" =>
            /\ attemptState[a] = "ENDED"
            /\ disposition[a] = "UNCERTAIN_DELIVERY_CRASH"
            /\ LineageQuarantined(a) \/ Settled(a)

\* An accepted kill does not wait for ever: once its deadline has passed, the
\* sweep or the poller decides it, whatever AO answers or fails to answer.
AcceptedKillDecided ==
    \A s \in Stops :
        StopIs(s, "STOP_CALL_SUCCEEDED", "IN_FLIGHT") /\ s \in late
            ~> ~StopIs(s, "STOP_CALL_SUCCEEDED", "IN_FLIGHT")
=============================================================================
