----------------------------- MODULE StopStore -----------------------------
(***************************************************************************)
(* The store transactions of a stop (internal/store/stop_transactions.go)  *)
(* and of the quarantine clearance that rests on stops (D6,                *)
(* clearance_transactions.go).  A stop linked to a restore is created by   *)
(* RestoreStore and goes through the same outcomes.  The audit trail is    *)
(* state here, since acceptance and clearance are read back from it;       *)
(* deadlines are persisted and only the fact that one has passed is kept.  *)
(***************************************************************************)
EXTENDS DispatchStore

VARIABLES
    accepted,  \* ADMINISTRATIVE_RISK_ACCEPTED audits, by stop
    cleared,   \* QUARANTINE_RESOLVED audits of D6, by the stop they cite
    overdue,   \* attempts whose execution budget has run out
    late       \* stops whose confirmation deadline has passed

auditVars == <<accepted, cleared>>
clockVars == <<overdue, late>>

\* What a quarantine gate belongs to: an attempt, or the worker session
\* (written NoAttempt, as the code writes the empty attempt id).
Lineages == Attempts \cup {NoAttempt}

GenOf(l) == IF l = NoAttempt THEN sessionGen ELSE boundGen[l]

\* The lineage with its runtime generation, as clearances record it.
Tuple(l) == <<l, GenOf(l)>>

\* Acceptances also record the principal, and speak for nobody else.
AcceptedBy(s, l, p) == <<l, GenOf(l), p>> \in accepted[s]

LineageQuarantined(l) ==
    IF l = NoAttempt
      THEN sessionStatus # "NONE" /\ sessionQuarantine = "QUARANTINED"
      ELSE attemptState[l] # "NONE" /\ quarantine[l] = "QUARANTINED"

QuarantinedAttempts == { a \in Attempts : LineageQuarantined(a) }

RestoreUnresolved == restoreOp.stage # "NONE" /\ restoreOp.resolution # "RESTORE_RESOLVED"

\* The resolutions that keep every other stop of the Pair out.
UnresolvedResolutions ==
    { "IN_FLIGHT", "STOP_CALL_OUTCOME_UNKNOWN", "STOP_CONFIRMATION_TIMEOUT",
      "STOP_REISSUE_REQUIRES_HUMAN" }

Reserved(s) == stopOp[s] # NoStop

Linked(s) == stopOp[s].restore # 0

\* guardStopRestoreOwner: while a restore is unresolved only its own linked stop
\* moves, and only under a cleanup claim; afterwards only unlinked stops do.
StopRestoreOwner(s) ==
    IF RestoreUnresolved
      THEN stopOp[s].restore = restoreOp.id /\ restoreOp.resolution = "RESTORE_CLEANUP_CLAIMED"
      ELSE ~Linked(s)

StopIs(s, stg, res) ==
    /\ Reserved(s)
    /\ stopOp[s].stage = stg
    /\ stopOp[s].resolution = res

StopUnresolved(s) == Reserved(s) /\ stopOp[s].resolution \in UnresolvedResolutions

StopTypes ==
    /\ accepted \in [Stops -> SUBSET (Lineages \X Generations \X Principals)]
    /\ cleared \in [Stops -> SUBSET (Lineages \X Generations)]
    /\ overdue \subseteq Attempts
    /\ late \subseteq Stops

StopStoreInit ==
    /\ accepted = [s \in Stops |-> {}]
    /\ cleared = [s \in Stops |-> {}]
    /\ overdue = {}
    /\ late = {}

-----------------------------------------------------------------------------
(* Reservation.                                                            *)

\* Row identities are handed out in rowid order.
NextRow(s) == ~Reserved(s) /\ \A r \in 1 .. (s - 1) : Reserved(r)

\* What a timeout adds: a budget that has run out on a clean, confirmed
\* execution with no disposition that already decides it.
TimeoutEligible(a) ==
    /\ budget[a] # "NONE"
    /\ a \in overdue
    /\ stage[a] = "SEND_CONFIRMED"
    /\ quarantine[a] = "CLEAN"
    /\ sessionQuarantine = "CLEAN"
    /\ disposition[a] \in { NULL, "AO_WAITING_INPUT_OBSERVED" }

\* Which target a stop of each purpose may have.
StopTarget(purpose, a, timeout) ==
    \/ /\ purpose = "RUNNING_ATTEMPT_STOP"
       /\ a \in Attempts
       /\ CurrentOpen(a)
       /\ taskState[a[1]] = "RUNNING"
       /\ timeout => TimeoutEligible(a)
    \/ /\ purpose = "QUARANTINE_CLEANUP"
       /\ a \in QuarantinedAttempts
       /\ attemptState[a] = "ENDED"
       /\ taskState[a[1]] \in { "FAILED", "HUMAN_REQUIRED" }
       /\ ~timeout
    \/ /\ purpose = "PAIR_MAINTENANCE"
       /\ a = NoAttempt
       /\ ~timeout

\* createStopOperationTx: the row, for the attempt's own runtime.
CreateStopOperation(s, purpose, a, timeout) ==
    /\ NextRow(s)
    /\ a # NoAttempt => boundGen[a] = sessionGen
    /\ ~PairBlocked
    /\ purpose = "RUNNING_ATTEMPT_STOP" =>    \* idx_one_live_stop_per_attempt
         \A r \in Stops :
           Reserved(r) /\ stopOp[r].att = a => stopOp[r].purpose # "RUNNING_ATTEMPT_STOP"
    /\ stopOp' = [stopOp EXCEPT ![s] =
         [ purpose |-> purpose, att |-> a, gen |-> sessionGen, stage |-> "STOP_REQUESTED",
           resolution |-> "IN_FLIGHT", timeout |-> timeout, restore |-> 0 ]]

\* The intent, and the quarantine of what it is about to stop.
ReserveStopOperation(s, purpose, a, timeout) ==
    /\ sessionStatus # "NONE"
    /\ \A r \in Stops : ~StopUnresolved(r)
    /\ StopTarget(purpose, a, timeout)
    /\ CreateStopOperation(s, purpose, a, timeout)
    /\ sessionQuarantine' = "QUARANTINED"
    /\ quarantine' = [b \in Attempts |->
         IF purpose = "RUNNING_ATTEMPT_STOP" /\ b = a THEN "QUARANTINED" ELSE quarantine[b]]
    /\ UNCHANGED <<taskVars, attemptState, disposition, boundGen, dispatchVars,
                   sessionGen, sessionStatus, restoreOp, provisionStage>>

\* The quarantine that the reservation itself made is the only risk left.
ValidateTimeoutEffectOwner(s) ==
    LET a == stopOp[s].att IN
    /\ StopIs(s, "STOP_REQUESTED", "IN_FLIGHT")
    /\ stopOp[s].timeout
    /\ CurrentOpen(a)
    /\ taskState[a[1]] = "RUNNING"
    /\ disposition[a] \in { NULL, "AO_WAITING_INPUT_OBSERVED" }
    /\ QuarantinedAttempts = {a}
    /\ SessionMatches(a)
    /\ sessionQuarantine = "QUARANTINED"
    /\ stage[a] = "SEND_CONFIRMED"
    /\ \A r \in Stops \ {s} : ~StopUnresolved(r)
    /\ ~PairBlocked
    /\ \A b \in Attempts : resolution[b] # "DELIVERY_OUTCOME_UNKNOWN"

-----------------------------------------------------------------------------
(* Outcomes.                                                               *)

\* HTTP 200: the confirmation deadline starts, once.
CommitStopCallAccepted(s) ==
    /\ Reserved(s) /\ StopRestoreOwner(s)
    /\ StopIs(s, "STOP_REQUESTED", "IN_FLIGHT")
    /\ stopOp' = [stopOp EXCEPT ![s].stage = "STOP_CALL_SUCCEEDED"]
    /\ UNCHANGED <<taskVars, attemptVars, dispatchVars, sessionVars, restoreOp, provisionStage>>

\* validStopTransition and validStopOutcome: <<from, to, resolution>>.
StopOutcomes ==
    { <<"STOP_CALL_SUCCEEDED", "STOP_TERMINATION_CONFIRMED", "TERMINATION_CONFIRMED">>,
      <<"STOP_REQUESTED", "STOP_TARGET_ABSENT", "STOP_TARGET_ABSENT">>,
      <<"STOP_CALL_SUCCEEDED", "STOP_TARGET_ABSENT", "STOP_TARGET_ABSENT">>,
      <<"STOP_REQUESTED", "STOP_CALL_FAILED", "STOP_CALL_FAILED">>,
      <<"STOP_CALL_SUCCEEDED", "STOP_CALL_SUCCEEDED", "STOP_CONFIRMATION_TIMEOUT">>,
      <<"STOP_REQUESTED", "STOP_REQUESTED", "STOP_GENERATION_MISMATCH">>,
      <<"STOP_CALL_SUCCEEDED", "STOP_CALL_SUCCEEDED", "STOP_GENERATION_MISMATCH">>,
      <<"STOP_REQUESTED", "STOP_REQUESTED", "STOP_EFFECT_UNPROVEN_TARGET_ALREADY_TERMINATED">>,
      <<"STOP_REQUESTED", "STOP_REQUESTED", "STOP_CALL_OUTCOME_UNKNOWN">> }

StopDisposition(res) ==
    CASE res = "TERMINATION_CONFIRMED"     -> "WORKER_STOPPED"
      [] res = "STOP_TARGET_ABSENT"        -> "SESSION_ABSENT"
      [] res = "STOP_CONFIRMATION_TIMEOUT" -> "STOP_CONFIRMATION_TIMEOUT"
      [] res = "STOP_GENERATION_MISMATCH"  -> "STOP_GENERATION_MISMATCH"
      [] res = "STOP_CALL_OUTCOME_UNKNOWN" -> "STOP_CALL_OUTCOME_UNKNOWN"
      [] OTHER -> "WORKER_TERMINATION_UNKNOWN"

\* Risks that a physical proof for attempt a does not settle.
OtherRisk(a) ==
    \/ QuarantinedAttempts \ {a} # {}
    \/ RestoreUnresolved
    \/ \E b \in Attempts : resolution[b] = "DELIVERY_OUTCOME_UNKNOWN"

\* Mutant: the attempt is closed and the task is left where it is.
CloseLiveStop_TaskStays(s, res) ==
    LET a == stopOp[s].att
        physical == res = "TERMINATION_CONFIRMED"
    IN  /\ CurrentOpen(a)
        /\ attemptState' = [attemptState EXCEPT ![a] = "ENDED"]
        /\ disposition' = [disposition EXCEPT ![a] = StopDisposition(res)]
        /\ quarantine' = [quarantine EXCEPT ![a] = IF physical THEN "CLEAN" ELSE "QUARANTINED"]
        /\ sessionQuarantine' =
             IF physical /\ ~OtherRisk(a) THEN "CLEAN" ELSE "QUARANTINED"
        /\ sessionStatus' = IF physical THEN "TERMINATED" ELSE sessionStatus
        /\ UNCHANGED taskState

\* D12 of a live stop: RUNNING -> FAILED with the attempt closed.  Only a
\* physical proof cleans the attempt, and the session if nothing else is open.
CloseLiveStop(s, res) ==
    LET a == stopOp[s].att
        physical == res = "TERMINATION_CONFIRMED"
    IN  /\ CurrentOpen(a)
        /\ boundGen[a] = stopOp[s].gen
        /\ SessionMatches(a)
        /\ taskState[a[1]] = "RUNNING"
        /\ taskState' = [taskState EXCEPT ![a[1]] = "FAILED"]
        /\ attemptState' = [attemptState EXCEPT ![a] = "ENDED"]
        /\ disposition' = [disposition EXCEPT ![a] = StopDisposition(res)]
        /\ quarantine' = [quarantine EXCEPT ![a] = IF physical THEN "CLEAN" ELSE "QUARANTINED"]
        /\ sessionQuarantine' =
             IF physical /\ ~OtherRisk(a) THEN "CLEAN" ELSE "QUARANTINED"
        /\ sessionStatus' = IF physical THEN "TERMINATED" ELSE sessionStatus

\* The other purposes leave every quarantine in place.  The cleanup of an old
\* generation is evidence for its attempt only; any other stop of a generation
\* the session row does not name is refused.
MarkRuntime(s, res) ==
    /\ \/ /\ sessionGen = stopOp[s].gen
          /\ sessionQuarantine' = "QUARANTINED"
          /\ sessionStatus' =
               IF res = "TERMINATION_CONFIRMED" THEN "TERMINATED" ELSE sessionStatus
       \/ /\ sessionGen # stopOp[s].gen
          /\ Linked(s) /\ stopOp[s].purpose = "QUARANTINE_CLEANUP"
          /\ UNCHANGED <<sessionQuarantine, sessionStatus>>
    /\ UNCHANGED <<taskState, attemptState, disposition, quarantine>>

\* Mutant: the compare-and-set compares the stage alone, and the closure is blind.
CommitStopOutcome_StageOnly(s, from, to, res) ==
    /\ Reserved(s) /\ StopRestoreOwner(s)
    /\ stopOp[s].stage = from
    /\ <<from, to, res>> \in StopOutcomes
    /\ res = "TERMINATION_CONFIRMED" => s \notin late
    /\ stopOp' = [stopOp EXCEPT ![s].stage = to, ![s].resolution = res]
    /\ sessionQuarantine' = "QUARANTINED"
    /\ \/ /\ stopOp[s].purpose = "RUNNING_ATTEMPT_STOP"
          /\ taskState' = [taskState EXCEPT ![stopOp[s].att[1]] = "FAILED"]
          /\ attemptState' = [attemptState EXCEPT ![stopOp[s].att] = "ENDED"]
          /\ disposition' = [disposition EXCEPT ![stopOp[s].att] = StopDisposition(res)]
          /\ UNCHANGED <<quarantine, sessionStatus>>
       \/ stopOp[s].purpose # "RUNNING_ATTEMPT_STOP" /\ MarkRuntime(s, res)
    /\ UNCHANGED <<currentAttempt, contract, boundGen, dispatchVars,
                   sessionGen, restoreOp, provisionStage>>

CommitStopOutcome(s, from, to, res) ==
    /\ Reserved(s) /\ StopRestoreOwner(s)
    /\ StopIs(s, from, "IN_FLIGHT")
    /\ <<from, to, res>> \in StopOutcomes
    /\ res = "TERMINATION_CONFIRMED" => s \notin late
    /\ stopOp' = [stopOp EXCEPT ![s].stage = to, ![s].resolution = res]
    /\ \/ stopOp[s].purpose = "RUNNING_ATTEMPT_STOP" /\ CloseLiveStop(s, res)
       \/ stopOp[s].purpose # "RUNNING_ATTEMPT_STOP" /\ MarkRuntime(s, res)
    /\ UNCHANGED <<currentAttempt, contract, boundGen, dispatchVars,
                   sessionGen, restoreOp, provisionStage>>

\* An intent found with its target alive is never reissued automatically.
ClassifyAbandonedStopAlive(s) ==
    \/ StopIs(s, "STOP_REQUESTED", "STOP_REISSUE_REQUIRES_HUMAN") /\ UNCHANGED rows
    \/ /\ StopIs(s, "STOP_REQUESTED", "IN_FLIGHT")
       /\ StopRestoreOwner(s)
       /\ stopOp' = [stopOp EXCEPT ![s].resolution = "STOP_REISSUE_REQUIRES_HUMAN"]
       /\ UNCHANGED <<taskVars, attemptVars, dispatchVars, sessionVars,
                      restoreOp, provisionStage>>

-----------------------------------------------------------------------------
(* The operator's decisions.                                               *)

Absent(s) == StopIs(s, "STOP_TARGET_ABSENT", "STOP_TARGET_ABSENT")

\* One decision per stop.  Class B (an audited 404) speaks for the session and
\* the stop's own attempt, class C for any quarantined lineage.
AcceptStopAdministrativeRisk(s, ls, p) ==
    /\ Reserved(s)
    /\ accepted[s] = {}
    /\ StopRestoreOwner(s)
    /\ Linked(s) => restoreOp.owner = p
    /\ ls # {}
    /\ \A l \in ls : LineageQuarantined(l)
    /\ \/ /\ Absent(s)
          /\ \A l \in ls : l \in { NoAttempt, stopOp[s].att } /\ GenOf(l) = stopOp[s].gen
          /\ UNCHANGED stopOp
       \/ /\ stopOp[s].resolution \notin
               { "IN_FLIGHT", "TERMINATION_CONFIRMED", "STOP_TARGET_ABSENT",
                 "ADMINISTRATIVE_RISK_ACCEPTED" }
          /\ stopOp' = [stopOp EXCEPT ![s].resolution = "ADMINISTRATIVE_RISK_ACCEPTED"]
    /\ accepted' = [accepted EXCEPT ![s] = { <<l, GenOf(l), p>> : l \in ls }]
    /\ UNCHANGED <<taskVars, attemptVars, dispatchVars, sessionVars, restoreOp,
                   provisionStage, cleared>>

\* Stop s was aimed at lineage l.
Covers(s, l) ==
    /\ Reserved(s)
    /\ stopOp[s].gen = GenOf(l)
    /\ l # NoAttempt => stopOp[s].att = l

\* guardPairStopsForClearance: no stop of the Pair, cited or not, is open.
Reconciled(s, p) ==
    \/ stopOp[s].resolution = "TERMINATION_CONFIRMED"
    \/ /\ stopOp[s].resolution \in { "STOP_TARGET_ABSENT", "ADMINISTRATIVE_RISK_ACCEPTED" }
       /\ \A l \in QuarantinedAttempts \cup {NoAttempt} :
            Covers(s, l) => Tuple(l) \in cleared[s] \/ AcceptedBy(s, l, p)

\* Evidence may not predate the last stop aimed at its lineage.
LatestFor(s, l) ==
    \A r \in Stops : Covers(r, l) => Covers(s, l) /\ r <= s

\* A confirmed stop; one of an attempt speaks only while it is quarantined.
PositiveD11StopEvidence(s) ==
    /\ StopIs(s, "STOP_TERMINATION_CONFIRMED", "TERMINATION_CONFIRMED")
    /\ stopOp[s].att # NoAttempt =>
         attemptState[stopOp[s].att] = "ENDED" /\ LineageQuarantined(stopOp[s].att)

\* Mutant: an acceptance for one lineage speaks for all of them.
ClearanceBasis_AnyLineage(s, l, p) ==
    \/ PositiveD11StopEvidence(s) /\ Covers(s, l)
    \/ Reserved(s) /\ accepted[s] # {}

\* verifyClearanceBasis: class A is a physical proof, B an accepted absence,
\* C an accepted risk.
ClearanceBasis(s, l, p) ==
    \/ PositiveD11StopEvidence(s) /\ Covers(s, l)
    \/ Absent(s) /\ Covers(s, l) /\ AcceptedBy(s, l, p)
    \/ /\ Reserved(s)
       /\ stopOp[s].resolution = "ADMINISTRATIVE_RISK_ACCEPTED"
       /\ AcceptedBy(s, l, p)

\* Mutant: without guardPairStopsForClearance.
ClearQuarantineWithEvidence_Unguarded(evidence, p) ==
    /\ ~RestoreUnresolved
    /\ LineageQuarantined(NoAttempt)
    /\ DOMAIN evidence = QuarantinedAttempts \cup {NoAttempt}
    /\ \A a \in QuarantinedAttempts : attemptState[a] = "ENDED"
    /\ \A l \in DOMAIN evidence : ClearanceBasis(evidence[l], l, p)
    /\ quarantine' = [a \in Attempts |-> "CLEAN"]
    /\ sessionQuarantine' = "CLEAN"
    /\ cleared' = [s \in Stops |->
         cleared[s] \cup { Tuple(l) : l \in { k \in DOMAIN evidence : evidence[k] = s } }]
    /\ UNCHANGED <<taskVars, attemptState, disposition, boundGen, dispatchVars,
                   sessionGen, sessionStatus, pairOpVars, accepted>>

\* D6, all lineages of the Pair or none.  evidence names a stop for each.
ClearQuarantineWithEvidence(evidence, p) ==
    /\ ~RestoreUnresolved
    /\ LineageQuarantined(NoAttempt)
    /\ DOMAIN evidence = QuarantinedAttempts \cup {NoAttempt}
    /\ \A a \in QuarantinedAttempts : attemptState[a] = "ENDED"
    /\ \A s \in Stops : Reserved(s) => Reconciled(s, p)
    /\ \A l \in DOMAIN evidence :
         LatestFor(evidence[l], l) /\ ClearanceBasis(evidence[l], l, p)
    /\ quarantine' = [a \in Attempts |-> "CLEAN"]
    /\ sessionQuarantine' = "CLEAN"
    /\ cleared' = [s \in Stops |->
         cleared[s] \cup { Tuple(l) : l \in { k \in DOMAIN evidence : evidence[k] = s } }]
    /\ UNCHANGED <<taskVars, attemptState, disposition, boundGen, dispatchVars,
                   sessionGen, sessionStatus, pairOpVars, accepted>>
=============================================================================
