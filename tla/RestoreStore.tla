---------------------------- MODULE RestoreStore ----------------------------
(***************************************************************************)
(* The store transactions of a restore (restore_transactions.go and the    *)
(* restore half of recovery_transactions.go).  A restore reopens a         *)
(* terminated session under a new terminal generation; its row locks the   *)
(* Pair until an operator resolves it.  Repeating a resolution that is     *)
(* already on record is read-only and is not written here.                 *)
(***************************************************************************)
EXTENDS StopStore

\* A principal has a name (every operation refuses principal == "").
ASSUME PrincipalsAssumption == NULL \notin Principals

Restores == 1 .. MaxRestores

RestoreIs(r, stg, res) ==
    /\ restoreOp.id = r
    /\ restoreOp.stage = stg
    /\ restoreOp.resolution = res

\* The attempts that ran in generation g of the session.
AttemptsOf(g) == { a \in Attempts : attemptState[a] # "NONE" /\ boundGen[a] = g }

QuarantineAttempts(as) ==
    quarantine' = [a \in Attempts |-> IF a \in as THEN "QUARANTINED" ELSE quarantine[a]]

\* Every gate of the Pair is open and nothing is in progress.
RestoreAdmissible ==
    /\ sessionStatus = "TERMINATED"
    /\ sessionQuarantine = "CLEAN"
    /\ \A a \in Attempts :
         /\ attemptState[a] # "OPEN"
         /\ ~LineageQuarantined(a)
         /\ ~(stage[a] = "SEND_REQUESTED" /\ resolution[a] = NULL)
    /\ \A t \in Tasks :
         /\ currentAttempt[t] > 0 => attemptState[<<t, currentAttempt[t]>>] # "NONE"
         /\ taskState[t] \notin { "DISPATCHED", "RUNNING", "BLOCKED" }
    /\ ~PairBlocked
    /\ \A s \in Stops : ~StopUnresolved(s)

\* Mutant: only the session is quarantined.
ReservePairRestore_AttemptsOpen(r) ==
    /\ r = restoreOp.id + 1
    /\ RestoreAdmissible
    /\ sessionQuarantine' = "QUARANTINED"
    /\ restoreOp' = [ id |-> r, stage |-> "RESTORE_REQUESTED", resolution |-> "IN_FLIGHT",
                      gen |-> sessionGen, observed |-> sessionGen, owner |-> NULL ]
    /\ UNCHANGED <<taskVars, attemptVars, dispatchVars,
                   sessionGen, sessionStatus, stopOp, provisionStage>>

\* The intent, with the quarantine of everything that ran in this generation.
ReservePairRestore(r) ==
    /\ r = restoreOp.id + 1
    /\ RestoreAdmissible
    /\ sessionQuarantine' = "QUARANTINED"
    /\ QuarantineAttempts(AttemptsOf(sessionGen))
    /\ restoreOp' = [ id |-> r, stage |-> "RESTORE_REQUESTED", resolution |-> "IN_FLIGHT",
                      gen |-> sessionGen, observed |-> sessionGen, owner |-> NULL ]
    /\ UNCHANGED <<taskVars, attemptState, disposition, boundGen, dispatchVars,
                   sessionGen, sessionStatus, stopOp, provisionStage>>

RecordPairRestoreUnknown(r) ==
    /\ restoreOp.id = r
    /\ restoreOp.resolution = "IN_FLIGHT"
    /\ restoreOp' = [restoreOp EXCEPT !.resolution = "RESTORE_OUTCOME_UNKNOWN"]
    /\ UNCHANGED <<taskVars, attemptVars, dispatchVars, sessionVars, stopOp, provisionStage>>

\* HTTP 200: the new generation becomes the session's, still quarantined.
ConfirmPairRestore(r, g, status) ==
    /\ RestoreIs(r, "RESTORE_REQUESTED", "IN_FLIGHT")
    /\ status \in { "ACTIVE", "IDLE", "TERMINATED" }
    /\ sessionGen = restoreOp.gen
    /\ restoreOp' = [restoreOp EXCEPT !.stage = "RESTORE_CONFIRMED", !.observed = g]
    /\ sessionGen' = g
    /\ sessionStatus' = status
    /\ sessionQuarantine' = "QUARANTINED"
    /\ UNCHANGED <<taskVars, attemptVars, dispatchVars, stopOp, provisionStage>>

\* Mutant: the interrupted intent is taken for one that never left.
ClassifyInterruptedRestore_Dropped(r) ==
    \/ /\ \/ RestoreIs(r, "RESTORE_CONFIRMED", "IN_FLIGHT")
          \/ RestoreIs(r, "RESTORE_REQUESTED", "RESTORE_OUTCOME_UNKNOWN")
       /\ UNCHANGED rows
    \/ /\ RestoreIs(r, "RESTORE_REQUESTED", "IN_FLIGHT")
       /\ restoreOp' = [restoreOp EXCEPT !.resolution = "RESTORE_RESOLVED"]
       /\ UNCHANGED <<taskVars, attemptVars, dispatchVars, sessionVars, stopOp, provisionStage>>

\* The sweep's verdict on an intent it finds in flight.
ClassifyInterruptedRestore(r) ==
    \/ /\ \/ RestoreIs(r, "RESTORE_CONFIRMED", "IN_FLIGHT")
          \/ RestoreIs(r, "RESTORE_REQUESTED", "RESTORE_OUTCOME_UNKNOWN")
       /\ UNCHANGED rows
    \/ /\ RestoreIs(r, "RESTORE_REQUESTED", "IN_FLIGHT")
       /\ sessionGen = restoreOp.gen
       /\ restoreOp' = [restoreOp EXCEPT !.resolution = "RESTORE_OUTCOME_UNKNOWN"]
       /\ sessionQuarantine' = "QUARANTINED"
       /\ QuarantineAttempts(AttemptsOf(restoreOp.gen))
       /\ UNCHANGED <<taskVars, attemptState, disposition, boundGen, dispatchVars,
                      sessionGen, sessionStatus, stopOp, provisionStage>>

-----------------------------------------------------------------------------
(* The operator's resolutions.  None of them opens a quarantine gate.      *)

\* The generation the session row must name while the restore is unresolved.
RestoreGen == IF restoreOp.stage = "RESTORE_CONFIRMED" THEN restoreOp.observed ELSE restoreOp.gen

LinkedStops == { s \in Stops : Reserved(s) /\ stopOp[s].restore = restoreOp.id }

LinkedStopsTerminal ==
    \A s \in LinkedStops :
        stopOp[s].resolution \in
            { "TERMINATION_CONFIRMED", "STOP_TARGET_ABSENT", "ADMINISTRATIVE_RISK_ACCEPTED" }

RestoreResolves(p) ==
    /\ restoreOp' = [restoreOp EXCEPT !.resolution = "RESTORE_RESOLVED", !.owner = p]
    /\ UNCHANGED <<taskVars, attemptVars, dispatchVars, sessionVars, stopOp, provisionStage>>

\* After a fresh idle or waiting_input status of the restored generation.
ResolveConfirmedRestore(p) ==
    /\ restoreOp.stage = "RESTORE_CONFIRMED"
    /\ \/ restoreOp.resolution = "IN_FLIGHT"
       \/ restoreOp.resolution = "RESTORE_RECOVERY_CLAIMED" /\ restoreOp.owner = p
    /\ sessionGen = restoreOp.observed
    /\ LinkedStopsTerminal
    /\ RestoreResolves(p)

\* A confirmed stop aimed at lineage l.
PhysicallyStopped(l) == \E s \in Stops : PositiveD11StopEvidence(s) /\ Covers(s, l)

\* Class A: the linked stop is confirmed, and so is one of each quarantined
\* attempt in its own generation.
PhysicalBasis ==
    /\ \E s \in LinkedStops :
         /\ PositiveD11StopEvidence(s)
         /\ sessionGen = IF restoreOp.stage = "RESTORE_CONFIRMED"
                           THEN stopOp[s].gen ELSE restoreOp.gen
    /\ \A a \in QuarantinedAttempts : PhysicallyStopped(a)

\* restoreAdministrativeCoverageTx: every closed gate is covered by a physical
\* proof, or by a decision of this principal on a stop of this restore.
AdministrativeCoverage(p) ==
    \A l \in { k \in Lineages : LineageQuarantined(k) } :
        \/ PhysicallyStopped(l)
        \/ \E s \in LinkedStops :
             /\ AcceptedBy(s, l, p)
             /\ stopOp[s].resolution \in { "STOP_TARGET_ABSENT", "ADMINISTRATIVE_RISK_ACCEPTED" }

\* Mutant: a terminal linked stop is enough.
ResolveAmbiguousRestore_AnyStop(basis, p) ==
    /\ RestoreUnresolved
    /\ restoreOp.resolution # "IN_FLIGHT"
    /\ LinkedStopsTerminal
    /\ restoreOp.resolution # "RESTORE_OUTCOME_UNKNOWN" => restoreOp.owner = p
    /\ RestoreResolves(p)

ResolveAmbiguousRestore(basis, p) ==
    /\ RestoreUnresolved
    /\ restoreOp.resolution # "IN_FLIGHT"
    /\ LinkedStopsTerminal
    /\ restoreOp.resolution # "RESTORE_OUTCOME_UNKNOWN" => restoreOp.owner = p
    /\ \/ /\ basis = "PHYSICAL_EXECUTION_RESOLUTION"
          /\ PhysicalBasis
       \/ /\ basis = "ADMINISTRATIVE_RISK_RESOLUTION"
          /\ LinkedStops # {} => AdministrativeCoverage(p)
    /\ RestoreResolves(p)

\* One principal takes the restore over; nobody takes it from them.
ClaimRestoreRecovery(p) ==
    /\ \/ restoreOp.resolution = "RESTORE_OUTCOME_UNKNOWN"
       \/ restoreOp.resolution = "IN_FLIGHT" /\ restoreOp.stage = "RESTORE_CONFIRMED"
    /\ restoreOp' = [restoreOp EXCEPT !.resolution = "RESTORE_RECOVERY_CLAIMED", !.owner = p]
    /\ UNCHANGED <<taskVars, attemptVars, dispatchVars, sessionVars, stopOp, provisionStage>>

\* What the one linked stop may be aimed at: the runtime a fresh status shows
\* alive, or a closed attempt of the generation the restore started from.
LinkedTarget(purpose, a, g) ==
    \/ /\ purpose = "PAIR_MAINTENANCE"
       /\ a = NoAttempt
       /\ restoreOp.stage = "RESTORE_CONFIRMED" => g = restoreOp.observed
    \/ /\ purpose = "QUARANTINE_CLEANUP"
       /\ a \in QuarantinedAttempts
       /\ attemptState[a] = "ENDED"
       /\ boundGen[a] = g
       /\ g = restoreOp.gen

\* The cleanup claim and its stop intent in one transaction.
ClaimRestoreCleanupWithStop(s, purpose, a, g, p) ==
    /\ NextRow(s)
    /\ LinkedStops = {}      \* idx_stop_restore_operation
    /\ restoreOp.resolution = "RESTORE_RECOVERY_CLAIMED"
    /\ restoreOp.owner = p
    /\ sessionQuarantine = "QUARANTINED"
    /\ sessionGen = RestoreGen
    /\ LinkedTarget(purpose, a, g)
    /\ restoreOp' = [restoreOp EXCEPT !.resolution = "RESTORE_CLEANUP_CLAIMED"]
    /\ stopOp' = [stopOp EXCEPT ![s] =
         [ purpose |-> purpose, att |-> a, gen |-> g, stage |-> "STOP_REQUESTED",
           resolution |-> "IN_FLIGHT", timeout |-> FALSE, restore |-> restoreOp.id ]]
    /\ UNCHANGED <<taskVars, attemptVars, dispatchVars, sessionVars, provisionStage>>
=============================================================================
