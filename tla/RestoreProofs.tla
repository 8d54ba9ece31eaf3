--------------------------- MODULE RestoreProofs ---------------------------
(***************************************************************************)
(* Theorems about Restore.  A step is a step of the stop saga, to which    *)
(* the lemmas of StopProofs apply, or one of the restore transactions,     *)
(* which write the restore row, the session row, quarantine gates and one  *)
(* linked stop.                                                            *)
(***************************************************************************)
EXTENDS Restore, StopProofs

-----------------------------------------------------------------------------
(* The inductive invariant.                                                *)

\* A call works on the restore it reserved and has not posted before "await";
\* AO executes only what was posted.
PostFollowsIntent ==
    \A r \in Restores :
        /\ rpc[r] # "none" => r <= restoreOp.id
        /\ rpc[r] = "post" => posts[r] = 0
        /\ posts[r] <= 1
        /\ posts[r] > 0 => r <= restoreOp.id
        /\ restored[r] # 0 => posts[r] > 0

\* A restore nobody has claimed has no owner, and none is open before the first.
RowOwned ==
    /\ restoreOp.stage = "NONE" <=> restoreOp.id = 0
    /\ restoreOp.stage = "NONE" => restoreOp.resolution = "RESTORE_RESOLVED"
    /\ restoreOp.resolution \in { "IN_FLIGHT", "RESTORE_OUTCOME_UNKNOWN" } => restoreOp.owner = NULL

\* A linked stop comes with the cleanup claim of its restore, and one of a
\* restore that was not confirmed is confirmed only for the old generation.
LinkedFollowsClaim ==
    /\ \A s \in Stops : Reserved(s) => stopOp[s].restore <= restoreOp.id
    /\ RestoreUnresolved =>
         \A s \in LinkedStops :
             /\ restoreOp.resolution = "RESTORE_CLEANUP_CLAIMED"
             /\ stopOp[s].purpose # "RUNNING_ATTEMPT_STOP"
             /\ stopOp[s].purpose = "QUARANTINE_CLEANUP" => stopOp[s].gen = restoreOp.gen
             /\ /\ stopOp[s].stage = "STOP_TERMINATION_CONFIRMED"
                /\ restoreOp.stage = "RESTORE_REQUESTED"
                => stopOp[s].gen = restoreOp.gen

\* AO's generations only grow, and the one of a restore is newer than the one
\* the restore started from.
GenerationsGrow ==
    /\ sessionGen <= aoGen
    /\ restoreOp.gen <= aoGen
    /\ \A r \in Restores :
          /\ restored[r] <= aoGen
          /\ r = restoreOp.id /\ restored[r] # 0 => restored[r] > restoreOp.gen

RestoreInv ==
    /\ SagaInv
    /\ RestoreTypeOK
    /\ LiveStops
    /\ KillFollowsIntent
    /\ StoppedIsReal
    /\ PostFollowsIntent
    /\ RowOwned
    /\ LinkedFollowsClaim
    /\ GenerationsGrow
    /\ RestoreLocksPair
    /\ AdoptedIsReal
    /\ UnknownNeedsSettlement

USE DEF NULL, NoAttempt, taskVars, attemptVars, dispatchVars, sessionVars, pairOpVars, rows
USE DEF callVars, wireVars, vars, recoveryVars, allVars
USE DEF auditVars, clockVars, effectVars, observerVars, stopVars, stopAllVars, OtherProcesses
USE DEF restoreVars, restoreAllVars

-----------------------------------------------------------------------------
(* The kinds of steps.                                                     *)

\* What a step of the stop saga may come with: a call posts or returns, all
\* calls are gone after a crash, or AO executes a request.
CallEffect ==
    \/ UNCHANGED <<rpc, posts, aoGen, restored>>
    \/ \E r \in Restores : GotoRestore(r, "none") /\ UNCHANGED <<posts, aoGen, restored>>
    \/ rpc' = [r \in Restores |-> "none"] /\ UNCHANGED <<posts, aoGen, restored>>
    \/ \E r \in Restores : ResumeWorker(r)
    \/ \E r \in Restores : AORestore(r)

StopKind == [StopNext]_stopAllVars /\ CallEffect

\* The restore transactions.
Reserves(r) ==
    /\ ReservePairRestore(r)
    /\ GotoRestore(r, "post") \/ UNCHANGED rpc

Confirms(r) ==
    /\ restored[r] # 0
    /\ \E status \in { "ACTIVE", "IDLE", "TERMINATED" } : ConfirmPairRestore(r, restored[r], status)
    /\ GotoRestore(r, "none")

\* The outcome becomes unknown: by the call or by the sweep.
GivesUp(r) ==
    /\ restoreOp.id = r
    /\ restoreOp.resolution = "IN_FLIGHT"
    /\ restoreOp' = [restoreOp EXCEPT !.resolution = "RESTORE_OUTCOME_UNKNOWN"]
    /\ \/ UNCHANGED <<quarantine, sessionQuarantine>>
       \/ sessionQuarantine' = "QUARANTINED" /\ QuarantineAttempts(AttemptsOf(restoreOp.gen))
    /\ UNCHANGED <<taskVars, attemptState, disposition, boundGen, dispatchVars,
                   sessionGen, sessionStatus, stopOp, provisionStage>>
    /\ GotoRestore(r, "none") \/ UNCHANGED rpc

Recovers(p) ==
    /\ \/ ResolveConfirmedRestore(p)
       \/ \E basis \in Bases : ResolveAmbiguousRestore(basis, p)
       \/ ClaimRestoreRecovery(p)
    /\ UNCHANGED rpc

RestoreTx ==
    /\ \/ \E r \in Restores : Reserves(r) \/ Confirms(r) \/ GivesUp(r)
       \/ \E p \in Principals : Recovers(p)
    /\ UNCHANGED spc

CleansUp ==
    \E s \in Stops, purpose \in StopPurposes, a \in Lineages, g \in Generations, p \in Principals :
        /\ ClaimRestoreCleanupWithStop(s, purpose, a, g, p)
        /\ GotoStop(s, "reserved") \/ UNCHANGED spc
        /\ UNCHANGED rpc

RestoreKind ==
    /\ RestoreTx \/ CleansUp
    /\ UNCHANGED <<OtherProcesses, auditVars, clockVars, kills, killed, observerVars,
                   posts, aoGen, restored>>

\* Every step is of one of the two kinds.
LEMMA RestoreKinds ==
    ASSUME RestoreTypeOK, [RestoreNext]_restoreAllVars
    PROVE  /\ StopKind \/ RestoreKind
           /\ sweepRestore' \in 0 .. MaxRestores
<1>1. ASSUME NEW r \in Restores, RestoreCallStep(r)
      PROVE  (StopKind \/ RestoreKind) /\ UNCHANGED sweepRestore
  <2>1. CASE RestoreStart(r)
    BY <2>1 DEF RestoreStart, RestoreKind, RestoreTx, Reserves
  <2>2. CASE ResumeWorker(r)
    BY <2>2 DEF ResumeWorker, StopKind, CallEffect
  <2>3. CASE RestoreConfirmed(r)
    BY <2>3 DEF RestoreConfirmed, RestoreKind, RestoreTx, Confirms
  <2>4. CASE RestoreUnknown(r)
    <3>1. CASE RecordPairRestoreUnknown(r)
      <4>1. GivesUp(r)
        BY <2>4, <3>1 DEF RestoreUnknown, RecordPairRestoreUnknown, GivesUp
      <4> QED BY <2>4, <4>1 DEF RestoreUnknown, RestoreKind, RestoreTx
    <3>2. CASE UNCHANGED rows
      BY <2>4, <3>2 DEF RestoreUnknown, StopKind, CallEffect
    <3> QED BY <2>4, <3>1, <3>2 DEF RestoreUnknown
  <2> QED BY <1>1, <2>1, <2>2, <2>3, <2>4 DEF RestoreCallStep
<1>2. ASSUME NEW p \in Principals, RecoverRestoreStep(p)
      PROVE  (StopKind \/ RestoreKind) /\ UNCHANGED sweepRestore
  <2>1. CASE ResolveRestore(p) \/ (\E basis \in Bases : ResolveAmbiguous(basis, p)) \/ ClaimRecovery(p)
    <3>1. Recovers(p) /\ UNCHANGED <<OtherProcesses, stopVars, restoreVars>>
      BY <2>1 DEF ResolveRestore, ResolveAmbiguous, ClaimRecovery, Recovers
    <3> QED BY <3>1 DEF RestoreKind, RestoreTx
  <2>2. ASSUME NEW s \in Stops, NEW purpose \in StopPurposes, NEW a \in Lineages,
               NEW g \in Generations, ClaimRestoreCleanup(s, purpose, a, g, p)
        PROVE  RestoreKind /\ UNCHANGED sweepRestore
    <3>1. CleansUp
      BY <2>2 DEF ClaimRestoreCleanup, CleansUp
    <3> QED BY <2>2, <3>1 DEF ClaimRestoreCleanup, RestoreKind
  <2> QED BY <1>2, <2>1, <2>2 DEF RecoverRestoreStep
<1>3. CASE StopStep /\ UNCHANGED restoreVars
  BY <1>3 DEF StopKind, CallEffect, StopNext, RestoreTypeOK
<1>4. ASSUME NEW r \in Restores, AORestore(r)
      PROVE  StopKind /\ UNCHANGED sweepRestore
  BY <1>4 DEF AORestore, StopKind, CallEffect
<1>5. CASE RestoreSweepStep
  <2>1. CASE RestoreRunStart \/ RestoreRunFails \/ (StopSweepWork /\ UNCHANGED restoreVars)
    <3>1. StopNext /\ UNCHANGED <<rpc, posts, aoGen, restored>>
      BY <2>1 DEF RestoreRunStart, RestoreRunFails, StopNext, StopSweepStep
    <3>2. restoreOp.id \in 0 .. MaxRestores /\ 0 \in 0 .. MaxRestores
      BY MaxRestoresAssumption
         DEF RestoreTypeOK, StopTypeOK, RecoveryTypeOK, TypeOK, RowsTypeOK, RestoreRows
    <3>3. sweepRestore' \in 0 .. MaxRestores
      BY <2>1, <3>2 DEF RestoreRunStart, RestoreRunFails, RestoreTypeOK
    <3> QED BY <3>1, <3>3 DEF StopKind, CallEffect
  <2>2. CASE RunRestore
    <3>0. sweepRestore \in Restores /\ sweepRestore' \in 0 .. MaxRestores
      BY <2>2, MaxRestoresAssumption DEF RunRestore, RestoreTypeOK, Restores
    <3>1. CASE UNCHANGED rows
      BY <2>2, <3>0, <3>1 DEF RunRestore, StopKind, CallEffect
    <3>2. PICK r \in Restores : r = sweepRestore
      BY <3>0
    <3>3. CASE ~UNCHANGED rows
      <4>1. GivesUp(r)
        BY <2>2, <3>2, <3>3 DEF RunRestore, ClassifyInterruptedRestore, RestoreIs, GivesUp
      <4> QED BY <2>2, <3>0, <4>1 DEF RunRestore, RestoreKind, RestoreTx
    <3> QED BY <3>1, <3>3
  <2> QED BY <1>5, <2>1, <2>2 DEF RestoreSweepStep
<1>6. CASE RestoreCrash
  BY <1>6, MaxRestoresAssumption DEF RestoreCrash, StopKind, CallEffect, StopNext
<1>7. CASE UNCHANGED restoreAllVars
  BY <1>7 DEF StopKind, CallEffect, RestoreTypeOK
<1> QED BY <1>1, <1>2, <1>3, <1>4, <1>5, <1>6, <1>7 DEF RestoreNext, RestoreTypeOK

-----------------------------------------------------------------------------
(* The rows under the restore transactions.                                *)

\* A restore row is a row.
LEMMA RestoreRow ==
    ASSUME RowsTypeOK
    PROVE  /\ restoreOp \in RestoreRows
           /\ restoreOp.id \in 0 .. MaxRestores
           /\ restoreOp.stage \in RestoreStages
           /\ restoreOp.resolution \in RestoreResolutions
           /\ restoreOp.gen \in Generations
           /\ restoreOp.observed \in Generations
           /\ restoreOp.owner \in Principals \cup {NULL}
BY DEF RowsTypeOK, RestoreRows

\* What every restore transaction leaves alone.
RestoreFrame ==
    /\ UNCHANGED <<taskVars, attemptState, disposition, boundGen, dispatchVars, provisionStage>>
    /\ UNCHANGED <<OtherProcesses, auditVars, clockVars, kills, killed, observerVars>>
    /\ UNCHANGED <<posts, aoGen, restored>>

LinkedRow(purpose, a, g, id) ==
    [ purpose |-> purpose, att |-> a, gen |-> g, stage |-> "STOP_REQUESTED",
      resolution |-> "IN_FLIGHT", timeout |-> FALSE, restore |-> id ]

\* Only a cleanup claim writes a stop: a new one, and not of a live attempt.
StopRowsKept ==
    \/ UNCHANGED <<stopOp, spc>>
    \/ \E s \in Stops :
          /\ NextRow(s) /\ Reserved(s)'
          /\ \A r \in Stops : r # s => stopOp'[r] = stopOp[r]
          /\ stopOp'[s] \in StopRows
          /\ stopOp'[s].purpose # "RUNNING_ATTEMPT_STOP"
          /\ stopOp'[s].stage = "STOP_REQUESTED"
          /\ stopOp'[s].restore = restoreOp.id
          /\ stopOp'[s].purpose = "QUARANTINE_CLEANUP" => stopOp'[s].gen = restoreOp.gen
          /\ restoreOp' = [restoreOp EXCEPT !.resolution = "RESTORE_CLEANUP_CLAIMED"]
          /\ restoreOp.resolution = "RESTORE_RECOVERY_CLAIMED"
          /\ UNCHANGED <<sessionVars, quarantine, rpc>>
          /\ GotoStop(s, "reserved") \/ UNCHANGED spc

\* The transactions stay in the frame.
LEMMA RestoreKeepsFrame ==
    ASSUME RowsTypeOK, RestoreKind
    PROVE  RestoreFrame /\ StopRowsKept
<1>1. CASE RestoreTx
  <2>1. RestoreFrame /\ UNCHANGED <<stopOp, spc>>
    BY <1>1 DEF RestoreKind, RestoreTx, Reserves, ReservePairRestore, Confirms, ConfirmPairRestore,
       GivesUp, Recovers, ResolveConfirmedRestore, ResolveAmbiguousRestore, RestoreResolves,
       ClaimRestoreRecovery, RestoreFrame
  <2> QED BY <2>1 DEF StopRowsKept
<1>2. CASE CleansUp
  <2>1. PICK s \in Stops, purpose \in StopPurposes, a \in Lineages, g \in Generations,
             p \in Principals :
          /\ ClaimRestoreCleanupWithStop(s, purpose, a, g, p)
          /\ GotoStop(s, "reserved") \/ UNCHANGED spc
          /\ UNCHANGED rpc
    BY <1>2 DEF CleansUp
  <2>2. RestoreFrame
    BY <2>1 DEF RestoreKind, ClaimRestoreCleanupWithStop, RestoreFrame
  <2>3. PICK id \in 0 .. MaxRestores : id = restoreOp.id
    BY RestoreRow
  <2>4. stopOp' = [stopOp EXCEPT ![s] = LinkedRow(purpose, a, g, id)]
    BY <2>1, <2>3 DEF ClaimRestoreCleanupWithStop, LinkedRow
  <2>5. /\ LinkedRow(purpose, a, g, id) \in StopRows
        /\ LinkedRow(purpose, a, g, id).purpose = purpose
        /\ LinkedRow(purpose, a, g, id).gen = g
        /\ LinkedRow(purpose, a, g, id).stage = "STOP_REQUESTED"
        /\ LinkedRow(purpose, a, g, id).restore = id
    BY DEF LinkedRow, StopRows, Lineages, StopStages, StopResolutions
  <2>6. /\ stopOp'[s] = LinkedRow(purpose, a, g, id)
        /\ \A r \in Stops : r # s => stopOp'[r] = stopOp[r]
    BY <2>4 DEF RowsTypeOK
  <2>7. /\ purpose # "RUNNING_ATTEMPT_STOP"
        /\ purpose = "QUARANTINE_CLEANUP" => g = restoreOp.gen
    BY <2>1 DEF ClaimRestoreCleanupWithStop, LinkedTarget
  <2>8. Reserved(s)'
    BY <2>5, <2>6, RowIsReserved DEF Reserved
  <2>9. /\ NextRow(s)
        /\ restoreOp' = [restoreOp EXCEPT !.resolution = "RESTORE_CLEANUP_CLAIMED"]
        /\ restoreOp.resolution = "RESTORE_RECOVERY_CLAIMED"
        /\ UNCHANGED <<sessionVars, quarantine, rpc>>
    BY <2>1 DEF ClaimRestoreCleanupWithStop
  <2> HIDE DEF NextRow
  <2> QED BY <2>1, <2>2, <2>3, <2>5, <2>6, <2>7, <2>8, <2>9 DEF StopRowsKept
<1> QED BY <1>1, <1>2 DEF RestoreKind

\* How a restore transaction changes the restore row and the session row.
Begun ==
    /\ ~RestoreUnresolved
    /\ RestoreAdmissible
    /\ restoreOp'.id = restoreOp.id + 1 /\ restoreOp'.id \in Restores
    /\ restoreOp'.stage = "RESTORE_REQUESTED"
    /\ restoreOp'.resolution = "IN_FLIGHT"
    /\ restoreOp'.gen = sessionGen
    /\ restoreOp'.owner = NULL
    /\ sessionQuarantine' = "QUARANTINED"
    /\ QuarantineAttempts(AttemptsOf(sessionGen))
    /\ UNCHANGED <<sessionGen, sessionStatus>>
    /\ GotoRestore(restoreOp'.id, "post") \/ UNCHANGED rpc

Adopted ==
    /\ restoreOp.id \in Restores
    /\ restoreOp.stage = "RESTORE_REQUESTED" /\ restoreOp.resolution = "IN_FLIGHT"
    /\ restored[restoreOp.id] # 0
    /\ restoreOp'.id = restoreOp.id
    /\ restoreOp'.stage = "RESTORE_CONFIRMED"
    /\ restoreOp'.observed = restored[restoreOp.id]
    /\ restoreOp'.resolution = restoreOp.resolution
    /\ restoreOp'.gen = restoreOp.gen
    /\ restoreOp'.owner = restoreOp.owner
    /\ sessionGen' = restored[restoreOp.id]
    /\ sessionStatus' \in { "ACTIVE", "IDLE", "TERMINATED" }
    /\ sessionQuarantine' = "QUARANTINED"
    /\ UNCHANGED quarantine
    /\ GotoRestore(restoreOp.id, "none")

\* A verdict, a claim or a resolution: resolution and owner move, gates close.
Decided ==
    /\ RestoreUnresolved
    /\ restoreOp'.id = restoreOp.id
    /\ restoreOp'.stage = restoreOp.stage
    /\ restoreOp'.gen = restoreOp.gen
    /\ restoreOp'.observed = restoreOp.observed
    /\ \/ /\ restoreOp.resolution = "IN_FLIGHT"
          /\ restoreOp'.resolution = "RESTORE_OUTCOME_UNKNOWN"
          /\ restoreOp'.owner = restoreOp.owner
       \/ /\ \/ restoreOp.resolution \in { "IN_FLIGHT", "RESTORE_OUTCOME_UNKNOWN" }
             \/ restoreOp'.owner = restoreOp.owner
          /\ restoreOp'.owner \in Principals
          /\ restoreOp'.resolution = "RESTORE_RESOLVED"
       \/ /\ restoreOp.resolution \in { "IN_FLIGHT", "RESTORE_OUTCOME_UNKNOWN" }
          /\ restoreOp'.owner \in Principals
          /\ restoreOp'.resolution = "RESTORE_RECOVERY_CLAIMED"
       \/ /\ restoreOp.resolution = "RESTORE_RECOVERY_CLAIMED"
          /\ restoreOp'.owner = restoreOp.owner
          /\ restoreOp'.resolution = "RESTORE_CLEANUP_CLAIMED"
    /\ UNCHANGED <<sessionGen, sessionStatus>>
    /\ sessionQuarantine = "QUARANTINED" => sessionQuarantine' = "QUARANTINED"
    /\ \A a \in Attempts : quarantine[a] = "QUARANTINED" => quarantine'[a] = "QUARANTINED"
    /\ (\E r \in Restores : GotoRestore(r, "none")) \/ UNCHANGED rpc

\* Every restore transaction is one of these, and keeps the types.
LEMMA RestoreMoves ==
    ASSUME RowsTypeOK, RowOwned, restored \in [Restores -> Generations], RestoreKind
    PROVE  /\ Begun \/ Adopted \/ Decided
           /\ RowsTypeOK'
<1>f. RestoreFrame /\ StopRowsKept
  BY RestoreKeepsFrame
<1>r. /\ restoreOp \in RestoreRows
      /\ restoreOp.id \in 0 .. MaxRestores
      /\ restoreOp.stage \in RestoreStages
      /\ restoreOp.resolution \in RestoreResolutions
      /\ restoreOp.gen \in Generations
      /\ restoreOp.observed \in Generations
      /\ restoreOp.owner \in Principals \cup {NULL}
  BY RestoreRow
<1>s. stopOp' \in [Stops -> StopRows \cup {NoStop}]
  <2>1. DOMAIN stopOp' = Stops /\ stopOp' = [s \in Stops |-> stopOp'[s]]
    <3>1. CASE UNCHANGED stopOp
      BY <3>1 DEF RowsTypeOK
    <3>2. CASE CleansUp
      BY <3>2 DEF CleansUp, ClaimRestoreCleanupWithStop, RowsTypeOK
    <3>3. CASE RestoreTx
      <4>1. UNCHANGED stopOp
        BY <3>3 DEF RestoreTx, Reserves, ReservePairRestore, Confirms, ConfirmPairRestore,
           GivesUp, Recovers, ResolveConfirmedRestore, ResolveAmbiguousRestore, RestoreResolves,
           ClaimRestoreRecovery
      <4> QED BY <3>1, <4>1
    <3> QED BY <3>2, <3>3 DEF RestoreKind
  <2>2. \A s \in Stops : stopOp'[s] \in StopRows \cup {NoStop}
    BY <1>f DEF StopRowsKept, RowsTypeOK
  <2> QED BY <2>1, <2>2
<1>t. ASSUME restoreOp' \in RestoreRows, sessionGen' \in Generations,
             sessionStatus' \in SessionStatuses, sessionQuarantine' \in QuarantineStates,
             quarantine' \in [Attempts -> QuarantineStates]
      PROVE  RowsTypeOK'
  BY <1>f, <1>s, <1>t DEF RestoreFrame, RowsTypeOK
<1>1. ASSUME NEW r \in Restores, Reserves(r)
      PROVE  Begun /\ RowsTypeOK'
  <2>1. restoreOp' = [ id |-> r, stage |-> "RESTORE_REQUESTED", resolution |-> "IN_FLIGHT",
                       gen |-> sessionGen, observed |-> sessionGen, owner |-> NULL ]
    BY <1>1 DEF Reserves, ReservePairRestore
  <2>2. /\ restoreOp'.id = r /\ restoreOp'.stage = "RESTORE_REQUESTED"
        /\ restoreOp'.resolution = "IN_FLIGHT" /\ restoreOp'.gen = sessionGen
        /\ restoreOp'.owner = NULL
    BY <2>1
  <2>3. restoreOp' \in RestoreRows
    BY <2>1 DEF RestoreRows, Restores, RowsTypeOK, RestoreStages, RestoreResolutions
  <2>4. r = restoreOp.id + 1 /\ RestoreAdmissible /\ ~RestoreUnresolved
    BY <1>1 DEF Reserves, ReservePairRestore, RestoreAdmissible, PairBlocked, RestoreUnresolved
  <2>5. quarantine' \in [Attempts -> QuarantineStates]
    BY <1>1 DEF Reserves, ReservePairRestore, QuarantineAttempts, RowsTypeOK, QuarantineStates
  <2>6. RowsTypeOK'
    BY <1>1, <1>t, <2>3, <2>5 DEF Reserves, ReservePairRestore, RowsTypeOK, QuarantineStates
  <2>7. Begun
    BY <1>1, <2>2, <2>4 DEF Reserves, ReservePairRestore, Begun
  <2> QED BY <2>6, <2>7
<1>2. ASSUME NEW r \in Restores, Confirms(r)
      PROVE  Adopted /\ RowsTypeOK'
  <2>1. PICK status \in { "ACTIVE", "IDLE", "TERMINATED" } :
           ConfirmPairRestore(r, restored[r], status)
    BY <1>2 DEF Confirms
  <2>2. PICK g \in Generations : g = restored[r]
    OBVIOUS
  <2>3. restoreOp' = [restoreOp EXCEPT !.stage = "RESTORE_CONFIRMED", !.observed = g]
    BY <2>1, <2>2 DEF ConfirmPairRestore
  <2>4. /\ restoreOp'.id = restoreOp.id /\ restoreOp'.stage = "RESTORE_CONFIRMED"
        /\ restoreOp'.observed = g
        /\ restoreOp'.resolution = restoreOp.resolution
        /\ restoreOp'.gen = restoreOp.gen
        /\ restoreOp'.owner = restoreOp.owner
        /\ restoreOp' \in RestoreRows
    BY <1>r, <2>3 DEF RestoreRows, RestoreStages
  <2>5. RowsTypeOK'
    BY <1>t, <2>1, <2>2, <2>4
       DEF ConfirmPairRestore, RowsTypeOK, SessionStatuses, QuarantineStates
  <2>6. Adopted
    BY <1>2, <2>1, <2>2, <2>4 DEF Confirms, ConfirmPairRestore, RestoreIs, Adopted
  <2> QED BY <2>5, <2>6
<1>3. ASSUME NEW res \in RestoreResolutions, NEW p \in Principals \cup {NULL},
             restoreOp' = [restoreOp EXCEPT !.resolution = res, !.owner = p]
      PROVE  /\ restoreOp'.id = restoreOp.id
             /\ restoreOp'.stage = restoreOp.stage
             /\ restoreOp'.gen = restoreOp.gen
             /\ restoreOp'.observed = restoreOp.observed
             /\ restoreOp'.resolution = res
             /\ restoreOp'.owner = p
             /\ restoreOp' \in RestoreRows
  BY <1>r, <1>3 DEF RestoreRows
<1>4. ASSUME NEW res
      PROVE  [restoreOp EXCEPT !.resolution = res] =
               [restoreOp EXCEPT !.resolution = res, !.owner = restoreOp.owner]
  BY <1>r DEF RestoreRows
<1>o. PICK owner \in Principals \cup {NULL} : owner = restoreOp.owner
  BY <1>r
<1>u. restoreOp.resolution # "RESTORE_RESOLVED" => RestoreUnresolved
  BY DEF RowOwned, RestoreUnresolved
<1>5. ASSUME NEW r \in Restores, GivesUp(r)
      PROVE  Decided /\ RowsTypeOK'
  <2>1. restoreOp' = [restoreOp EXCEPT !.resolution = "RESTORE_OUTCOME_UNKNOWN", !.owner = owner]
    BY <1>4, <1>5, <1>o DEF GivesUp
  <2>r. "RESTORE_OUTCOME_UNKNOWN" \in RestoreResolutions
    BY DEF RestoreResolutions
  <2>2. /\ restoreOp'.id = restoreOp.id
        /\ restoreOp'.stage = restoreOp.stage
        /\ restoreOp'.gen = restoreOp.gen
        /\ restoreOp'.observed = restoreOp.observed
        /\ restoreOp'.resolution = "RESTORE_OUTCOME_UNKNOWN"
        /\ restoreOp'.owner = owner
        /\ restoreOp' \in RestoreRows
    BY <1>3, <2>1, <2>r
  <2>3. /\ quarantine' \in [Attempts -> QuarantineStates]
        /\ \A a \in Attempts : quarantine[a] = "QUARANTINED" => quarantine'[a] = "QUARANTINED"
    BY <1>5 DEF GivesUp, QuarantineAttempts, RowsTypeOK, QuarantineStates
  <2>4. /\ sessionQuarantine' \in { sessionQuarantine, "QUARANTINED" }
        /\ UNCHANGED <<sessionGen, sessionStatus>>
        /\ restoreOp.resolution = "IN_FLIGHT"
        /\ GotoRestore(r, "none") \/ UNCHANGED rpc
    BY <1>5 DEF GivesUp
  <2>5. RowsTypeOK'
    BY <1>t, <2>2, <2>3, <2>4 DEF RowsTypeOK, QuarantineStates
  <2>6. Decided
    BY <1>o, <1>u, <2>2, <2>3, <2>4 DEF Decided
  <2> QED BY <2>5, <2>6
<1>6. ASSUME NEW p \in Principals, Recovers(p)
      PROVE  Decided /\ RowsTypeOK'
  <2>1. PICK res \in { "RESTORE_RESOLVED", "RESTORE_RECOVERY_CLAIMED" } :
          /\ restoreOp' = [restoreOp EXCEPT !.resolution = res, !.owner = p]
          /\ res = "RESTORE_RECOVERY_CLAIMED" =>
               restoreOp.resolution \in { "IN_FLIGHT", "RESTORE_OUTCOME_UNKNOWN" }
    BY <1>6 DEF Recovers, ResolveConfirmedRestore, ResolveAmbiguousRestore, RestoreResolves,
       ClaimRestoreRecovery
  <2>2. /\ RestoreUnresolved
        /\ restoreOp.resolution \in { "IN_FLIGHT", "RESTORE_OUTCOME_UNKNOWN" } \/ restoreOp.owner = p
        /\ UNCHANGED <<sessionVars, quarantine, rpc>>
    BY <1>6, <1>u DEF Recovers, ResolveConfirmedRestore, ResolveAmbiguousRestore, RestoreResolves,
       ClaimRestoreRecovery
  <2>3. /\ restoreOp'.id = restoreOp.id
        /\ restoreOp'.stage = restoreOp.stage
        /\ restoreOp'.gen = restoreOp.gen
        /\ restoreOp'.observed = restoreOp.observed
        /\ restoreOp'.resolution = res
        /\ restoreOp'.owner = p
        /\ restoreOp' \in RestoreRows
    BY <1>3, <2>1 DEF RestoreResolutions
  <2>4. RowsTypeOK'
    BY <1>t, <2>2, <2>3 DEF RowsTypeOK
  <2>5. Decided
    BY <2>1, <2>2, <2>3 DEF Decided
  <2> QED BY <2>4, <2>5
<1>7. ASSUME CleansUp
      PROVE  Decided /\ RowsTypeOK'
  <2>1. /\ restoreOp' = [restoreOp EXCEPT !.resolution = "RESTORE_CLEANUP_CLAIMED"]
        /\ restoreOp.resolution = "RESTORE_RECOVERY_CLAIMED"
        /\ UNCHANGED <<sessionVars, quarantine, rpc>>
    BY <1>7 DEF CleansUp, ClaimRestoreCleanupWithStop
  <2>2. restoreOp' = [restoreOp EXCEPT !.resolution = "RESTORE_CLEANUP_CLAIMED", !.owner = owner]
    BY <1>4, <1>o, <2>1
  <2>r. "RESTORE_CLEANUP_CLAIMED" \in RestoreResolutions
    BY DEF RestoreResolutions
  <2>3. /\ restoreOp'.id = restoreOp.id
        /\ restoreOp'.stage = restoreOp.stage
        /\ restoreOp'.gen = restoreOp.gen
        /\ restoreOp'.observed = restoreOp.observed
        /\ restoreOp'.resolution = "RESTORE_CLEANUP_CLAIMED"
        /\ restoreOp'.owner = owner
        /\ restoreOp' \in RestoreRows
    BY <1>3, <2>2, <2>r
  <2>4. RowsTypeOK'
    BY <1>t, <2>1, <2>3 DEF RowsTypeOK
  <2>5. Decided
    BY <1>o, <1>u, <2>1, <2>3 DEF Decided
  <2> QED BY <2>4, <2>5
<1> QED BY <1>1, <1>2, <1>5, <1>6, <1>7 DEF RestoreKind, RestoreTx

-----------------------------------------------------------------------------
(* What the sagas under it keep.                                           *)

\* A restore transaction leaves alone what dispatch and recovery relate.
LEMMA RestoreSagaInv ==
    ASSUME SagaInv, RowsTypeOK', RestoreFrame
    PROVE  SagaInv'
<1> USE DEF SagaInv, RestoreFrame
<1>1. RecoveryTypeOK'
  BY DEF RecoveryTypeOK, TypeOK
<1>2. RowInv'
  BY DEF RowInv, AttemptsExist, CurrentIsOpen, UnknownIsClosed, HeldNeverSent, OneActiveLane
<1>3. WireFollowsIntent' /\ CallersHoldIntent' /\ ConfirmedIsReal'
  BY DEF WireFollowsIntent, CallersHoldIntent, ConfirmedIsReal
<1> QED BY <1>1, <1>2, <1>3

\* And what the stops do.
LEMMA RestoreStopsKept ==
    ASSUME StopTypeOK, LiveStops, KillFollowsIntent, StoppedIsReal, RestoreFrame, StopRowsKept
    PROVE  /\ LiveStops'
           /\ StoppedIsReal'
<1>t. RowsTypeOK /\ killed \subseteq Stops
  BY DEF StopTypeOK, RecoveryTypeOK, TypeOK
<1>1. CASE UNCHANGED stopOp
  BY <1>1 DEF RestoreFrame, LiveStops, StoppedIsReal, StopIs, Reserved
<1>2. ASSUME NEW s \in Stops, NextRow(s), Reserved(s)',
             \A r \in Stops : r # s => stopOp'[r] = stopOp[r],
             stopOp'[s].purpose # "RUNNING_ATTEMPT_STOP",
             stopOp'[s].stage = "STOP_REQUESTED"
      PROVE  LiveStops' /\ StoppedIsReal'
  <2>1. ~Reserved(s)
    BY <1>2 DEF NextRow
  <2>2. LiveStops'
    BY <1>2, <2>1 DEF RestoreFrame, LiveStops, Reserved
  <2>3. ASSUME NEW a \in Attempts, disposition'[a] = "WORKER_STOPPED"
        PROVE  \E r \in killed' :
                 /\ StopIs(r, "STOP_TERMINATION_CONFIRMED", "TERMINATION_CONFIRMED")'
                 /\ stopOp'[r].purpose = "RUNNING_ATTEMPT_STOP"
                 /\ stopOp'[r].att = a
    <3>1. PICK r \in killed :
             /\ StopIs(r, "STOP_TERMINATION_CONFIRMED", "TERMINATION_CONFIRMED")
             /\ stopOp[r].purpose = "RUNNING_ATTEMPT_STOP"
             /\ stopOp[r].att = a
      BY <2>3 DEF RestoreFrame, StoppedIsReal
    <3>2. r \in Stops /\ r # s
      BY <1>t, <2>1, <3>1 DEF StopIs
    <3>3. stopOp'[r] = stopOp[r] /\ r \in killed'
      BY <1>2, <3>2 DEF RestoreFrame
    <3> QED BY <3>1, <3>3 DEF StopIs, Reserved
  <2>4. ASSUME NEW r \in Stops, Reserved(r)',
               stopOp'[r].stage \in { "STOP_CALL_SUCCEEDED", "STOP_TERMINATION_CONFIRMED" }
        PROVE  r \in killed'
    BY <1>2, <2>4 DEF RestoreFrame, StoppedIsReal, Reserved
  <2> QED BY <2>2, <2>3, <2>4 DEF StoppedIsReal
<1> QED BY <1>1, <1>2 DEF StopRowsKept

\* The linked stop's call starts where every other one starts.
LEMMA RestoreKillsKept ==
    ASSUME StopTypeOK, KillFollowsIntent, RestoreFrame, StopRowsKept
    PROVE  KillFollowsIntent' /\ spc' \in [Stops -> SPCs]
<1>t. /\ spc \in [Stops -> SPCs]
      /\ kills \in [Stops -> 0 .. MaxKills]
  BY DEF StopTypeOK
<1>1. CASE UNCHANGED <<stopOp, spc>>
  BY <1>t, <1>1 DEF RestoreFrame, KillFollowsIntent, Reserved
<1>2. ASSUME NEW s \in Stops, NextRow(s), Reserved(s)',
             \A r \in Stops : r # s => stopOp'[r] = stopOp[r],
             GotoStop(s, "reserved") \/ UNCHANGED spc
      PROVE  KillFollowsIntent' /\ spc' \in [Stops -> SPCs]
  <2>1. ~Reserved(s)
    BY <1>2 DEF NextRow
  <2>2. kills[s] = 0
    BY <1>t, <2>1 DEF KillFollowsIntent
  <2>3. \A r \in Stops : Reserved(r) => Reserved(r)'
    BY <1>2 DEF Reserved
  <2>4. spc' \in [Stops -> SPCs]
    BY <1>t, <1>2 DEF GotoStop, SPCs
  <2>5. \A r \in Stops : r # s => spc'[r] = spc[r]
    BY <1>t, <1>2 DEF GotoStop
  <2>6. spc'[s] \in { "reserved", spc[s] }
    BY <1>t, <1>2 DEF GotoStop
  <2>7. KillFollowsIntent'
    BY <1>t, <1>2, <2>2, <2>3, <2>5, <2>6 DEF RestoreFrame, KillFollowsIntent
  <2> QED BY <2>4, <2>7
<1> QED BY <1>1, <1>2 DEF StopRowsKept

\* A step of the stop saga keeps the restore row and the session's generation.
LEMMA StopKeepsRestore ==
    ASSUME SagaInv, StopTypeOK, LiveStops, StopKind
    PROVE  Frame /\ (RecoveryKind \/ TickKind \/ TxKind)
BY StopKinds, KindFrame DEF StopKind

\* The calls keep their types.
LEMMA CallTypes ==
    ASSUME RestoreTypeOK, PostFollowsIntent, CallEffect
    PROVE  /\ rpc' \in [Restores -> RPCs]
           /\ posts' \in [Restores -> 0 .. MaxPosts]
           /\ aoGen' \in Generations
           /\ restored' \in [Restores -> Generations]
<1>t. /\ rpc \in [Restores -> RPCs]
      /\ posts \in [Restores -> 0 .. MaxPosts]
      /\ aoGen \in Generations
      /\ restored \in [Restores -> Generations]
  BY DEF RestoreTypeOK
<1>1. ASSUME NEW r \in Restores, ResumeWorker(r)
      PROVE  /\ rpc' \in [Restores -> RPCs] /\ posts' \in [Restores -> 0 .. MaxPosts]
             /\ UNCHANGED <<aoGen, restored>>
  <2>1. posts[r] < MaxPosts => posts[r] + 1 \in 0 .. MaxPosts
    BY <1>t, MaxPostsAssumption
  <2>2. posts' \in [Restores -> 0 .. MaxPosts]
    BY <1>t, <1>1, <2>1 DEF ResumeWorker
  <2>3. rpc' \in [Restores -> RPCs]
    BY <1>t, <1>1 DEF ResumeWorker, GotoRestore, RPCs
  <2> QED BY <1>1, <2>2, <2>3 DEF ResumeWorker
<1>2. ASSUME NEW r \in Restores, AORestore(r)
      PROVE  /\ aoGen' \in Generations /\ restored' \in [Restores -> Generations]
             /\ UNCHANGED <<rpc, posts>>
  <2>1. aoGen + 1 \in Generations
    BY <1>t, <1>2, MaxGenAssumption DEF AORestore, Generations
  <2> QED BY <1>t, <1>2, <2>1 DEF AORestore
<1>3. CASE \/ UNCHANGED <<rpc, posts, aoGen, restored>>
           \/ \E r \in Restores : GotoRestore(r, "none") /\ UNCHANGED <<posts, aoGen, restored>>
           \/ rpc' = [r \in Restores |-> "none"] /\ UNCHANGED <<posts, aoGen, restored>>
  BY <1>t, <1>3 DEF GotoRestore, RPCs
<1> QED BY <1>t, <1>1, <1>2, <1>3 DEF CallEffect

\* The stop saga's types, under a restore transaction.
LEMMA RestoreTypesKept ==
    ASSUME RestoreInv, RestoreKind, RestoreFrame, StopRowsKept, SagaInv',
           Begun \/ Adopted \/ Decided
    PROVE  /\ StopTypeOK'
           /\ rpc' \in [Restores -> RPCs]
           /\ posts' \in [Restores -> 0 .. MaxPosts]
           /\ aoGen' \in Generations
           /\ restored' \in [Restores -> Generations]
<1>t. /\ rpc \in [Restores -> RPCs]
      /\ posts \in [Restores -> 0 .. MaxPosts]
      /\ aoGen \in Generations
      /\ restored \in [Restores -> Generations]
      /\ StopTypeOK
  BY DEF RestoreTypeOK, RestoreInv
<1>1. spc' \in [Stops -> SPCs]
  BY <1>t, RestoreKillsKept DEF RestoreInv
<1>2. StopTypes'
  BY <1>t DEF StopTypeOK, StopTypes, RestoreFrame
<1>3. StopTypeOK'
  BY <1>t, <1>1, <1>2 DEF StopTypeOK, RestoreFrame, SagaInv
<1>4. rpc' \in [Restores -> RPCs]
  BY <1>t DEF Begun, Adopted, Decided, GotoRestore, RPCs
<1> QED BY <1>t, <1>3, <1>4 DEF RestoreFrame

-----------------------------------------------------------------------------
(* The parts of the invariant, one by one.                                 *)

\* A post follows its intent, once.
LEMMA PostStep ==
    ASSUME RestoreInv, StopKind \/ (RestoreFrame /\ (Begun \/ Adopted \/ Decided))
    PROVE  PostFollowsIntent'
<1>t. /\ rpc \in [Restores -> RPCs]
      /\ posts \in [Restores -> 0 .. MaxPosts]
      /\ restored \in [Restores -> Generations]
      /\ restoreOp.id \in 0 .. MaxRestores
      /\ StopTypeOK
  BY RestoreRow DEF RestoreInv, RestoreTypeOK, StopTypeOK, RecoveryTypeOK, TypeOK
<1>i. PostFollowsIntent
  BY DEF RestoreInv
<1>n. Restores \subseteq Nat /\ restoreOp.id \in Nat
  BY <1>t DEF Restores
<1>1. CASE StopKind
  <2>0. restoreOp' = restoreOp
    BY <1>1, <1>t, StopKeepsRestore DEF RestoreInv, Frame
  <2>1. ASSUME NEW r \in Restores, ResumeWorker(r)
        PROVE  PostFollowsIntent'
    <3>1. posts[r] = 0 /\ r <= restoreOp.id
      BY <1>i, <2>1 DEF ResumeWorker, PostFollowsIntent
    <3>2. rpc' = [rpc EXCEPT ![r] = "await"] /\ UNCHANGED restored
      BY <2>1 DEF ResumeWorker, GotoRestore
    <3>3. posts' = posts \/ posts' = [posts EXCEPT ![r] = 1]
      BY <1>t, <2>1, <3>1 DEF ResumeWorker
    <3> QED BY <1>t, <1>i, <2>0, <3>1, <3>2, <3>3 DEF PostFollowsIntent
  <2>2. ASSUME NEW r \in Restores, AORestore(r)
        PROVE  PostFollowsIntent'
    BY <1>t, <1>i, <2>0, <2>2 DEF AORestore, PostFollowsIntent
  <2>3. CASE \/ UNCHANGED <<rpc, posts, aoGen, restored>>
             \/ \E r \in Restores : GotoRestore(r, "none") /\ UNCHANGED <<posts, aoGen, restored>>
             \/ rpc' = [r \in Restores |-> "none"] /\ UNCHANGED <<posts, aoGen, restored>>
    BY <1>t, <1>i, <2>0, <2>3 DEF GotoRestore, PostFollowsIntent
  <2> QED BY <1>1, <2>1, <2>2, <2>3 DEF StopKind, CallEffect
<1>2. CASE RestoreFrame /\ Begun
  <2>1. PICK id \in Restores : id = restoreOp'.id /\ id = restoreOp.id + 1
    BY <1>2 DEF Begun
  <2>2. posts[id] = 0
    BY <1>t, <1>i, <1>n, <2>1 DEF PostFollowsIntent
  <2>3. rpc' = [rpc EXCEPT ![id] = "post"] \/ UNCHANGED rpc
    BY <1>2, <2>1 DEF Begun, GotoRestore
  <2>4. UNCHANGED <<posts, restored>>
    BY <1>2 DEF RestoreFrame
  <2> QED BY <1>t, <1>i, <1>n, <2>1, <2>2, <2>3, <2>4 DEF PostFollowsIntent
<1>3. CASE RestoreFrame /\ (Adopted \/ Decided)
  <2>1. /\ restoreOp'.id = restoreOp.id
        /\ UNCHANGED <<posts, restored>>
        /\ UNCHANGED rpc \/ \E r \in Restores : rpc' = [rpc EXCEPT ![r] = "none"]
    BY <1>3 DEF RestoreFrame, Adopted, Decided, GotoRestore
  <2> QED BY <1>t, <1>i, <2>1 DEF PostFollowsIntent
<1> QED BY <1>1, <1>2, <1>3

\* Who owns the row.
LEMMA OwnedStep ==
    ASSUME RestoreInv, StopKind \/ Begun \/ Adopted \/ Decided
    PROVE  RowOwned'
<1>t. StopTypeOK /\ RowOwned /\ restoreOp.id \in 0 .. MaxRestores
  BY RestoreRow DEF RestoreInv, RestoreTypeOK, StopTypeOK, RecoveryTypeOK, TypeOK
<1>1. CASE StopKind
  BY <1>1, <1>t, StopKeepsRestore DEF RestoreInv, Frame, RowOwned
<1>2. CASE Begun
  BY <1>2, <1>t DEF Begun, RowOwned
<1>3. CASE Adopted
  BY <1>3, <1>t DEF Adopted, RowOwned, Restores
<1>4. CASE Decided
  BY <1>4, <1>t DEF Decided, RowOwned, RestoreUnresolved
<1> QED BY <1>1, <1>2, <1>3, <1>4

\* Generations only grow.
LEMMA GrowStep ==
    ASSUME RestoreInv, StopKind \/ (RestoreFrame /\ (Begun \/ Adopted \/ Decided))
    PROVE  GenerationsGrow'
<1>t. /\ posts \in [Restores -> 0 .. MaxPosts]
      /\ restored \in [Restores -> Generations]
      /\ aoGen \in Generations
      /\ sessionGen \in Generations
      /\ restoreOp.gen \in Generations
      /\ restoreOp.id \in 0 .. MaxRestores
      /\ StopTypeOK
  BY RestoreRow DEF RestoreInv, RestoreTypeOK, StopTypeOK, RecoveryTypeOK, TypeOK, RowsTypeOK
<1>n. Generations \subseteq Nat /\ Restores \subseteq Nat
  BY DEF Generations, Restores
<1>i. GenerationsGrow
  BY DEF RestoreInv
<1>1. CASE StopKind
  <2>0. restoreOp' = restoreOp /\ sessionGen' = sessionGen
    BY <1>1, <1>t, StopKeepsRestore DEF RestoreInv, Frame
  <2>1. ASSUME NEW r \in Restores, AORestore(r)
        PROVE  GenerationsGrow'
    <3>1. aoGen' = aoGen + 1 /\ restored' = [restored EXCEPT ![r] = aoGen + 1]
      BY <2>1 DEF AORestore
    <3>2. aoGen \in Nat /\ sessionGen \in Nat /\ restoreOp.gen \in Nat
      BY <1>t, <1>n
    <3>3. sessionGen' <= aoGen' /\ restoreOp'.gen <= aoGen'
      BY <1>i, <2>0, <3>1, <3>2 DEF GenerationsGrow
    <3>4. ASSUME NEW q \in Restores
          PROVE  /\ restored'[q] <= aoGen'
                 /\ q = restoreOp'.id /\ restored'[q] # 0 => restored'[q] > restoreOp'.gen
      <4>0. restored[q] \in Nat
        BY <1>t, <1>n
      <4>1. CASE q = r
        <5>1. restored'[q] = aoGen + 1
          BY <1>t, <3>1, <4>1
        <5> QED BY <1>i, <2>0, <3>1, <3>2, <5>1 DEF GenerationsGrow
      <4>2. CASE q # r
        <5>1. restored'[q] = restored[q]
          BY <1>t, <3>1, <4>2
        <5> QED BY <1>i, <2>0, <3>1, <3>2, <4>0, <5>1 DEF GenerationsGrow
      <4> QED BY <4>1, <4>2
    <3> QED BY <3>3, <3>4 DEF GenerationsGrow
  <2>2. CASE UNCHANGED <<aoGen, restored>>
    BY <1>i, <2>0, <2>2 DEF GenerationsGrow
  <2> QED BY <1>1, <2>1, <2>2 DEF StopKind, CallEffect, ResumeWorker
<1>2. CASE RestoreFrame /\ Begun
  <2>1. PICK id \in Restores : id = restoreOp'.id /\ id = restoreOp.id + 1
    BY <1>2 DEF Begun
  <2>2. restored[id] = 0
    BY <1>t, <1>n, <2>1 DEF RestoreInv, PostFollowsIntent
  <2> QED BY <1>2, <1>i, <2>1, <2>2 DEF RestoreFrame, Begun, GenerationsGrow
<1>3. CASE RestoreFrame /\ Adopted
  BY <1>3, <1>i DEF RestoreFrame, Adopted, GenerationsGrow
<1>4. CASE RestoreFrame /\ Decided
  BY <1>4, <1>i DEF RestoreFrame, Decided, GenerationsGrow
<1> QED BY <1>1, <1>2, <1>3, <1>4

\* A blocked Pair allocates no attempt and reopens none.
LEMMA BlockedAllocatesNothing ==
    ASSUME SagaInv, LiveStops, RecoveryKind \/ TickKind \/ TxKind, PairBlocked,
           NEW a \in Attempts
    PROVE  /\ attemptState[a] = "NONE" => attemptState'[a] = "NONE"
           /\ attemptState'[a] = "OPEN" => attemptState[a] = "OPEN"
<1> USE DEF SagaInv, RecoveryTypeOK, TypeOK, RowsTypeOK
<1>e. attemptState[a] \in AttemptStates
  OBVIOUS
<1>1. attemptState[a] = "ENDED" => attemptState'[a] = "ENDED"
  BY StopHistoryFrozen
<1>2. ASSUME attemptState[a] = "NONE"
      PROVE  attemptState'[a] = "NONE"
  <2>1. CASE TxKind
    BY <1>2, <2>1, TxKeepsFrame DEF TxKind, TxFrame
  <2>2. CASE QuietStep
    <3>1. CASE \/ UNCHANGED rows
               \/ \E t \in Tasks : InsertTaskContract(t)
               \/ \E t \in Tasks, to \in TaskStates : TransitionTask(t, to)
      BY <1>2, <3>1 DEF InsertTaskContract, TransitionTask
    <3>2. ASSUME NEW b \in Attempts, RecordUnknownDelivery(b) \/ AtomicAttemptClosureTransition(b)
          PROVE  attemptState'[a] = "NONE"
      BY <1>2, <3>2 DEF RecordUnknownDelivery, AtomicAttemptClosureTransition, CurrentOpen
    <3>3. ASSUME NEW b \in Attempts, NEW from \in TaskStates, NEW outcome \in Outcomes,
                 Closes(b, from, outcome)
          PROVE  attemptState'[a] = "NONE"
      BY <1>2, <3>3 DEF Closes, CurrentOpen
    <3>4. ASSUME NEW b \in Attempts, NEW d \in Dispositions, NEW state \in TaskStates,
                 Annotates(b, d, state)
          PROVE  attemptState'[a] = "NONE"
      BY <1>2, <3>4 DEF Annotates
    <3> QED BY <2>2, <3>1, <3>2, <3>3, <3>4 DEF QuietStep, QuietTx
  <2>3. ASSUME NEW c \in Callers, NEW t \in Tasks, DispatchReady(c, t)
        PROVE  FALSE
    BY <2>3 DEF DispatchReady, PrepareBoundDispatch
  <2>4. CASE \/ \E c \in Callers : \/ RequestSend(c)
                                   \/ ConfirmSend(c)
                                   \/ DispatchTaskContract(c)
                                   \/ ContainReread(c)
             \/ \E b \in Attempts : AODeliver(b)
    BY <1>2, <2>4 DEF RequestSend, RecordSendRequested, ConfirmSend, RecordSendConfirmed,
       DispatchTaskContract, ContainReread, AODeliver
  <2> QED BY <2>1, <2>2, <2>3, <2>4, KindMoves DEF LoudStep
<1> QED BY <1>e, <1>1, <1>2 DEF AttemptStates

\* While a restore is unresolved no stop opens a gate or closes an attempt.
LEMMA LockedTx ==
    ASSUME RowsTypeOK, RestoreUnresolved, \A a \in Attempts : attemptState[a] # "OPEN",
           LiveStops, StopTx
    PROVE  /\ UNCHANGED attemptState
           /\ sessionQuarantine = "QUARANTINED" => sessionQuarantine' = "QUARANTINED"
           /\ \A a \in Attempts : quarantine[a] = "QUARANTINED" => quarantine'[a] = "QUARANTINED"
<1>1. ASSUME NEW s \in Stops, StopReserves(s)
      PROVE  FALSE
  BY <1>1 DEF StopReserves, ReserveStopOperation, CreateStopOperation, PairBlocked, RestoreUnresolved
<1>2. ASSUME NEW s \in Stops, StopMoves(s)
      PROVE  /\ UNCHANGED <<attemptState, quarantine>>
             /\ sessionQuarantine' \in { sessionQuarantine, "QUARANTINED" }
  <2>1. Reserved(s)
    BY <1>2, MovedRow
  <2>2. ASSUME NEW res \in StopResolutions, stopOp[s].purpose = "RUNNING_ATTEMPT_STOP",
               CloseLiveStop(s, res)
        PROVE  FALSE
    BY <2>1, <2>2 DEF LiveStops, CloseLiveStop, CurrentOpen
  <2> QED BY <1>2, <2>2, MovedRow DEF OnlyGates, MarkRuntime
<1>3. ASSUME NEW s \in Stops, NEW ls \in SUBSET Lineages, NEW p \in Principals,
             AcceptStopAdministrativeRisk(s, ls, p)
      PROVE  UNCHANGED <<attemptState, quarantine, sessionQuarantine>>
  BY <1>3 DEF AcceptStopAdministrativeRisk
<1>4. ASSUME NEW evidence, NEW p \in Principals, ClearQuarantineWithEvidence(evidence, p)
      PROVE  FALSE
  BY <1>4 DEF ClearQuarantineWithEvidence
<1> QED BY <1>1, <1>2, <1>3, <1>4 DEF StopTx

\* An unresolved restore keeps the Pair locked.
LEMMA LockStep ==
    ASSUME RestoreInv, StopKind \/ (RestoreFrame /\ (Begun \/ Adopted \/ Decided))
    PROVE  RestoreLocksPair'
<1>t. RowsTypeOK /\ StopTypeOK
  BY DEF RestoreInv, RestoreTypeOK, StopTypeOK, RecoveryTypeOK, TypeOK
<1>n. NoAttempt \notin Attempts
  BY SessionIsNoAttempt
<1>i. RestoreUnresolved =>
        /\ sessionStatus # "NONE" /\ sessionQuarantine = "QUARANTINED"
        /\ \A a \in Attempts :
              attemptState[a] # "NONE" /\ boundGen[a] = restoreOp.gen => quarantine[a] = "QUARANTINED"
        /\ \A a \in Attempts : attemptState[a] # "OPEN"
        /\ sessionGen = RestoreGen
  BY <1>n DEF RestoreInv, RestoreLocksPair, LineageQuarantined, QuarantinedAttempts, AttemptsOf
<1> SUFFICES ASSUME RestoreUnresolved'
             PROVE  /\ sessionStatus' # "NONE" /\ sessionQuarantine' = "QUARANTINED"
                    /\ \A a \in Attempts :
                          attemptState'[a] # "NONE" /\ boundGen'[a] = restoreOp'.gen =>
                              quarantine'[a] = "QUARANTINED"
                    /\ \A a \in Attempts : attemptState'[a] # "OPEN"
                    /\ sessionGen' = RestoreGen'
  BY <1>n DEF RestoreLocksPair, LineageQuarantined, QuarantinedAttempts, AttemptsOf
<1>1. CASE StopKind
  <2>k. Frame /\ (RecoveryKind \/ TickKind \/ TxKind)
    BY <1>1, <1>t, StopKeepsRestore DEF RestoreInv
  <2>0. RestoreUnresolved /\ PairBlocked /\ restoreOp' = restoreOp /\ sessionGen' = sessionGen
    BY <2>k DEF Frame, RestoreUnresolved, PairBlocked
  <2>1. /\ sessionQuarantine' = "QUARANTINED"
        /\ \A a \in Attempts : quarantine[a] = "QUARANTINED" => quarantine'[a] = "QUARANTINED"
    <3>1. CASE RecoveryKind \/ TickKind
      BY <1>i, <2>0, <3>1, KindMoveFacts DEF RestoreInv, MoveFacts
    <3>2. CASE TxKind
      BY <1>t, <1>i, <2>0, <3>2, LockedTx DEF RestoreInv, TxKind
    <3> QED BY <2>k, <3>1, <3>2
  <2>2. \A a \in Attempts :
          /\ attemptState[a] = "NONE" => attemptState'[a] = "NONE"
          /\ attemptState'[a] # "OPEN"
    BY <1>i, <2>k, <2>0, BlockedAllocatesNothing DEF RestoreInv
  <2>3. \A a \in Attempts : attemptState[a] # "NONE" => boundGen'[a] = boundGen[a]
    BY <2>k DEF Frame
  <2>4. sessionStatus' # "NONE" /\ sessionGen' = RestoreGen'
    BY <1>i, <2>k, <2>0 DEF Frame, RestoreGen
  <2> QED BY <1>i, <2>0, <2>1, <2>2, <2>3, <2>4
<1>2. CASE RestoreFrame /\ Begun
  <2>1. sessionStatus' # "NONE" /\ sessionQuarantine' = "QUARANTINED" /\ sessionGen' = RestoreGen'
    BY <1>2 DEF Begun, RestoreAdmissible, RestoreGen
  <2>2. \A a \in Attempts : attemptState'[a] # "OPEN"
    BY <1>2 DEF Begun, RestoreAdmissible, RestoreFrame
  <2>3. \A a \in Attempts :
          attemptState'[a] # "NONE" /\ boundGen'[a] = restoreOp'.gen => quarantine'[a] = "QUARANTINED"
    BY <1>2 DEF Begun, RestoreFrame, QuarantineAttempts, AttemptsOf
  <2> QED BY <2>1, <2>2, <2>3
<1>3. CASE RestoreFrame /\ Adopted
  <2>1. RestoreUnresolved
    BY <1>3 DEF Adopted, RestoreUnresolved
  <2> QED BY <1>3, <1>i, <2>1 DEF RestoreFrame, Adopted, RestoreGen
<1>4. CASE RestoreFrame /\ Decided
  <2>1. RestoreUnresolved
    BY <1>4 DEF Decided
  <2>2. sessionStatus' # "NONE" /\ sessionQuarantine' = "QUARANTINED" /\ sessionGen' = RestoreGen'
    BY <1>4, <1>i, <2>1 DEF Decided, RestoreGen
  <2>3. /\ restoreOp'.gen = restoreOp.gen
        /\ \A a \in Attempts : quarantine[a] = "QUARANTINED" => quarantine'[a] = "QUARANTINED"
    BY <1>4 DEF Decided
  <2> QED BY <1>4, <1>i, <2>1, <2>2, <2>3 DEF RestoreFrame
<1> QED BY <1>1, <1>2, <1>3, <1>4

\* Generations are adopted from AO, for the restore that asked for them.
LEMMA AdoptedStep ==
    ASSUME RestoreInv, StopKind \/ (RestoreFrame /\ (Begun \/ Adopted \/ Decided))
    PROVE  AdoptedIsReal'
<1>t. /\ restored \in [Restores -> Generations]
      /\ restoreOp.gen \in Generations /\ restoreOp.observed \in Generations
      /\ restoreOp.id \in 0 .. MaxRestores
      /\ StopTypeOK
      /\ attemptState \in [Attempts -> AttemptStates]
  BY RestoreRow DEF RestoreInv, RestoreTypeOK, StopTypeOK, RecoveryTypeOK, TypeOK, RowsTypeOK
<1>n. Generations \subseteq Nat
  BY DEF Generations
<1>i. AdoptedIsReal
  BY DEF RestoreInv
<1>d. restoreOp.stage # "NONE" => restoreOp.id \in Restores
  BY <1>t DEF RestoreInv, RowOwned, Restores
<1>1. CASE StopKind
  <2>k. Frame /\ (RecoveryKind \/ TickKind \/ TxKind)
    BY <1>1, <1>t, StopKeepsRestore DEF RestoreInv
  <2>0. restoreOp' = restoreOp /\ sessionGen' = sessionGen
    BY <2>k DEF Frame
  <2>1. \A r \in Restores : restored[r] # 0 => restored'[r] = restored[r]
    BY <1>1, <1>t DEF StopKind, CallEffect, ResumeWorker, AORestore
  <2>2. sessionGen' # 0 => \E r \in Restores : restored'[r] = sessionGen'
    BY <1>i, <2>0, <2>1 DEF AdoptedIsReal
  <2>3. ASSUME restoreOp'.stage = "RESTORE_CONFIRMED"
        PROVE  restored'[restoreOp'.id] = restoreOp'.observed /\ restoreOp'.observed > restoreOp'.gen
    <3>1. /\ restoreOp.id \in Restores
          /\ restored[restoreOp.id] = restoreOp.observed /\ restoreOp.observed > restoreOp.gen
      BY <1>i, <1>d, <2>0, <2>3 DEF AdoptedIsReal
    <3>2. restoreOp.gen \in Nat /\ restoreOp.observed \in Nat
      BY <1>t, <1>n
    <3>3. restored[restoreOp.id] # 0
      BY <3>1, <3>2
    <3> QED BY <2>0, <2>1, <3>1, <3>3
  <2>4. ASSUME NEW a \in Attempts, attemptState'[a] = "OPEN"
        PROVE  boundGen'[a] = sessionGen'
    <3>1. attemptState[a] # "ENDED"
      BY <2>k, <2>4, StopHistoryFrozen DEF RestoreInv
    <3>2. CASE attemptState[a] = "OPEN"
      BY <1>i, <2>k, <2>0, <3>2 DEF Frame, AdoptedIsReal
    <3>3. CASE attemptState[a] = "NONE"
      BY <2>k, <2>0, <2>4, <3>3 DEF Frame
    <3> QED BY <1>t, <3>1, <3>2, <3>3 DEF AttemptStates
  <2> QED BY <2>2, <2>3, <2>4 DEF AdoptedIsReal
<1>2. CASE RestoreFrame /\ Begun
  BY <1>2, <1>i DEF RestoreFrame, Begun, AdoptedIsReal
<1>3. CASE RestoreFrame /\ Adopted
  <2>1. \A a \in Attempts : attemptState[a] # "OPEN"
    BY <1>3 DEF Adopted, RestoreInv, RestoreLocksPair, RestoreUnresolved
  <2>2. restored[restoreOp.id] > restoreOp.gen
    BY <1>3 DEF Adopted, RestoreInv, GenerationsGrow
  <2> QED BY <1>3, <2>1, <2>2 DEF RestoreFrame, Adopted, AdoptedIsReal
<1>4. CASE RestoreFrame /\ Decided
  BY <1>4, <1>i DEF RestoreFrame, Decided, AdoptedIsReal
<1> QED BY <1>1, <1>2, <1>3, <1>4

\* A stop of the session's runtime or of a closed attempt is confirmed only for
\* the generation of the session row, unless it cleans up an attempt.
LEMMA ConfirmedFor ==
    ASSUME SagaInv, RecoveryKind \/ TickKind \/ TxKind, NEW s \in Stops, Reserved(s),
           stopOp[s].purpose # "RUNNING_ATTEMPT_STOP",
           stopOp[s].stage # "STOP_TERMINATION_CONFIRMED",
           stopOp'[s].stage = "STOP_TERMINATION_CONFIRMED"
    PROVE  sessionGen = stopOp[s].gen \/ stopOp[s].purpose = "QUARANTINE_CLEANUP"
<1>t. RowsTypeOK
  BY DEF SagaInv, RecoveryTypeOK, TypeOK
<1>r. stopOp[s] \in StopRows /\ s \in DOMAIN stopOp
  BY <1>t, ReservedRow DEF RowsTypeOK
<1>u. ASSUME stopOp'[s] = stopOp[s]
      PROVE  FALSE
  BY <1>u
<1>1. CASE RecoveryKind \/ TickKind
  <2>1. UNCHANGED stopOp
    BY <1>1, KindMoveFacts DEF MoveFacts
  <2> QED BY <1>u, <2>1
<1>2. ASSUME NEW r \in Stops, StopReserves(r)
      PROVE  FALSE
  <2>1. RowsReserved(r)
    BY <1>t, <1>2, ReserveIsRowsReserved
  <2> QED BY <1>u, <2>1 DEF RowsReserved, NextRow
<1>3. ASSUME NEW r \in Stops, StopMoves(r), r # s
      PROVE  FALSE
  <2>1. RowsMoved(r)
    BY <1>t, <1>3, MoveIsRowsMoved
  <2> QED BY <1>3, <1>u, <2>1 DEF RowsMoved
<1>4. ASSUME StopMoves(s)
      PROVE  sessionGen = stopOp[s].gen \/ stopOp[s].purpose = "QUARANTINE_CLEANUP"
  <2>1. CASE CommitStopCallAccepted(s)
    <3>1. stopOp'[s] = [stopOp[s] EXCEPT !.stage = "STOP_CALL_SUCCEEDED"]
      BY <1>r, <2>1 DEF CommitStopCallAccepted
    <3>2. stopOp'[s].stage = "STOP_CALL_SUCCEEDED"
      BY <1>r, <3>1 DEF StopRows
    <3> QED BY <3>2
  <2>2. CASE Abandons(s)
    <3>1. stopOp'[s] = [stopOp[s] EXCEPT !.resolution = "STOP_REISSUE_REQUIRES_HUMAN"]
      BY <1>r, <2>2 DEF Abandons
    <3>2. stopOp'[s].stage = stopOp[s].stage
      BY <1>r, <3>1 DEF StopRows
    <3> QED BY <3>2
  <2>3. ASSUME NEW from \in StopStages, NEW to \in StopStages, NEW res \in StopResolutions,
               CommitStopOutcome(s, from, to, res)
        PROVE  sessionGen = stopOp[s].gen \/ stopOp[s].purpose = "QUARANTINE_CLEANUP"
    BY <2>3 DEF CommitStopOutcome, MarkRuntime
  <2> QED BY <1>4, <2>1, <2>2, <2>3 DEF StopMoves
<1>5. ASSUME NEW r \in Stops, NEW ls \in SUBSET Lineages, NEW p \in Principals,
             AcceptStopAdministrativeRisk(r, ls, p)
      PROVE  FALSE
  <2>1. CASE stopOp' = stopOp
    BY <1>u, <2>1
  <2>2. CASE stopOp' # stopOp /\ r # s
    BY <1>t, <1>5, <1>u, <2>2, AcceptIsRowsMoved DEF RowsMoved
  <2>3. CASE stopOp' # stopOp /\ r = s
    <3>1. stopOp' = [stopOp EXCEPT ![s].resolution = "ADMINISTRATIVE_RISK_ACCEPTED"]
      BY <1>5, <2>3 DEF AcceptStopAdministrativeRisk
    <3>2. stopOp'[s] = [stopOp[s] EXCEPT !.resolution = "ADMINISTRATIVE_RISK_ACCEPTED"]
      BY <1>r, <3>1
    <3>3. stopOp'[s].stage = stopOp[s].stage
      BY <1>r, <3>2 DEF StopRows
    <3> QED BY <3>3
  <2> QED BY <2>1, <2>2, <2>3
<1>6. ASSUME NEW evidence, NEW p \in Principals, ClearQuarantineWithEvidence(evidence, p)
      PROVE  FALSE
  BY <1>u, <1>6, ClearedNow
<1> QED BY <1>1, <1>2, <1>3, <1>4, <1>5, <1>6 DEF TxKind, StopTx

\* What LinkedFollowsClaim says of one linked stop.
LinkedRight(s) ==
    /\ restoreOp.resolution = "RESTORE_CLEANUP_CLAIMED"
    /\ stopOp[s].purpose # "RUNNING_ATTEMPT_STOP"
    /\ stopOp[s].purpose = "QUARANTINE_CLEANUP" => stopOp[s].gen = restoreOp.gen
    /\ /\ stopOp[s].stage = "STOP_TERMINATION_CONFIRMED"
       /\ restoreOp.stage = "RESTORE_REQUESTED"
       => stopOp[s].gen = restoreOp.gen

\* A step of the stop saga keeps linked stops behind their claim.
LEMMA LinkedStopKind ==
    ASSUME RestoreInv, StopKind
    PROVE  LinkedFollowsClaim'
<1>t. RowsTypeOK /\ StopTypeOK /\ SagaInv
  BY DEF RestoreInv, RestoreTypeOK, StopTypeOK, RecoveryTypeOK, TypeOK
<1>k. Frame /\ (RecoveryKind \/ TickKind \/ TxKind)
  BY <1>t, StopKeepsRestore DEF RestoreInv
<1>0. restoreOp' = restoreOp
  BY <1>k DEF Frame
<1>d. restoreOp.id \in 0 .. MaxRestores /\ (RestoreUnresolved => restoreOp.id # 0)
  BY <1>t, RestoreRow DEF RestoreInv, RowOwned, RestoreUnresolved
<1>i. /\ \A s \in Stops : Reserved(s) => stopOp[s].restore <= restoreOp.id
      /\ RestoreUnresolved =>
           \A s \in Stops : Reserved(s) /\ stopOp[s].restore = restoreOp.id => LinkedRight(s)
  BY DEF RestoreInv, LinkedFollowsClaim, LinkedStops, LinkedRight
<1>1. ASSUME NEW s \in Stops, Reserved(s)'
      PROVE  /\ stopOp'[s].restore <= restoreOp.id
             /\ RestoreUnresolved /\ stopOp'[s].restore = restoreOp.id =>
                  LinkedRight(s)'
  <2>1. CASE stopOp'[s] = stopOp[s]
    BY <1>0, <1>1, <1>i, <2>1 DEF Reserved, LinkedRight
  <2>2. CASE RowsReserved(s)
    <3>1. stopOp'[s].restore = 0
      BY <2>2 DEF RowsReserved
    <3> QED BY <1>d, <3>1
  <2>3. CASE RowsMoved(s)
    <3>1. /\ Reserved(s)
          /\ stopOp'[s].purpose = stopOp[s].purpose
          /\ stopOp'[s].gen = stopOp[s].gen
          /\ stopOp'[s].restore = stopOp[s].restore
      BY <2>3 DEF RowsMoved
    <3>2. ASSUME RestoreUnresolved, stopOp'[s].restore = restoreOp.id
          PROVE  LinkedRight(s)'
      <4>1. LinkedRight(s)
        BY <1>i, <3>1, <3>2
      <4>2. sessionGen = RestoreGen
        BY <3>2 DEF RestoreInv, RestoreLocksPair
      <4>3. ASSUME stopOp'[s].stage = "STOP_TERMINATION_CONFIRMED",
                   restoreOp.stage = "RESTORE_REQUESTED"
            PROVE  stopOp[s].gen = restoreOp.gen
        <5>1. CASE stopOp[s].stage = "STOP_TERMINATION_CONFIRMED"
          BY <4>1, <4>3, <5>1 DEF LinkedRight
        <5>2. CASE stopOp[s].stage # "STOP_TERMINATION_CONFIRMED"
          <6>1. stopOp[s].purpose # "RUNNING_ATTEMPT_STOP"
            BY <4>1 DEF LinkedRight
          <6>2. sessionGen = stopOp[s].gen \/ stopOp[s].purpose = "QUARANTINE_CLEANUP"
            BY <1>t, <1>k, <3>1, <4>3, <5>2, <6>1, ConfirmedFor
          <6> QED BY <4>1, <4>2, <4>3, <6>2 DEF LinkedRight, RestoreGen
        <5> QED BY <5>1, <5>2
      <4> QED BY <1>0, <3>1, <4>1, <4>3 DEF LinkedRight
    <3> QED BY <1>i, <3>1, <3>2
  <2>4. stopOp'[s] = stopOp[s] \/ RowsReserved(s) \/ RowsMoved(s)
    <3>1. ASSUME NEW r \in Stops, RowsReserved(r) \/ RowsMoved(r)
          PROVE  r = s \/ stopOp'[s] = stopOp[s]
      BY <3>1 DEF RowsReserved, RowsMoved
    <3> QED BY <1>t, <1>k, <3>1, KindRows
  <2> QED BY <2>1, <2>2, <2>3, <2>4
<1> QED BY <1>0, <1>1 DEF LinkedFollowsClaim, LinkedStops, LinkedRight, RestoreUnresolved

\* So does a restore transaction.
LEMMA LinkedRestoreKind ==
    ASSUME RestoreInv, StopRowsKept, Begun \/ Adopted \/ Decided
    PROVE  LinkedFollowsClaim'
<1>t. RowsTypeOK
  BY DEF RestoreInv, RestoreTypeOK, StopTypeOK, RecoveryTypeOK, TypeOK
<1>d. restoreOp.id \in Nat
  BY <1>t, RestoreRow
<1>m. \A s \in Stops : Reserved(s) => stopOp[s].restore \in Nat
  <2>1. ASSUME NEW s \in Stops, Reserved(s)
        PROVE  stopOp[s].restore \in Nat
    <3>1. stopOp[s] \in StopRows
      BY <1>t, <2>1, ReservedRow
    <3>2. stopOp[s].restore \in 0 .. MaxRestores
      BY <3>1 DEF StopRows
    <3> QED BY <3>2
  <2> QED BY <2>1
<1>i. /\ \A s \in Stops : Reserved(s) => stopOp[s].restore <= restoreOp.id
      /\ RestoreUnresolved =>
           \A s \in Stops : Reserved(s) /\ stopOp[s].restore = restoreOp.id => LinkedRight(s)
  BY DEF RestoreInv, LinkedFollowsClaim, LinkedStops, LinkedRight
<1>g. ASSUME \A s \in Stops : Reserved(s)' => stopOp'[s].restore <= restoreOp'.id,
             \A s \in Stops : /\ Reserved(s)' /\ stopOp'[s].restore = restoreOp'.id
                              /\ RestoreUnresolved'
                              => LinkedRight(s)'
      PROVE  LinkedFollowsClaim'
  BY <1>g DEF LinkedFollowsClaim, LinkedStops, LinkedRight, RestoreUnresolved
<1>1. CASE UNCHANGED <<stopOp, spc>> /\ Begun
  <2>1. restoreOp'.id = restoreOp.id + 1
    BY <1>1 DEF Begun
  <2>2. ASSUME NEW s \in Stops, Reserved(s)'
        PROVE  stopOp'[s].restore <= restoreOp'.id /\ stopOp'[s].restore # restoreOp'.id
    <3>1. Reserved(s) /\ stopOp'[s] = stopOp[s]
      BY <1>1, <2>2 DEF Reserved
    <3>2. stopOp[s].restore \in Nat /\ stopOp[s].restore <= restoreOp.id
      BY <1>i, <1>m, <3>1
    <3> QED BY <1>d, <2>1, <3>1, <3>2
  <2> QED BY <1>g, <2>2
<1>2. CASE UNCHANGED <<stopOp, spc>> /\ (Adopted \/ Decided)
  <2>1. restoreOp'.id = restoreOp.id /\ restoreOp'.gen = restoreOp.gen /\ RestoreUnresolved
    BY <1>2 DEF Adopted, Decided, RestoreUnresolved
  <2>2. ASSUME NEW s \in Stops, Reserved(s)'
        PROVE  /\ stopOp'[s].restore <= restoreOp'.id
               /\ stopOp'[s].restore = restoreOp'.id /\ RestoreUnresolved' => LinkedRight(s)'
    <3>1. Reserved(s) /\ stopOp'[s] = stopOp[s]
      BY <1>2, <2>2 DEF Reserved
    <3>2. ASSUME stopOp'[s].restore = restoreOp'.id, RestoreUnresolved'
          PROVE  LinkedRight(s)'
      <4>1. LinkedRight(s)
        BY <1>i, <2>1, <3>1, <3>2
      <4>2. restoreOp.resolution = "RESTORE_CLEANUP_CLAIMED"
        BY <4>1 DEF LinkedRight
      <4>3. restoreOp'.resolution # "RESTORE_RESOLVED"
        BY <3>2 DEF RestoreUnresolved
      <4> QED BY <1>2, <4>2, <4>3 DEF Adopted, Decided
    <3> QED BY <1>i, <2>1, <3>1, <3>2
  <2> QED BY <1>g, <2>2
<1>3. ASSUME NEW s \in Stops, NextRow(s),
             \A r \in Stops : r # s => stopOp'[r] = stopOp[r],
             stopOp'[s].purpose # "RUNNING_ATTEMPT_STOP",
             stopOp'[s].stage = "STOP_REQUESTED",
             stopOp'[s].restore = restoreOp.id,
             stopOp'[s].purpose = "QUARANTINE_CLEANUP" => stopOp'[s].gen = restoreOp.gen,
             restoreOp' = [restoreOp EXCEPT !.resolution = "RESTORE_CLEANUP_CLAIMED"],
             restoreOp.resolution = "RESTORE_RECOVERY_CLAIMED"
      PROVE  LinkedFollowsClaim'
  <2>1. /\ restoreOp'.id = restoreOp.id /\ restoreOp'.gen = restoreOp.gen
        /\ restoreOp'.stage = restoreOp.stage
        /\ restoreOp'.resolution = "RESTORE_CLEANUP_CLAIMED"
    BY <1>t, <1>3, RestoreRow DEF RestoreRows
  <2>2. RestoreUnresolved
    BY <1>3 DEF RestoreUnresolved, RestoreInv, RowOwned
  <2>3. LinkedRight(s)'
    BY <1>3, <2>1 DEF LinkedRight
  <2>4. ASSUME NEW r \in Stops, Reserved(r)', r # s
        PROVE  stopOp'[r].restore <= restoreOp'.id /\ stopOp'[r].restore # restoreOp'.id
    <3>1. Reserved(r) /\ stopOp'[r] = stopOp[r]
      BY <1>3, <2>4 DEF Reserved
    <3>2. ~LinkedRight(r)
      BY <1>3 DEF LinkedRight
    <3> QED BY <1>i, <2>1, <2>2, <3>1, <3>2
  <2>5. stopOp'[s].restore <= restoreOp'.id
    BY <1>3, <1>d, <2>1
  <2>6. \A r \in Stops : Reserved(r)' => stopOp'[r].restore <= restoreOp'.id
    BY <2>4, <2>5
  <2>7. \A r \in Stops : /\ Reserved(r)' /\ stopOp'[r].restore = restoreOp'.id
                         /\ RestoreUnresolved'
                         => LinkedRight(r)'
    BY <2>3, <2>4
  <2> QED BY <1>g, <2>6, <2>7
<1>4. CASE \E s \in Stops : /\ NextRow(s)
                            /\ \A r \in Stops : r # s => stopOp'[r] = stopOp[r]
                            /\ stopOp'[s].purpose # "RUNNING_ATTEMPT_STOP"
                            /\ stopOp'[s].stage = "STOP_REQUESTED"
                            /\ stopOp'[s].restore = restoreOp.id
                            /\ stopOp'[s].purpose = "QUARANTINE_CLEANUP" =>
                                 stopOp'[s].gen = restoreOp.gen
                            /\ restoreOp' =
                                 [restoreOp EXCEPT !.resolution = "RESTORE_CLEANUP_CLAIMED"]
                            /\ restoreOp.resolution = "RESTORE_RECOVERY_CLAIMED"
  BY <1>3, <1>4
<1> QED BY <1>1, <1>2, <1>4 DEF StopRowsKept

\* Restores take no evidence away and open no gate.
LEMMA RestoreGates ==
    ASSUME RestoreInv, RestoreFrame, StopRowsKept, Begun \/ Adopted \/ Decided
    PROVE  /\ \A l \in Lineages : LineageQuarantined(l) => LineageQuarantined(l)'
           /\ \A a \in Attempts : Settled(a) => Settled(a)'
<1>t. RowsTypeOK /\ killed \subseteq Stops
  BY DEF RestoreInv, RestoreTypeOK, StopTypeOK, RecoveryTypeOK, TypeOK
<1>n. NoAttempt \notin Attempts
  BY SessionIsNoAttempt
<1>1. ASSUME NEW l \in Lineages, LineageQuarantined(l)
      PROVE  LineageQuarantined(l)'
  <2>1. \A a \in Attempts : quarantine[a] = "QUARANTINED" => quarantine'[a] = "QUARANTINED"
    BY DEF Begun, Adopted, Decided, QuarantineAttempts
  <2>2. sessionQuarantine = "QUARANTINED" => sessionQuarantine' = "QUARANTINED"
    BY DEF Begun, Adopted, Decided
  <2>3. sessionStatus # "NONE" => sessionStatus' # "NONE"
    BY DEF Begun, Adopted, Decided
  <2> QED BY <1>1, <2>1, <2>2, <2>3 DEF LineageQuarantined, Lineages, RestoreFrame
<1>2. ASSUME NEW a \in Attempts, Settled(a)
      PROVE  Settled(a)'
  <2>1. GenOf(a)' = GenOf(a)
    BY <1>n DEF GenOf, RestoreFrame
  <2>2. ASSUME NEW s \in killed,
               StopIs(s, "STOP_TERMINATION_CONFIRMED", "TERMINATION_CONFIRMED"), Covers(s, a)
        PROVE  Settled(a)'
    <3>1. s \in Stops /\ Reserved(s)
      BY <1>t, <2>2 DEF StopIs
    <3>2. stopOp'[s] = stopOp[s]
      BY <3>1 DEF StopRowsKept, NextRow
    <3> QED BY <2>1, <2>2, <3>2 DEF Settled, StopIs, Covers, Reserved, RestoreFrame
  <2>3. ASSUME NEW s \in Stops, NEW p \in Principals, AcceptedBy(s, a, p)
        PROVE  Settled(a)'
    BY <2>1, <2>3 DEF Settled, AcceptedBy, RestoreFrame
  <2> QED BY <1>2, <2>2, <2>3 DEF Settled
<1> QED BY <1>1, <1>2

\* An unknown delivery stays contained until it is settled.
LEMMA RestoreSettlement ==
    ASSUME RestoreInv,
           StopKind \/ (RestoreFrame /\ StopRowsKept /\ (Begun \/ Adopted \/ Decided))
    PROVE  UnknownNeedsSettlement'
<1>t. /\ SagaInv /\ LiveStops /\ StopTypeOK /\ StopTypes /\ StoppedIsReal
      /\ killed \subseteq Stops /\ UnknownNeedsSettlement
  BY DEF RestoreInv, RestoreTypeOK, StopTypeOK
<1>1. CASE StopKind
  BY <1>t, <1>1, StopKeepsRestore, SettlementStep
<1>2. CASE RestoreFrame /\ StopRowsKept /\ (Begun \/ Adopted \/ Decided)
  <2>1. /\ \A l \in Lineages : LineageQuarantined(l) => LineageQuarantined(l)'
        /\ \A a \in Attempts : Settled(a) => Settled(a)'
    BY <1>2, RestoreGates
  <2> QED BY <1>t, <1>2, <2>1 DEF UnknownNeedsSettlement, RestoreFrame, Lineages
<1> QED BY <1>1, <1>2

-----------------------------------------------------------------------------
(* The theorems.                                                           *)

\* The invariant holds initially.
LEMMA RestoreInitInv == RestoreInit => RestoreInv
<1> SUFFICES ASSUME RestoreInit PROVE RestoreInv
  OBVIOUS
<1>1. StopInv /\ RestoreProcessesInit
  BY StopInitInv DEF RestoreInit
<1>2. SagaInv /\ StopTypeOK /\ LiveStops /\ KillFollowsIntent /\ StoppedIsReal
  BY <1>1 DEF StopInv
<1>3. restoreOp = NoRestore /\ sessionGen = 0
  BY DEF RestoreInit, StopInit, RecoveryInit, Init
<1>4. /\ restoreOp.id = 0 /\ restoreOp.stage = "NONE" /\ restoreOp.gen = 0
      /\ restoreOp.resolution = "RESTORE_RESOLVED" /\ restoreOp.owner = NULL
  BY <1>3 DEF NoRestore
<1>5. \A s \in Stops : ~Reserved(s)
  BY DEF RestoreInit, StopInit, RecoveryInit, Init, Reserved
<1>6. \A a \in Attempts : attemptState[a] = "NONE"
  BY DEF RestoreInit, StopInit, RecoveryInit, Init
<1>n. 0 \in Generations /\ 0 \in 0 .. MaxRestores /\ 0 \in 0 .. MaxPosts
  BY MaxGenAssumption, MaxRestoresAssumption, MaxPostsAssumption DEF Generations
<1>7. RestoreTypeOK
  BY <1>1, <1>2, <1>n DEF RestoreProcessesInit, RestoreTypeOK, RPCs
<1>8. PostFollowsIntent
  BY <1>1 DEF RestoreProcessesInit, PostFollowsIntent
<1>9. RowOwned /\ RestoreLocksPair
  BY <1>4 DEF RowOwned, RestoreLocksPair, RestoreUnresolved
<1>10. LinkedFollowsClaim
  BY <1>4, <1>5 DEF LinkedFollowsClaim, RestoreUnresolved
<1>11. GenerationsGrow
  BY <1>1, <1>3, <1>4 DEF RestoreProcessesInit, GenerationsGrow
<1>12. AdoptedIsReal
  BY <1>3, <1>4, <1>6 DEF AdoptedIsReal
<1>13. UnknownNeedsSettlement
  BY <1>1 DEF StopInv
<1> QED BY <1>2, <1>7, <1>8, <1>9, <1>10, <1>11, <1>12, <1>13 DEF RestoreInv

\* A step of the stop saga keeps what the sagas under it state.
LEMMA StopKindKeeps ==
    ASSUME RestoreInv, StopKind
    PROVE  /\ SagaInv' /\ StopTypeOK' /\ LiveStops' /\ KillFollowsIntent' /\ StoppedIsReal'
           /\ rpc' \in [Restores -> RPCs]
           /\ posts' \in [Restores -> 0 .. MaxPosts]
           /\ aoGen' \in Generations
           /\ restored' \in [Restores -> Generations]
<1>t. StopTypeOK /\ SagaInv /\ LiveStops /\ KillFollowsIntent /\ StoppedIsReal
  BY DEF RestoreInv, RestoreTypeOK
<1>s. [StopNext]_stopAllVars /\ CallEffect
  BY DEF StopKind
<1>k. RecoveryKind \/ TickKind \/ TxKind
  BY <1>t, <1>s, StopKinds
<1>1. SagaInv'
  BY <1>t, <1>k, KindSagaInv
<1>2. StopTypeOK'
  BY <1>1, <1>t, <1>s, AuditTypeStep, EffectTypeStep, ObserverStopsStep DEF StopTypeOK, SagaInv
<1>3. LiveStops'
  BY <1>t, <1>k, LiveStopsStep
<1>4. KillFollowsIntent'
  BY <1>t, <1>s, KillStep
<1>5. StoppedIsReal'
  BY <1>t, <1>k, StoppedIsRealStep DEF StopTypeOK
<1> QED BY <1>1, <1>2, <1>3, <1>4, <1>5, <1>s, CallTypes DEF RestoreInv

\* So does a restore transaction.
LEMMA RestoreKindKeeps ==
    ASSUME RestoreInv, RestoreKind
    PROVE  /\ SagaInv' /\ StopTypeOK' /\ LiveStops' /\ KillFollowsIntent' /\ StoppedIsReal'
           /\ rpc' \in [Restores -> RPCs]
           /\ posts' \in [Restores -> 0 .. MaxPosts]
           /\ aoGen' \in Generations
           /\ restored' \in [Restores -> Generations]
           /\ RestoreFrame /\ StopRowsKept /\ (Begun \/ Adopted \/ Decided)
<1>t. /\ RowsTypeOK /\ RowOwned /\ restored \in [Restores -> Generations]
      /\ StopTypeOK /\ SagaInv /\ LiveStops /\ KillFollowsIntent /\ StoppedIsReal
  BY DEF RestoreInv, RestoreTypeOK, StopTypeOK, RecoveryTypeOK, TypeOK
<1>f. RestoreFrame /\ StopRowsKept
  BY <1>t, RestoreKeepsFrame
<1>m. (Begun \/ Adopted \/ Decided) /\ RowsTypeOK'
  BY <1>t, RestoreMoves
<1>1. SagaInv'
  BY <1>t, <1>f, <1>m, RestoreSagaInv
<1>2. LiveStops' /\ StoppedIsReal'
  BY <1>t, <1>f, RestoreStopsKept
<1>3. KillFollowsIntent'
  BY <1>t, <1>f, RestoreKillsKept
<1>4. /\ StopTypeOK'
      /\ rpc' \in [Restores -> RPCs]
      /\ posts' \in [Restores -> 0 .. MaxPosts]
      /\ aoGen' \in Generations
      /\ restored' \in [Restores -> Generations]
  BY <1>f, <1>m, <1>1, RestoreTypesKept
<1> QED BY <1>f, <1>m, <1>1, <1>2, <1>3, <1>4

\* Every step keeps the invariant.
LEMMA RestoreInvStep ==
    ASSUME RestoreInv, [RestoreNext]_restoreAllVars
    PROVE  RestoreInv'
<1>k. (StopKind \/ RestoreKind) /\ sweepRestore' \in 0 .. MaxRestores
  BY RestoreKinds DEF RestoreInv
<1>1. /\ SagaInv' /\ StopTypeOK' /\ LiveStops' /\ KillFollowsIntent' /\ StoppedIsReal'
      /\ rpc' \in [Restores -> RPCs]
      /\ posts' \in [Restores -> 0 .. MaxPosts]
      /\ aoGen' \in Generations
      /\ restored' \in [Restores -> Generations]
  BY <1>k, StopKindKeeps, RestoreKindKeeps
<1>2. StopKind \/ (RestoreFrame /\ StopRowsKept /\ (Begun \/ Adopted \/ Decided))
  BY <1>k, RestoreKindKeeps
<1>3. PostFollowsIntent'
  BY <1>2, PostStep
<1>4. RowOwned'
  BY <1>2, OwnedStep
<1>5. LinkedFollowsClaim'
  BY <1>2, LinkedStopKind, LinkedRestoreKind
<1>6. GenerationsGrow'
  BY <1>2, GrowStep
<1>7. RestoreLocksPair'
  BY <1>2, LockStep
<1>8. AdoptedIsReal'
  BY <1>2, AdoptedStep
<1>9. RestoreTypeOK'
  BY <1>k, <1>1 DEF RestoreTypeOK
<1>10. UnknownNeedsSettlement'
  BY <1>2, RestoreSettlement
<1> QED BY <1>1, <1>3, <1>4, <1>5, <1>6, <1>7, <1>8, <1>9, <1>10 DEF RestoreInv

\* The inductive invariant of the restore saga.
THEOREM RestoreInvariant == RestoreSpec => []RestoreInv
<1>1. RestoreInv /\ [RestoreNext]_restoreAllVars => RestoreInv'
  BY RestoreInvStep
<1> QED BY <1>1, RestoreInitInv, PTL DEF RestoreSpec

\* Every variable of the restore saga keeps its type.
THEOREM RestoreTypeCorrect == RestoreSpec => []RestoreTypeOK
<1>1. RestoreInv => RestoreTypeOK
  BY DEF RestoreInv
<1> QED BY <1>1, RestoreInvariant, PTL

\* A restore is posted once at most, after its intent, whatever crashes, sweeps,
\* stops and late answers interleave with the call.
THEOREM RestoresOnce == RestoreSpec => []RestoreDiscipline
<1>1. RestoreInv => RestoreDiscipline
  BY DEF RestoreInv, PostFollowsIntent, RestoreDiscipline
<1> QED BY <1>1, RestoreInvariant, PTL

\* An unresolved restore keeps its Pair locked, with any number of attempts,
\* stops and operators around it.
THEOREM PairStaysLocked == RestoreSpec => []RestoreLocksPair
<1>1. RestoreInv => RestoreLocksPair
  BY DEF RestoreInv
<1> QED BY <1>1, RestoreInvariant, PTL

\* The generation the rows name is one AO produced for the restore that is said
\* to have produced it.
THEOREM AdoptionIsReal == RestoreSpec => []AdoptedIsReal
<1>1. RestoreInv => AdoptedIsReal
  BY DEF RestoreInv
<1> QED BY <1>1, RestoreInvariant, PTL

\* The sagas under the restore keep their guarantees: prompts and kills go out
\* once, confirmations are real, one task holds the lane, and the snapshot the
\* recovery reads is consistent.
THEOREM RestoreKeepsSagas ==
    RestoreSpec => [](/\ SendDiscipline /\ ConfirmedIsReal /\ OneActiveLane /\ HeldNeverSent
                      /\ KillDiscipline /\ StoppedIsReal /\ PersistedConsistent)
<1>1. RestoreInv => SendDiscipline /\ ConfirmedIsReal /\ OneActiveLane /\ HeldNeverSent
  BY DEF RestoreInv, SagaInv, RowInv, WireFollowsIntent, SendDiscipline
<1>2. RestoreInv => KillDiscipline
  BY DEF RestoreInv, KillFollowsIntent, LiveStops, KillDiscipline
<1>3. RestoreInv => StoppedIsReal /\ PersistedConsistent
  BY InvIsConsistent DEF RestoreInv
<1> QED BY <1>1, <1>2, <1>3, RestoreInvariant, PTL

\* Who may write the restore row, step by step.
LEMMA OwnedMove ==
    ASSUME RestoreInv, [RestoreNext]_restoreAllVars, restoreOp' # restoreOp
    PROVE  \/ restoreOp'.id = restoreOp.id + 1 /\ ~RestoreUnresolved
           \/ /\ RestoreUnresolved
              /\ restoreOp.owner # NULL => restoreOp'.owner = restoreOp.owner
              /\ restoreOp'.resolution = "RESTORE_RESOLVED" => restoreOp'.owner # NULL
<1>t. RestoreTypeOK /\ StopTypeOK /\ RowOwned
  BY DEF RestoreInv, RestoreTypeOK
<1>1. ASSUME StopKind
      PROVE  FALSE
  BY <1>1, <1>t, StopKeepsRestore DEF RestoreInv, Frame
<1>2. Begun \/ Adopted \/ Decided
  BY <1>1, <1>t, RestoreKinds, RestoreKindKeeps
<1>3. CASE Begun
  BY <1>3 DEF Begun
<1>4. CASE Adopted
  BY <1>4 DEF Adopted, RestoreUnresolved
<1>5. CASE Decided
  BY <1>5, <1>t, PrincipalsAssumption DEF Decided, RowOwned
<1> QED BY <1>2, <1>3, <1>4, <1>5

\* A restore is ended by a named operator, by nobody but the one who claimed it,
\* and a resolved restore is history.
THEOREM RestoreIsOwned == RestoreSpec => RestoreOwned
<1>1. RestoreInv /\ [RestoreNext]_restoreAllVars =>
        [ restoreOp' # restoreOp =>
            \/ restoreOp'.id = restoreOp.id + 1 /\ ~RestoreUnresolved
            \/ /\ RestoreUnresolved
               /\ restoreOp.owner # NULL => restoreOp'.owner = restoreOp.owner
               /\ restoreOp'.resolution = "RESTORE_RESOLVED" => restoreOp'.owner # NULL
        ]_restoreAllVars
  BY OwnedMove
<1> QED BY <1>1, RestoreInvariant, PTL DEF RestoreSpec, RestoreOwned

\* A physical proof for a lineage settles it.
LEMMA PhysicalSettles ==
    ASSUME StoppedIsReal, NEW l, PhysicallyStopped(l)
    PROVE  Settled(l)
<1>1. PICK s \in Stops : PositiveD11StopEvidence(s) /\ Covers(s, l)
  BY DEF PhysicallyStopped
<1>2. StopIs(s, "STOP_TERMINATION_CONFIRMED", "TERMINATION_CONFIRMED")
  BY <1>1 DEF PositiveD11StopEvidence
<1>3. s \in killed
  BY <1>2 DEF StoppedIsReal, StopIs
<1> QED BY <1>1, <1>2, <1>3 DEF Settled

\* The end of a restore that went through a cleanup.
LEMMA ResolvingSettles ==
    ASSUME RestoreInv, [RestoreNext]_restoreAllVars,
           RestoreUnresolved, LinkedStops # {}, restoreOp'.resolution = "RESTORE_RESOLVED",
           NEW l \in Lineages, LineageQuarantined(l)
    PROVE  Settled(l)
<1>t. /\ RestoreTypeOK /\ StopTypeOK /\ StoppedIsReal /\ RowsTypeOK
      /\ RowOwned /\ restored \in [Restores -> Generations]
  BY DEF RestoreInv, RestoreTypeOK, StopTypeOK, RecoveryTypeOK, TypeOK
<1>c. /\ restoreOp.resolution = "RESTORE_CLEANUP_CLAIMED"
      /\ \A s \in LinkedStops : LinkedRight(s)
  BY DEF RestoreInv, LinkedFollowsClaim, LinkedRight
<1>1. ASSUME StopKind
      PROVE  FALSE
  <2>1. restoreOp' = restoreOp
    BY <1>1, <1>t, StopKeepsRestore DEF RestoreInv, Frame
  <2> QED BY <2>1 DEF RestoreUnresolved
<1>2. RestoreKind
  BY <1>1, <1>t, RestoreKinds
<1>3. PICK p \in Principals : Recovers(p)
  <2>0. restoreOp \in RestoreRows
    BY <1>t, RestoreRow
  <2>1. ASSUME NEW r \in Restores, Reserves(r) \/ Confirms(r) \/ GivesUp(r)
        PROVE  FALSE
    BY <1>c, <2>1 DEF Reserves, ReservePairRestore, RestoreAdmissible, PairBlocked,
       RestoreUnresolved, Confirms, ConfirmPairRestore, RestoreIs, GivesUp
  <2>2. ASSUME CleansUp
        PROVE  FALSE
    BY <1>c, <2>2 DEF CleansUp, ClaimRestoreCleanupWithStop
  <2> QED BY <1>2, <2>1, <2>2 DEF RestoreKind, RestoreTx
<1>4. PICK basis \in Bases : ResolveAmbiguousRestore(basis, p)
  BY <1>3, <1>c DEF Recovers, ResolveConfirmedRestore, ClaimRestoreRecovery
<1>5. CASE PhysicalBasis
  <2>1. PICK s \in LinkedStops :
          /\ PositiveD11StopEvidence(s)
          /\ sessionGen = IF restoreOp.stage = "RESTORE_CONFIRMED"
                            THEN stopOp[s].gen ELSE restoreOp.gen
    BY <1>5 DEF PhysicalBasis
  <2>2. s \in Stops /\ Reserved(s) /\ stopOp[s].stage = "STOP_TERMINATION_CONFIRMED"
    BY <2>1 DEF LinkedStops, PositiveD11StopEvidence, StopIs
  <2>3. restoreOp.stage \in { "RESTORE_REQUESTED", "RESTORE_CONFIRMED" }
    BY <1>t, RestoreRow DEF RestoreUnresolved, RestoreStages
  <2>4. stopOp[s].gen = sessionGen
    BY <1>c, <2>1, <2>2, <2>3 DEF LinkedRight
  <2>5. CASE l = NoAttempt
    <3>1. Covers(s, l)
      BY <2>2, <2>4, <2>5 DEF Covers, GenOf
    <3>2. PhysicallyStopped(l)
      BY <2>1, <2>2, <3>1 DEF PhysicallyStopped
    <3> QED BY <1>t, <3>2, PhysicalSettles
  <2>6. CASE l # NoAttempt
    <3>1. l \in QuarantinedAttempts
      BY <2>6 DEF Lineages, QuarantinedAttempts
    <3>2. PhysicallyStopped(l)
      BY <1>5, <3>1 DEF PhysicalBasis
    <3> QED BY <1>t, <3>2, PhysicalSettles
  <2> QED BY <2>5, <2>6
<1>6. CASE AdministrativeCoverage(p)
  <2>1. \/ PhysicallyStopped(l)
        \/ \E s \in LinkedStops : AcceptedBy(s, l, p)
    BY <1>6 DEF AdministrativeCoverage
  <2>2. CASE \E s \in LinkedStops : AcceptedBy(s, l, p)
    BY <2>2 DEF LinkedStops, Settled
  <2> QED BY <1>t, <2>1, <2>2, PhysicalSettles
<1> QED BY <1>4, <1>5, <1>6 DEF ResolveAmbiguousRestore

\* A restore that went through a cleanup ends on evidence for every gate it
\* leaves closed.
THEOREM RestoreEndsOnEvidence == RestoreSpec => ResolvedOnEvidence
<1>1. RestoreInv /\ [RestoreNext]_restoreAllVars =>
        [ RestoreUnresolved /\ LinkedStops # {} /\ restoreOp'.resolution = "RESTORE_RESOLVED" =>
            \A l \in Lineages : LineageQuarantined(l) => Settled(l) ]_restoreAllVars
  BY ResolvingSettles
<1> QED BY <1>1, RestoreInvariant, PTL DEF RestoreSpec, ResolvedOnEvidence

\* A closed attempt is history for restores and their cleanups, too.
THEOREM RestoreKeepsHistory == RestoreSpec => ClosedIsFinal
<1>1. ASSUME RestoreInv, [RestoreNext]_restoreAllVars, NEW a \in Attempts,
             attemptState[a] = "ENDED"
      PROVE  /\ attemptState'[a] = "ENDED"
             /\ disposition'[a] = disposition[a]
             /\ stage'[a] = stage[a]
             /\ resolution'[a] = resolution[a]
             /\ budget'[a] = budget[a]
  <2>t. RestoreTypeOK /\ SagaInv /\ LiveStops /\ StopTypeOK
    BY <1>1 DEF RestoreInv, RestoreTypeOK
  <2>1. CASE StopKind
    BY <1>1, <2>t, <2>1, StopKeepsRestore, StopHistoryFrozen
  <2>2. CASE RestoreKind
    BY <1>1, <2>2, RestoreKindKeeps DEF RestoreFrame
  <2> QED BY <1>1, <2>t, <2>1, <2>2, RestoreKinds
<1>2. RestoreInv /\ [RestoreNext]_restoreAllVars =>
        [ \A a \in Attempts :
            attemptState[a] = "ENDED" =>
                /\ attemptState'[a] = "ENDED"
                /\ disposition'[a] = disposition[a]
                /\ stage'[a] = stage[a]
                /\ resolution'[a] = resolution[a]
                /\ budget'[a] = budget[a] ]_vars
  BY <1>1
<1> QED BY <1>2, RestoreInvariant, PTL DEF RestoreSpec, ClosedIsFinal

\* A stop is decided once, also one that is linked to a restore, whatever
\* becomes of the restore.
THEOREM RestoreKeepsStops == RestoreSpec => StopDecidedOnce
<1>1. ASSUME RestoreInv, [RestoreNext]_restoreAllVars, NEW s \in Stops, Reserved(s),
             stopOp'[s] # stopOp[s]
      PROVE  \/ stopOp[s].resolution = "IN_FLIGHT"
             \/ /\ stopOp'[s].resolution = "ADMINISTRATIVE_RISK_ACCEPTED"
                /\ stopOp'[s].stage = stopOp[s].stage
                /\ accepted'[s] # {}
  <2>t. RestoreTypeOK /\ SagaInv /\ LiveStops /\ StopTypeOK /\ StopTypes
    BY <1>1 DEF RestoreInv, RestoreTypeOK, StopTypeOK
  <2>1. CASE StopKind
    BY <1>1, <2>t, <2>1, StopKeepsRestore, DecidedOnceStep
  <2>2. CASE RestoreKind
    <3>1. StopRowsKept
      BY <1>1, <2>2, RestoreKindKeeps
    <3> QED BY <1>1, <3>1 DEF StopRowsKept, NextRow
  <2> QED BY <1>1, <2>t, <2>1, <2>2, RestoreKinds
<1>2. RestoreInv /\ [RestoreNext]_restoreAllVars =>
        [ \A s \in Stops :
            Reserved(s) /\ stopOp'[s] # stopOp[s] =>
                \/ stopOp[s].resolution = "IN_FLIGHT"
                \/ /\ stopOp'[s].resolution = "ADMINISTRATIVE_RISK_ACCEPTED"
                   /\ stopOp'[s].stage = stopOp[s].stage
                   /\ accepted'[s] # {} ]_stopAllVars
  BY <1>1
<1> QED BY <1>2, RestoreInvariant, PTL DEF RestoreSpec, StopDecidedOnce

\* With restores around, an unknown delivery still stays contained until its own
\* attempt is settled.
THEOREM RestoreAwaitsSettlement == RestoreSpec => []UnknownNeedsSettlement
<1>1. RestoreInv => UnknownNeedsSettlement
  BY DEF RestoreInv
<1> QED BY <1>1, RestoreInvariant, PTL

\* And no gate opens without evidence for its own lineage: no step of a restore
\* opens one, and no stop of another generation speaks for it.
THEOREM RestoreGatesOpenOnEvidence == RestoreSpec => ClearedOnEvidence
<1>1. ASSUME RestoreInv, [RestoreNext]_restoreAllVars, NEW l \in Lineages,
             LineageQuarantined(l), ~LineageQuarantined(l)'
      PROVE  Settled(l)'
  <2>t. /\ RestoreTypeOK /\ SagaInv /\ LiveStops /\ StopTypeOK /\ StopTypes /\ StoppedIsReal
        /\ killed \subseteq Stops
    BY <1>1 DEF RestoreInv, RestoreTypeOK, StopTypeOK
  <2>1. CASE StopKind
    BY <1>1, <2>t, <2>1, StopKeepsRestore, OpenedOnEvidence
  <2>2. CASE RestoreKind
    BY <1>1, <2>2, RestoreKindKeeps, RestoreGates
  <2> QED BY <1>1, <2>t, <2>1, <2>2, RestoreKinds
<1>2. RestoreInv /\ [RestoreNext]_restoreAllVars =>
        [ \A l \in Lineages :
            LineageQuarantined(l) /\ ~LineageQuarantined(l)' => Settled(l)' ]_stopAllVars
  BY <1>1
<1> QED BY <1>2, RestoreInvariant, PTL DEF RestoreSpec, ClearedOnEvidence
=============================================================================
