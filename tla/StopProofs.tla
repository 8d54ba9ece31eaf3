----------------------------- MODULE StopProofs -----------------------------
(***************************************************************************)
(* Theorems about Stop.  A step is a step of Recovery, an observation by   *)
(* the timeout monitor (quiet, in the words of RecoveryProofs), or one of  *)
(* the stop transactions (StopTx); what the rows say of each other is      *)
(* shown for these three kinds, and the calls and kills are added on top.  *)
(***************************************************************************)
EXTENDS Stop, RecoveryProofs

\* An abandoned intent is left to a human.
Abandons(s) ==
    /\ StopIs(s, "STOP_REQUESTED", "IN_FLIGHT")
    /\ stopOp' = [stopOp EXCEPT ![s].resolution = "STOP_REISSUE_REQUIRES_HUMAN"]
    /\ UNCHANGED <<taskVars, attemptVars, dispatchVars, sessionVars, restoreOp, provisionStage>>

\* A stop in flight that is accepted, decided or abandoned.
StopMoves(s) ==
    \/ s \in killed /\ CommitStopCallAccepted(s)
    \/ \E from, to \in StopStages, res \in StopResolutions : CommitStopOutcome(s, from, to, res)
    \/ Abandons(s)

\* An operator's stop or a timeout.
StopReserves(s) ==
    \E purpose \in StopPurposes, a \in Lineages, timeout \in BOOLEAN :
        /\ timeout \/ purpose \in StartPurposes
        /\ ReserveStopOperation(s, purpose, a, timeout)

\* The transactions that write stop rows or open quarantine gates.
StopTx ==
    \/ \E s \in Stops : (StopReserves(s) \/ StopMoves(s)) /\ UNCHANGED auditVars
    \/ \E s \in Stops, ls \in SUBSET Lineages, p \in Principals :
          AcceptStopAdministrativeRisk(s, ls, p)
    \/ \E evidence \in [QuarantinedAttempts \cup {NoAttempt} -> Stops], p \in Principals :
          ClearQuarantineWithEvidence(evidence, p)

-----------------------------------------------------------------------------
(* The inductive invariant.                                                *)

\* Without restores the Pair keeps one runtime: every attempt and every stop is
\* bound to the generation of the session row.
OneRuntime ==
    /\ sessionStatus # "NONE"
    /\ restoreOp = NoRestore
    /\ provisionStage = "PROVISION_CONFIRMED"
    /\ \A a \in Attempts : attemptState[a] # "NONE" => boundGen[a] = sessionGen
    /\ \A s \in Stops : Reserved(s) => stopOp[s].gen = sessionGen /\ stopOp[s].restore = 0

\* Stop rows are handed out in order; an unresolved stop is the last of them.
StopsInOrder ==
    /\ \A r, s \in Stops : Reserved(s) /\ r < s => Reserved(r)
    /\ \A r, s \in Stops : StopUnresolved(s) /\ Reserved(r) => r <= s

\* idx_one_live_stop_per_attempt; a live stop names an attempt that exists.
LiveStops ==
    /\ \A s \in Stops :
          Reserved(s) /\ stopOp[s].purpose = "RUNNING_ATTEMPT_STOP" =>
              stopOp[s].att \in Attempts /\ attemptState[stopOp[s].att] # "NONE"
    /\ \A r, s \in Stops :
          /\ Reserved(r) /\ stopOp[r].purpose = "RUNNING_ATTEMPT_STOP"
          /\ Reserved(s) /\ stopOp[s].purpose = "RUNNING_ATTEMPT_STOP"
          /\ stopOp[r].att = stopOp[s].att
          => r = s

\* A call works on the stop it reserved, and has not posted a kill before it
\* reaches "await"; AO executes only what was posted.
KillFollowsIntent ==
    \A s \in Stops :
        /\ spc[s] # "none" => Reserved(s)
        /\ spc[s] \in { "reserved", "kill" } => kills[s] = 0
        /\ kills[s] <= 1
        /\ kills[s] > 0 => Reserved(s)
        /\ s \in killed => kills[s] > 0

StopInv ==
    /\ SagaInv
    /\ StopTypeOK
    /\ OneRuntime
    /\ StopsInOrder
    /\ LiveStops
    /\ KillFollowsIntent
    /\ StoppedIsReal
    /\ SessionGateCovers
    /\ UnknownNeedsSettlement

USE DEF NULL, NoAttempt, taskVars, attemptVars, dispatchVars, sessionVars, pairOpVars, rows
USE DEF callVars, wireVars, vars, recoveryVars, allVars
USE DEF auditVars, clockVars, effectVars, observerVars, stopVars, stopAllVars, OtherProcesses

-----------------------------------------------------------------------------
(* Rows of stops.                                                          *)

\* A reserved stop is a row.
LEMMA ReservedRow ==
    ASSUME RowsTypeOK, NEW s \in Stops, Reserved(s)
    PROVE  /\ stopOp[s] \in StopRows
           /\ stopOp[s].purpose \in StopPurposes
           /\ stopOp[s].att \in Lineages
           /\ stopOp[s].gen \in Generations
           /\ stopOp[s].stage \in StopStages
           /\ stopOp[s].resolution \in StopResolutions
           /\ stopOp[s].timeout \in BOOLEAN
BY DEF RowsTypeOK, Reserved, StopRows, Lineages

\* A row is never the absent one.
LEMMA RowIsReserved ==
    ASSUME NEW r \in StopRows
    PROVE  r # NoStop
<1>1. r.purpose \in StopPurposes
  BY DEF StopRows
<1>2. NoStop.purpose = "NONE"
  BY DEF NoStop
<1> QED BY <1>1, <1>2 DEF StopPurposes

\* What rewriting stage and resolution of a row does to the rest of it.
LEMMA RowRewritten ==
    ASSUME RowsTypeOK, NEW s \in Stops, Reserved(s),
           NEW stg \in StopStages, NEW res \in StopResolutions,
           stopOp' = [stopOp EXCEPT ![s] = [stopOp[s] EXCEPT !.stage = stg, !.resolution = res]]
    PROVE  /\ stopOp' \in [Stops -> StopRows \cup {NoStop}]
           /\ \A r \in Stops : Reserved(r)' <=> Reserved(r)
           /\ \A r \in Stops : r # s => stopOp'[r] = stopOp[r]
           /\ stopOp'[s].stage = stg
           /\ stopOp'[s].purpose = stopOp[s].purpose
           /\ stopOp'[s].att = stopOp[s].att
           /\ stopOp'[s].gen = stopOp[s].gen
           /\ stopOp'[s].timeout = stopOp[s].timeout
           /\ stopOp'[s].restore = stopOp[s].restore
<1> DEFINE row == [stopOp[s] EXCEPT !.stage = stg, !.resolution = res]
<1>1. stopOp[s] \in StopRows
  BY ReservedRow
<1>2. row \in StopRows
  BY <1>1 DEF StopRows
<1>3. /\ row.stage = stg
      /\ row.purpose = stopOp[s].purpose
      /\ row.att = stopOp[s].att
      /\ row.gen = stopOp[s].gen
      /\ row.timeout = stopOp[s].timeout
      /\ row.restore = stopOp[s].restore
  BY <1>1 DEF StopRows
<1>4. row # NoStop
  BY <1>2, RowIsReserved
<1> HIDE DEF row
<1>5. stopOp' = [stopOp EXCEPT ![s] = row]
  BY DEF row
<1>6. stopOp'[s] = row /\ \A r \in Stops : r # s => stopOp'[r] = stopOp[r]
  BY <1>5 DEF RowsTypeOK
<1>7. stopOp' \in [Stops -> StopRows \cup {NoStop}]
  BY <1>2, <1>5 DEF RowsTypeOK
<1> QED BY <1>3, <1>4, <1>6, <1>7 DEF Reserved

\* And to the resolution.
LEMMA ResolutionRewritten ==
    ASSUME RowsTypeOK, NEW s \in Stops, Reserved(s),
           NEW stg \in StopStages, NEW res \in StopResolutions,
           stopOp' = [stopOp EXCEPT ![s] = [stopOp[s] EXCEPT !.stage = stg, !.resolution = res]]
    PROVE  stopOp'[s].resolution = res
<1> DEFINE row == [stopOp[s] EXCEPT !.stage = stg, !.resolution = res]
<1>1. row.resolution = res
  BY ReservedRow DEF StopRows
<1> HIDE DEF row
<1>2. stopOp'[s] = row
  BY DEF RowsTypeOK, row
<1> QED BY <1>1, <1>2

\* Everything but the row of stop s, the gates and the session status stays.
OnlyGates ==
    UNCHANGED <<taskVars, attemptState, disposition, boundGen, dispatchVars, sessionGen,
                restoreOp, provisionStage>>

\* A stop in flight is moved to a stage and a resolution; a live stop that is
\* decided takes its attempt along.
LEMMA MovedRow ==
    ASSUME RowsTypeOK, NEW s \in Stops, StopMoves(s)
    PROVE  /\ Reserved(s)
           /\ stopOp[s].resolution = "IN_FLIGHT"
           /\ \E stg \in StopStages, res \in StopResolutions :
                 /\ stopOp' = [stopOp EXCEPT ![s] =
                                 [stopOp[s] EXCEPT !.stage = stg, !.resolution = res]]
                 /\ stg = "STOP_CALL_SUCCEEDED" => s \in killed \/ stopOp[s].stage = stg
                 /\ stg = "STOP_TERMINATION_CONFIRMED" => stopOp[s].stage = "STOP_CALL_SUCCEEDED"
                 /\ stg = "STOP_TERMINATION_CONFIRMED" <=> res = "TERMINATION_CONFIRMED"
                 /\ \/ OnlyGates /\ UNCHANGED <<quarantine, sessionQuarantine, sessionStatus>>
                    \/ /\ stopOp[s].purpose = "RUNNING_ATTEMPT_STOP"
                       /\ res # "IN_FLIGHT"
                       /\ CloseLiveStop(s, res)
                       /\ UNCHANGED <<currentAttempt, contract, boundGen, dispatchVars,
                                      sessionGen, restoreOp, provisionStage>>
                    \/ /\ stopOp[s].purpose # "RUNNING_ATTEMPT_STOP"
                       /\ res # "IN_FLIGHT"
                       /\ MarkRuntime(s, res)
                       /\ OnlyGates
<1>1. ASSUME Reserved(s), NEW stg
      PROVE  [stopOp[s] EXCEPT !.stage = stg] =
               [stopOp[s] EXCEPT !.stage = stg, !.resolution = stopOp[s].resolution]
  BY <1>1, ReservedRow DEF StopRows
<1>2. ASSUME Reserved(s), NEW res
      PROVE  [stopOp[s] EXCEPT !.resolution = res] =
               [stopOp[s] EXCEPT !.stage = stopOp[s].stage, !.resolution = res]
  BY <1>2, ReservedRow DEF StopRows
<1>3. CASE s \in killed /\ CommitStopCallAccepted(s)
  <2>1. Reserved(s) /\ stopOp[s].resolution = "IN_FLIGHT"
    BY <1>3 DEF CommitStopCallAccepted, StopIs
  <2>2. stopOp' = [stopOp EXCEPT ![s] =
          [stopOp[s] EXCEPT !.stage = "STOP_CALL_SUCCEEDED", !.resolution = "IN_FLIGHT"]]
    BY <1>1, <1>3, <2>1 DEF CommitStopCallAccepted
  <2>3. "STOP_CALL_SUCCEEDED" \in StopStages /\ "IN_FLIGHT" \in StopResolutions
    BY DEF StopStages, StopResolutions
  <2>4. OnlyGates /\ UNCHANGED <<quarantine, sessionQuarantine, sessionStatus>>
    BY <1>3 DEF CommitStopCallAccepted, OnlyGates
  <2> QED BY <1>3, <2>1, <2>2, <2>3, <2>4
<1>4. ASSUME NEW from \in StopStages, NEW to \in StopStages, NEW res \in StopResolutions,
             CommitStopOutcome(s, from, to, res)
      PROVE  /\ Reserved(s)
             /\ stopOp[s].resolution = "IN_FLIGHT"
             /\ stopOp' = [stopOp EXCEPT ![s] =
                             [stopOp[s] EXCEPT !.stage = to, !.resolution = res]]
             /\ to = "STOP_CALL_SUCCEEDED" => stopOp[s].stage = to
             /\ to = "STOP_TERMINATION_CONFIRMED" => stopOp[s].stage = "STOP_CALL_SUCCEEDED"
             /\ to = "STOP_TERMINATION_CONFIRMED" <=> res = "TERMINATION_CONFIRMED"
             /\ res # "IN_FLIGHT"
             /\ \/ /\ stopOp[s].purpose = "RUNNING_ATTEMPT_STOP"
                   /\ CloseLiveStop(s, res)
                   /\ UNCHANGED <<currentAttempt, contract, boundGen, dispatchVars,
                                  sessionGen, restoreOp, provisionStage>>
                \/ /\ stopOp[s].purpose # "RUNNING_ATTEMPT_STOP"
                   /\ MarkRuntime(s, res)
                   /\ OnlyGates
  <2>1. Reserved(s) /\ stopOp[s].resolution = "IN_FLIGHT" /\ stopOp[s].stage = from
    BY <1>4 DEF CommitStopOutcome, StopIs
  <2>2. <<from, to, res>> \in StopOutcomes
    BY <1>4 DEF CommitStopOutcome
  <2>3. /\ to = "STOP_CALL_SUCCEEDED" => from = to
        /\ to = "STOP_TERMINATION_CONFIRMED" => from = "STOP_CALL_SUCCEEDED"
        /\ to = "STOP_TERMINATION_CONFIRMED" <=> res = "TERMINATION_CONFIRMED"
        /\ res # "IN_FLIGHT"
    BY <2>2 DEF StopOutcomes
  <2>4. stopOp' = [stopOp EXCEPT ![s] =
                     [stopOp[s] EXCEPT !.stage = to, !.resolution = res]]
    BY <1>4, <2>1, ReservedRow DEF CommitStopOutcome, RowsTypeOK
  <2>5. CASE stopOp[s].purpose = "RUNNING_ATTEMPT_STOP"
    BY <1>4, <2>1, <2>3, <2>4, <2>5 DEF CommitStopOutcome
  <2>6. CASE stopOp[s].purpose # "RUNNING_ATTEMPT_STOP"
    <3>1. MarkRuntime(s, res) /\ OnlyGates
      BY <1>4, <2>6 DEF CommitStopOutcome, MarkRuntime, OnlyGates
    <3> QED BY <2>1, <2>3, <2>4, <2>6, <3>1
  <2> QED BY <2>5, <2>6
<1>5. CASE Abandons(s)
  <2>1. /\ Reserved(s)
        /\ stopOp[s].resolution = "IN_FLIGHT"
        /\ stopOp[s].stage = "STOP_REQUESTED"
    BY <1>5 DEF Abandons, StopIs
  <2>2. stopOp' = [stopOp EXCEPT ![s] =
          [stopOp[s] EXCEPT !.stage = "STOP_REQUESTED",
                            !.resolution = "STOP_REISSUE_REQUIRES_HUMAN"]]
    BY <1>2, <1>5, <2>1 DEF Abandons
  <2>3. "STOP_REQUESTED" \in StopStages /\ "STOP_REISSUE_REQUIRES_HUMAN" \in StopResolutions
    BY DEF StopStages, StopResolutions
  <2>4. OnlyGates /\ UNCHANGED <<quarantine, sessionQuarantine, sessionStatus>>
    BY <1>5 DEF Abandons, OnlyGates
  <2> QED BY <2>1, <2>2, <2>3, <2>4
<1> QED BY <1>3, <1>4, <1>5 DEF StopMoves

\* A reservation writes one new row and closes gates.
LEMMA ReservedNow ==
    ASSUME RowsTypeOK, NEW s \in Stops, NEW purpose \in StopPurposes, NEW a \in Lineages,
           NEW timeout \in BOOLEAN, ReserveStopOperation(s, purpose, a, timeout)
    PROVE  /\ NextRow(s)
           /\ \A r \in Stops : ~StopUnresolved(r)
           /\ StopTarget(purpose, a, timeout)
           /\ OnlyGates
           /\ sessionStatus' = sessionStatus
           /\ sessionQuarantine' = "QUARANTINED"
           /\ quarantine' \in [Attempts -> QuarantineStates]
           /\ \A b \in Attempts : quarantine[b] = "QUARANTINED" => quarantine'[b] = "QUARANTINED"
           /\ purpose = "RUNNING_ATTEMPT_STOP" => quarantine'[a] = "QUARANTINED"
           /\ purpose # "RUNNING_ATTEMPT_STOP" => quarantine' = quarantine
           /\ stopOp' \in [Stops -> StopRows \cup {NoStop}]
           /\ Reserved(s)'
           /\ \A r \in Stops : r # s => stopOp'[r] = stopOp[r]
           /\ stopOp'[s].purpose = purpose
           /\ stopOp'[s].att = a
           /\ stopOp'[s].gen = sessionGen
           /\ stopOp'[s].stage = "STOP_REQUESTED"
           /\ stopOp'[s].resolution = "IN_FLIGHT"
           /\ stopOp'[s].timeout = timeout
           /\ stopOp'[s].restore = 0
           /\ purpose = "RUNNING_ATTEMPT_STOP" =>
                \A r \in Stops :
                  Reserved(r) /\ stopOp[r].att = a => stopOp[r].purpose # "RUNNING_ATTEMPT_STOP"
<1> DEFINE row == [ purpose |-> purpose, att |-> a, gen |-> sessionGen,
                    stage |-> "STOP_REQUESTED", resolution |-> "IN_FLIGHT",
                    timeout |-> timeout, restore |-> 0 ]
<1>1. /\ NextRow(s)
      /\ StopTarget(purpose, a, timeout)
      /\ \A r \in Stops : ~StopUnresolved(r)
      /\ stopOp' = [stopOp EXCEPT ![s] = row]
      /\ purpose = "RUNNING_ATTEMPT_STOP" =>
           \A r \in Stops :
             Reserved(r) /\ stopOp[r].att = a => stopOp[r].purpose # "RUNNING_ATTEMPT_STOP"
  BY DEF ReserveStopOperation, CreateStopOperation
<1>2. OnlyGates /\ sessionStatus' = sessionStatus /\ sessionQuarantine' = "QUARANTINED"
  BY DEF ReserveStopOperation, OnlyGates
<1>3. quarantine' = [b \in Attempts |->
        IF purpose = "RUNNING_ATTEMPT_STOP" /\ b = a THEN "QUARANTINED" ELSE quarantine[b]]
  BY DEF ReserveStopOperation
<1>4. purpose = "RUNNING_ATTEMPT_STOP" => a \in Attempts
  BY <1>1 DEF StopTarget
<1>5. /\ quarantine' \in [Attempts -> QuarantineStates]
      /\ \A b \in Attempts : quarantine[b] = "QUARANTINED" => quarantine'[b] = "QUARANTINED"
      /\ purpose = "RUNNING_ATTEMPT_STOP" => quarantine'[a] = "QUARANTINED"
      /\ purpose # "RUNNING_ATTEMPT_STOP" => quarantine' = quarantine
  BY <1>3, <1>4 DEF RowsTypeOK, QuarantineStates
<1>6. row \in StopRows
  BY MaxRestoresAssumption DEF StopRows, RowsTypeOK, Lineages, StopStages, StopResolutions
<1>7. /\ row.purpose = purpose
      /\ row.att = a
      /\ row.gen = sessionGen
      /\ row.stage = "STOP_REQUESTED"
      /\ row.resolution = "IN_FLIGHT"
      /\ row.timeout = timeout
      /\ row.restore = 0
  OBVIOUS
<1>8. row # NoStop
  BY <1>6, RowIsReserved
<1> HIDE DEF row
<1>9. stopOp'[s] = row /\ \A r \in Stops : r # s => stopOp'[r] = stopOp[r]
  BY <1>1 DEF RowsTypeOK
<1>10. stopOp' \in [Stops -> StopRows \cup {NoStop}]
  BY <1>1, <1>6 DEF RowsTypeOK
<1>11. Reserved(s)'
  BY <1>8, <1>9 DEF Reserved
<1> QED BY <1>1, <1>2, <1>5, <1>7, <1>9, <1>10, <1>11

\* An operator's acceptance leaves the stop or rewrites its resolution; the
\* gates are left to the clearance.
LEMMA AcceptedNow ==
    ASSUME RowsTypeOK, NEW s \in Stops, NEW ls \in SUBSET Lineages, NEW p \in Principals,
           AcceptStopAdministrativeRisk(s, ls, p)
    PROVE  /\ Reserved(s)
           /\ accepted[s] = {}
           /\ ls # {} /\ \A l \in ls : LineageQuarantined(l)
           /\ OnlyGates
           /\ UNCHANGED <<quarantine, sessionQuarantine, sessionStatus, cleared>>
           /\ accepted' = [accepted EXCEPT ![s] = { <<l, GenOf(l), p>> : l \in ls }]
           /\ \/ stopOp' = stopOp
              \/ /\ stopOp[s].resolution \notin { "IN_FLIGHT", "TERMINATION_CONFIRMED",
                                                  "STOP_TARGET_ABSENT" }
                 /\ stopOp' = [stopOp EXCEPT ![s] =
                      [stopOp[s] EXCEPT !.stage = stopOp[s].stage,
                                        !.resolution = "ADMINISTRATIVE_RISK_ACCEPTED"]]
<1>1. Reserved(s)
  BY DEF AcceptStopAdministrativeRisk
<1>2. stopOp[s] \in StopRows
  BY <1>1, ReservedRow
<1>3. [stopOp[s] EXCEPT !.resolution = "ADMINISTRATIVE_RISK_ACCEPTED"] =
        [stopOp[s] EXCEPT !.stage = stopOp[s].stage,
                          !.resolution = "ADMINISTRATIVE_RISK_ACCEPTED"]
  BY <1>2 DEF StopRows
<1>4. OnlyGates /\ UNCHANGED <<quarantine, sessionQuarantine, sessionStatus, cleared>>
  BY DEF AcceptStopAdministrativeRisk, OnlyGates
<1>5. /\ accepted[s] = {}
      /\ ls # {} /\ \A l \in ls : LineageQuarantined(l)
      /\ accepted' = [accepted EXCEPT ![s] = { <<l, GenOf(l), p>> : l \in ls }]
  BY DEF AcceptStopAdministrativeRisk
<1>6. \/ stopOp' = stopOp
      \/ /\ stopOp[s].resolution \notin { "IN_FLIGHT", "TERMINATION_CONFIRMED",
                                          "STOP_TARGET_ABSENT" }
         /\ stopOp' = [stopOp EXCEPT ![s].resolution = "ADMINISTRATIVE_RISK_ACCEPTED"]
  BY DEF AcceptStopAdministrativeRisk
<1> QED BY <1>1, <1>3, <1>4, <1>5, <1>6

\* A clearance opens every gate and touches no stop.
LEMMA ClearedNow ==
    ASSUME NEW evidence, NEW p \in Principals, ClearQuarantineWithEvidence(evidence, p)
    PROVE  /\ OnlyGates
           /\ UNCHANGED <<stopOp, sessionStatus, accepted>>
           /\ quarantine' = [a \in Attempts |-> "CLEAN"]
           /\ sessionQuarantine' = "CLEAN"
           /\ LineageQuarantined(NoAttempt)
           /\ DOMAIN evidence = QuarantinedAttempts \cup {NoAttempt}
           /\ \A s \in Stops : Reserved(s) => Reconciled(s, p)
           /\ \A l \in DOMAIN evidence :
                LatestFor(evidence[l], l) /\ ClearanceBasis(evidence[l], l, p)
BY DEF ClearQuarantineWithEvidence, OnlyGates

-----------------------------------------------------------------------------
(* The saga's invariant under the stop transactions.                       *)

\* A transaction on gates and stops leaves alone what the saga relates.
LEMMA OnlyGatesInv ==
    ASSUME SagaInv, RowsTypeOK', OnlyGates, UNCHANGED OtherProcesses
    PROVE  SagaInv'
<1> USE DEF SagaInv, OnlyGates
<1>1. RecoveryTypeOK'
  BY DEF RecoveryTypeOK, TypeOK
<1>2. RowInv'
  BY DEF RowInv, AttemptsExist, CurrentIsOpen, UnknownIsClosed, HeldNeverSent, OneActiveLane
<1>3. WireFollowsIntent' /\ CallersHoldIntent' /\ ConfirmedIsReal'
  BY DEF WireFollowsIntent, CallersHoldIntent, ConfirmedIsReal
<1> QED BY <1>1, <1>2, <1>3

\* A live stop that is decided closes its attempt the way D12 does.
LEMMA CloseLiveInv ==
    ASSUME SagaInv, RowsTypeOK', UNCHANGED OtherProcesses, NEW a \in Attempts, NEW d,
           CurrentOpen(a),
           taskState[a[1]] = "RUNNING",
           d \notin PreSendHolds,
           taskState' = [taskState EXCEPT ![a[1]] = "FAILED"],
           attemptState' = [attemptState EXCEPT ![a] = "ENDED"],
           disposition' = [disposition EXCEPT ![a] = d],
           UNCHANGED <<currentAttempt, contract, boundGen, dispatchVars>>
    PROVE  SagaInv'
<1>1. RecoveryTypeOK'
  BY DEF SagaInv, RecoveryTypeOK, TypeOK
<1>2. RowInv'
  <2> USE TaskOf DEF SagaInv, RecoveryTypeOK, TypeOK, RowsTypeOK, RowInv, CurrentOpen
  <2>1. AttemptsExist'
    BY DEF AttemptsExist
  <2>2. CurrentIsOpen'
    BY DEF CurrentIsOpen, Executing, Attempts
  <2>3. UnknownIsClosed'
    BY DEF UnknownIsClosed
  <2>4. HeldNeverSent'
    BY DEF HeldNeverSent, PreSendHolds
  <2>5. OneActiveLane'
    BY DEF OneActiveLane, ActiveLane
  <2> QED BY <2>1, <2>2, <2>3, <2>4, <2>5
<1>3. WireFollowsIntent' /\ CallersHoldIntent' /\ ConfirmedIsReal'
  BY DEF SagaInv, WireFollowsIntent, CallersHoldIntent, ConfirmedIsReal
<1> QED BY <1>1, <1>2, <1>3 DEF SagaInv

\* Every disposition a stop leaves is one of the table's, and no hold.
LEMMA StopDispositionType ==
    ASSUME NEW res
    PROVE  /\ StopDisposition(res) \in Dispositions
           /\ StopDisposition(res) \notin PreSendHolds
           /\ res \in StopResolutions /\ res # "TERMINATION_CONFIRMED" =>
                StopDisposition(res) # "WORKER_STOPPED"
BY DEF StopDisposition, Dispositions, PreSendHolds, StopResolutions

\* Stop transactions keep the types of the rows.
LEMMA TxType ==
    ASSUME RowsTypeOK, LiveStops, StopTx
    PROVE  RowsTypeOK'
<1>1. ASSUME NEW s \in Stops, StopReserves(s)
      PROVE  RowsTypeOK'
  <2>1. PICK purpose \in StopPurposes, a \in Lineages, timeout \in BOOLEAN :
           ReserveStopOperation(s, purpose, a, timeout)
    BY <1>1 DEF StopReserves
  <2>2. /\ OnlyGates
        /\ sessionStatus' = sessionStatus
        /\ sessionQuarantine' = "QUARANTINED"
        /\ quarantine' \in [Attempts -> QuarantineStates]
        /\ stopOp' \in [Stops -> StopRows \cup {NoStop}]
    BY <2>1, ReservedNow
  <2> QED BY <2>2 DEF OnlyGates, RowsTypeOK, QuarantineStates
<1>2. ASSUME NEW s \in Stops, StopMoves(s)
      PROVE  RowsTypeOK'
  <2>1. Reserved(s)
    BY <1>2, MovedRow
  <2>2. PICK stg \in StopStages, res \in StopResolutions :
           /\ stopOp' = [stopOp EXCEPT ![s] =
                           [stopOp[s] EXCEPT !.stage = stg, !.resolution = res]]
           /\ \/ OnlyGates /\ UNCHANGED <<quarantine, sessionQuarantine, sessionStatus>>
              \/ /\ stopOp[s].purpose = "RUNNING_ATTEMPT_STOP"
                 /\ CloseLiveStop(s, res)
                 /\ UNCHANGED <<currentAttempt, contract, boundGen, dispatchVars,
                                sessionGen, restoreOp, provisionStage>>
              \/ MarkRuntime(s, res) /\ OnlyGates
    BY <1>2, MovedRow
  <2>3. stopOp' \in [Stops -> StopRows \cup {NoStop}]
    BY <2>1, <2>2, RowRewritten
  <2>4. CASE OnlyGates /\ UNCHANGED <<quarantine, sessionQuarantine, sessionStatus>>
    BY <2>3, <2>4 DEF OnlyGates, RowsTypeOK
  <2>5. CASE MarkRuntime(s, res) /\ OnlyGates
    BY <2>3, <2>5 DEF OnlyGates, MarkRuntime, RowsTypeOK, QuarantineStates, SessionStatuses
  <2>6. CASE /\ stopOp[s].purpose = "RUNNING_ATTEMPT_STOP"
             /\ CloseLiveStop(s, res)
             /\ UNCHANGED <<currentAttempt, contract, boundGen, dispatchVars,
                            sessionGen, restoreOp, provisionStage>>
    <3>1. stopOp[s].att \in Attempts /\ stopOp[s].att[1] \in Tasks
      BY <2>1, <2>6, TaskOf DEF LiveStops
    <3>2. "FAILED" \in TaskStates /\ "ENDED" \in AttemptStates
      BY DEF TaskStates, AttemptStates
    <3>3. StopDisposition(res) \in Dispositions
      BY StopDispositionType
    <3> QED BY <2>3, <2>6, <3>1, <3>2, <3>3
            DEF CloseLiveStop, RowsTypeOK, QuarantineStates, SessionStatuses
  <2> QED BY <2>2, <2>4, <2>5, <2>6
<1>3. ASSUME NEW s \in Stops, NEW ls \in SUBSET Lineages, NEW p \in Principals,
             AcceptStopAdministrativeRisk(s, ls, p)
      PROVE  RowsTypeOK'
  <2>1. Reserved(s) /\ OnlyGates /\ UNCHANGED <<quarantine, sessionQuarantine, sessionStatus>>
    BY <1>3, AcceptedNow
  <2>2. stopOp' \in [Stops -> StopRows \cup {NoStop}]
    <3>1. CASE stopOp' = stopOp
      BY <3>1 DEF RowsTypeOK
    <3>2. CASE stopOp' = [stopOp EXCEPT ![s] =
                 [stopOp[s] EXCEPT !.stage = stopOp[s].stage,
                                   !.resolution = "ADMINISTRATIVE_RISK_ACCEPTED"]]
      <4>1. stopOp[s].stage \in StopStages /\ "ADMINISTRATIVE_RISK_ACCEPTED" \in StopResolutions
        BY <2>1, ReservedRow DEF StopResolutions
      <4> QED BY <2>1, <3>2, <4>1, RowRewritten
    <3> QED BY <1>3, <3>1, <3>2, AcceptedNow
  <2> QED BY <2>1, <2>2 DEF OnlyGates, RowsTypeOK
<1>4. ASSUME NEW evidence, NEW p \in Principals, ClearQuarantineWithEvidence(evidence, p)
      PROVE  RowsTypeOK'
  BY <1>4, ClearedNow DEF OnlyGates, RowsTypeOK, QuarantineStates
<1> QED BY <1>1, <1>2, <1>3, <1>4 DEF StopTx

\* Stop transactions keep the saga's invariant.
LEMMA TxSagaInv ==
    ASSUME SagaInv, LiveStops, StopTx, UNCHANGED OtherProcesses
    PROVE  SagaInv'
<1>t. RowsTypeOK
  BY DEF SagaInv, RecoveryTypeOK, TypeOK
<1>1. RowsTypeOK'
  BY <1>t, TxType
<1>2. ASSUME OnlyGates
      PROVE  SagaInv'
  BY <1>1, <1>2, OnlyGatesInv
<1>3. ASSUME NEW s \in Stops, StopMoves(s)
      PROVE  SagaInv'
  <2>1. Reserved(s)
    BY <1>t, <1>3, MovedRow
  <2>2. CASE OnlyGates
    BY <1>2, <2>2
  <2>3. ASSUME NEW res \in StopResolutions,
               stopOp[s].purpose = "RUNNING_ATTEMPT_STOP",
               CloseLiveStop(s, res),
               UNCHANGED <<currentAttempt, contract, boundGen, dispatchVars>>
        PROVE  SagaInv'
    <3>1. stopOp[s].att \in Attempts
      BY <2>1, <2>3 DEF LiveStops
    <3>2. StopDisposition(res) \notin PreSendHolds
      BY StopDispositionType
    <3> QED BY <1>1, <2>3, <3>1, <3>2, CloseLiveInv DEF CloseLiveStop
  <2> QED BY <1>t, <1>3, <2>2, <2>3, MovedRow
<1>4. CASE \E s \in Stops : StopReserves(s)
  BY <1>t, <1>2, <1>4, ReservedNow DEF StopReserves
<1>5. CASE \E s \in Stops, ls \in SUBSET Lineages, p \in Principals :
             AcceptStopAdministrativeRisk(s, ls, p)
  BY <1>t, <1>2, <1>5, AcceptedNow
<1>6. CASE \E evidence \in [QuarantinedAttempts \cup {NoAttempt} -> Stops], p \in Principals :
             ClearQuarantineWithEvidence(evidence, p)
  BY <1>2, <1>6, ClearedNow
<1> QED BY <1>3, <1>4, <1>5, <1>6 DEF StopTx

-----------------------------------------------------------------------------
(* The kinds of steps.                                                     *)

\* A decision of any observer or caller moves the stop it is about.
LEMMA OutcomeMoves ==
    ASSUME NEW s \in Stops, NEW from, NEW to, NEW res, CommitStopOutcome(s, from, to, res)
    PROVE  StopMoves(s)
<1>1. <<from, to, res>> \in StopOutcomes
  BY DEF CommitStopOutcome
<1>2. from \in StopStages /\ to \in StopStages /\ res \in StopResolutions
  BY <1>1 DEF StopOutcomes, StopStages, StopResolutions
<1> QED BY <1>2 DEF StopMoves

\* Runner.classifyStop moves the stop of its snapshot, or nothing.
LEMMA ClassifyMoves ==
    ASSUME NEW x, x.stop \in Stops, NEW o \in Observations, ClassifyStop(x, o)
    PROVE  UNCHANGED rows \/ StopMoves(x.stop)
<1>1. ASSUME AwaitConfirmation(x)
      PROVE  UNCHANGED rows \/ StopMoves(x.stop)
  BY <1>1, OutcomeMoves DEF AwaitConfirmation
<1>2. ASSUME ClassifyAbandonedStopAlive(x.stop)
      PROVE  UNCHANGED rows \/ StopMoves(x.stop)
  BY <1>2 DEF ClassifyAbandonedStopAlive, StopMoves, Abandons
<1> QED BY <1>1, <1>2, OutcomeMoves DEF ClassifyStop

\* So does every observation of a snapshot.
LEMMA ObserveMoves ==
    ASSUME NEW x \in StopSnapshots, ObserveStop(x)
    PROVE  x.stop \in Stops /\ (UNCHANGED rows \/ StopMoves(x.stop))
<1>1. x.stop \in Stops
  BY DEF StopSnapshots
<1> QED BY <1>1, ClassifyMoves DEF ObserveStop

\* A step of dispatch and recovery; the stop processes may end with it.
RecoveryKind == [RecoveryNext]_allVars /\ UNCHANGED <<auditVars, killed>>

\* An observation by the timeout monitor, or a step that touches no row.
TickKind == QuietTx /\ UNCHANGED <<OtherProcesses, auditVars>> /\ killed \subseteq killed'

TxKind == StopTx /\ UNCHANGED <<OtherProcesses, killed>>

\* Every step is of one of these kinds.
LEMMA StopKinds ==
    ASSUME StopTypeOK, [StopNext]_stopAllVars
    PROVE  RecoveryKind \/ TickKind \/ TxKind
<1>u. UNCHANGED rows => QuietTx
  BY DEF QuietTx
<1>r. RowsTypeOK
  BY DEF StopTypeOK, RecoveryTypeOK, TypeOK
<1>m. ASSUME NEW s \in Stops, UNCHANGED rows \/ StopMoves(s),
             UNCHANGED <<OtherProcesses, auditVars, killed>>
      PROVE  TickKind \/ TxKind
  BY <1>m, <1>u DEF TickKind, TxKind, StopTx
<1>v. ASSUME NEW s \in Stops, NEW purpose \in StopPurposes, NEW a \in Lineages,
             NEW timeout \in BOOLEAN, timeout \/ purpose \in StartPurposes,
             ReserveStopOperation(s, purpose, a, timeout),
             UNCHANGED <<OtherProcesses, auditVars, killed>>
      PROVE  TxKind
  BY <1>v DEF TxKind, StopTx, StopReserves
<1>1. CASE SagaStep /\ UNCHANGED stopVars
  BY <1>1 DEF RecoveryKind, RecoveryNext
<1>2. ASSUME NEW s \in Stops, StopCallStep(s)
      PROVE  TickKind \/ TxKind
  <2>1. ASSUME NEW p \in StartPurposes, NEW a \in Lineages, Start(s, p, a)
        PROVE  TxKind
    <3>1. p \in StopPurposes
      BY StartPurposesAssumption
    <3> QED BY <1>v, <2>1, <3>1 DEF Start
  <2>2. ASSUME NEW o \in Observations, StopPreEffect(s, o)
        PROVE  TickKind \/ TxKind
    BY <1>m, <2>2, OutcomeMoves DEF StopPreEffect
  <2>3. CASE StopAccepted(s)
    BY <1>m, <2>3 DEF StopAccepted, StopMoves
  <2>4. CASE StopRefused(s)
    BY <1>m, <2>4, OutcomeMoves DEF StopRefused
  <2>5. CASE StopWorker(s) \/ StopReturns(s)
    BY <1>m, <2>5 DEF StopWorker, StopReturns
  <2>6. CASE Observe(s)
    <3>1. StopSnapshot(s).stop = s
      BY DEF StopSnapshot
    <3>2. UNCHANGED rows \/ StopMoves(s)
      BY <2>6, <3>1, ClassifyMoves DEF Observe
    <3> QED BY <1>m, <2>6, <3>2 DEF Observe
  <2> QED BY <1>2, <2>1, <2>2, <2>3, <2>4, <2>5, <2>6 DEF StopCallStep
<1>3. CASE TickStep
  <2>1. CASE TickStart \/ \E x \in tick : TickSkip(x)
    BY <1>u, <2>1 DEF TickStart, TickSkip, TickKind
  <2>2. ASSUME NEW x \in tick, NEW s \in Stops, TickTimeout(x, s)
        PROVE  TxKind
    <3>1. "RUNNING_ATTEMPT_STOP" \in StopPurposes /\ x.att \in Lineages
      BY DEF StopTypeOK, ExecutionRows, StopPurposes, Lineages
    <3> QED BY <1>v, <2>2, <3>1 DEF TickTimeout
  <2>3. ASSUME NEW x \in tick, TickObserve(x)
        PROVE  TickKind
    <3>1. x \in ExecutionRows
      BY DEF StopTypeOK
    <3>2. QuietTx
      BY <1>r, <2>3, <3>1, ClassifyIsQuiet DEF TickObserve
    <3> QED BY <2>3, <3>2 DEF TickObserve, TickKind
  <2> QED BY <1>3, <2>1, <2>2, <2>3 DEF TickStep
<1>4. CASE StopPollStep
  <2>1. ASSUME NEW x \in pollStops, PollStop(x)
        PROVE  TickKind \/ TxKind
    <3>1. x \in StopSnapshots
      BY DEF StopTypeOK
    <3> QED BY <1>m, <2>1, <3>1, ObserveMoves DEF PollStop
  <2>2. CASE StopPollStart \/ (\E x \in poll : PollClassify(x) /\ UNCHANGED stopVars)
    BY <2>2 DEF StopPollStart, RecoveryKind, RecoveryNext, PollStep
  <2>3. CASE PollAborts
    BY <2>3 DEF PollAborts, RecoveryKind, RecoveryNext, PollStep, PollFails
  <2> QED BY <1>4, <2>1, <2>2, <2>3 DEF StopPollStep
<1>5. CASE (\E s \in Stops : AOKill(s)) \/ ClockStep
  BY <1>5, <1>u DEF AOKill, ClockStep, BudgetExpires, ConfirmationExpires, TickKind
<1>6. CASE OperatorStep
  BY <1>6 DEF OperatorStep, AcceptAdministrativeRisk, ClearQuarantine, TxKind, StopTx
<1>7. CASE StopSweepStep
  <2>1. ASSUME NEW x \in sweepStops, RunStop(x)
        PROVE  TickKind \/ TxKind
    <3>1. x \in StopSnapshots
      BY DEF StopTypeOK
    <3> QED BY <1>m, <2>1, <3>1, ObserveMoves DEF RunStop
  <2>2. CASE StopRunStart \/ StopRunFails
    BY <2>2 DEF StopRunStart, StopRunFails, RecoveryKind, RecoveryNext, SweepStep
  <2>3. CASE /\ \/ \E x \in work : RunClassify(x)
                \/ \E a \in escalate : RunEscalate(a)
                \/ RunReread
                \/ RunComplete
             /\ UNCHANGED stopVars
    BY <2>3 DEF RecoveryKind, RecoveryNext, SweepStep
  <2> QED BY <1>7, <2>1, <2>2, <2>3 DEF StopSweepStep, StopSweepWork
<1>8. CASE StopCrash
  BY <1>8 DEF StopCrash, RecoveryKind, RecoveryNext
<1>9. CASE UNCHANGED stopAllVars
  BY <1>9, <1>u DEF TickKind
<1> QED BY <1>1, <1>2, <1>3, <1>4, <1>5, <1>6, <1>7, <1>8, <1>9 DEF StopNext, StopStep

\* A step of the first two kinds is quiet or loud.
LEMMA KindMoves ==
    ASSUME SagaInv, RecoveryKind \/ TickKind
    PROVE  QuietStep \/ LoudStep
<1>1. CASE RecoveryKind
  BY <1>1, QuietOrLoud DEF RecoveryKind, SagaInv
<1>2. CASE TickKind
  BY <1>2, StaysRelaxes DEF TickKind, QuietStep
<1> QED BY <1>1, <1>2

\* All kinds keep the saga's invariant.
LEMMA KindSagaInv ==
    ASSUME SagaInv, LiveStops, RecoveryKind \/ TickKind \/ TxKind
    PROVE  SagaInv'
<1>1. CASE RecoveryKind
  BY <1>1, StepInv DEF RecoveryKind
<1>2. CASE TickKind
  <2>1. QuietStep
    BY <1>2, StaysRelaxes DEF TickKind, QuietStep
  <2>2. RowsTypeOK'
    BY <1>2, QuietType DEF TickKind, SagaInv, RecoveryTypeOK, TypeOK
  <2>3. RecoveryTypeOK'
    BY <1>2, <2>2 DEF TickKind, SagaInv, RecoveryTypeOK, TypeOK
  <2> QED BY <2>1, <2>3, QuietInv DEF SagaInv
<1>3. CASE TxKind
  BY <1>3, TxSagaInv DEF TxKind
<1> QED BY <1>1, <1>2, <1>3

-----------------------------------------------------------------------------
(* What the steps of dispatch and recovery leave alone.                    *)

\* They write no stop and no generation, open no gate, close an attempt's gate
\* only together with the session's, and never claim that a worker was stopped.
MoveFacts ==
    /\ UNCHANGED <<sessionGen, pairOpVars>>
    /\ sessionStatus' \in { sessionStatus, "TERMINATED" }
    /\ sessionQuarantine = "QUARANTINED" => sessionQuarantine' = "QUARANTINED"
    /\ \A a \in Attempts :
          /\ quarantine[a] = "QUARANTINED" => quarantine'[a] = "QUARANTINED"
          /\ attemptState[a] # "NONE" => attemptState'[a] # "NONE" /\ boundGen'[a] = boundGen[a]
          /\ attemptState[a] = "NONE" /\ attemptState'[a] # "NONE" =>
                boundGen'[a] = sessionGen /\ quarantine'[a] = "CLEAN"
          /\ sessionQuarantine' # "QUARANTINED" => quarantine'[a] = quarantine[a]
          /\ disposition'[a] = "WORKER_STOPPED" => disposition[a] = "WORKER_STOPPED"
          /\ resolution'[a] = "DELIVERY_OUTCOME_UNKNOWN" =>
                \/ resolution[a] = "DELIVERY_OUTCOME_UNKNOWN"
                \/ quarantine'[a] = "QUARANTINED"

\* Quiet steps do.
LEMMA QuietMoveFacts ==
    ASSUME RowsTypeOK, QuietTx
    PROVE  MoveFacts
<1> USE DEF RowsTypeOK, MoveFacts
<1>1. CASE \/ UNCHANGED rows
           \/ \E t \in Tasks : InsertTaskContract(t)
           \/ \E t \in Tasks, to \in TaskStates : TransitionTask(t, to)
  BY <1>1 DEF InsertTaskContract, TransitionTask
<1>2. ASSUME NEW b \in Attempts, RecordUnknownDelivery(b)
      PROVE  MoveFacts
  BY <1>2 DEF RecordUnknownDelivery, CurrentOpen
<1>3. ASSUME NEW b \in Attempts, AtomicAttemptClosureTransition(b)
      PROVE  MoveFacts
  BY <1>3 DEF AtomicAttemptClosureTransition, CurrentOpen
<1>4. ASSUME NEW b \in Attempts, NEW from \in TaskStates, NEW outcome \in Outcomes,
             Closes(b, from, outcome)
      PROVE  MoveFacts
  <2>1. outcome # "WORKER_STOPPED"
    BY DEF Outcomes, DoubleQuarantine
  <2> QED BY <1>4, <2>1 DEF Closes, CurrentOpen
<1>5. ASSUME NEW b \in Attempts, NEW d \in Dispositions, NEW state \in TaskStates,
             Annotates(b, d, state)
      PROVE  MoveFacts
  BY <1>5 DEF Annotates
<1> QED BY <1>1, <1>2, <1>3, <1>4, <1>5 DEF QuietTx

\* So does allocation: the gates of the task's attempts are open when it binds
\* the next one to the session's generation.
LEMMA PrepareMoveFacts ==
    ASSUME SagaInv, NEW t \in Tasks, PrepareBoundDispatch(t)
    PROVE  MoveFacts
<1> DEFINE a == NextAttempt(t)
<1> USE DEF SagaInv, RecoveryTypeOK, TypeOK, RowsTypeOK
<1>1. a \in Attempts /\ a[1] = t /\ a[2] = currentAttempt[t] + 1
  BY NextAttemptExists DEF PrepareBoundDispatch
<1>2. attemptState[a] = "NONE"
  BY <1>1 DEF RowInv, AttemptsExist
<1>3. quarantine[a] = "CLEAN"
  <2>1. \A n \in 1 .. MaxAttempts : quarantine[<<t, n>>] = "CLEAN"
    BY DEF PrepareBoundDispatch, GatesOpen
  <2>2. currentAttempt[t] + 1 \in 1 .. MaxAttempts
    BY MaxAttemptsAssumption DEF PrepareBoundDispatch
  <2> QED BY <2>1, <2>2 DEF NextAttempt
<1>4. /\ attemptState' = [attemptState EXCEPT ![a] = "OPEN"]
      /\ boundGen' = [boundGen EXCEPT ![a] = sessionGen]
      /\ UNCHANGED <<disposition, quarantine, resolution, budget, sessionVars, pairOpVars>>
  BY DEF PrepareBoundDispatch, BindAttempt
<1> HIDE DEF a
<1> QED BY <1>1, <1>2, <1>3, <1>4 DEF MoveFacts

\* And the other loud steps.
LEMMA KindMoveFacts ==
    ASSUME SagaInv, RecoveryKind \/ TickKind
    PROVE  MoveFacts
<1>t. RowsTypeOK
  BY DEF SagaInv, RecoveryTypeOK, TypeOK
<1>1. CASE QuietStep
  BY <1>t, <1>1, QuietMoveFacts DEF QuietStep
<1>2. CASE \E c \in Callers, t \in Tasks : DispatchReady(c, t)
  BY <1>2, PrepareMoveFacts DEF DispatchReady
<1>3. CASE \/ \E c \in Callers : \/ RequestSend(c)
                                 \/ ConfirmSend(c)
                                 \/ DispatchTaskContract(c)
                                 \/ ContainReread(c)
           \/ \E b \in Attempts : AODeliver(b)
  BY <1>3 DEF RequestSend, RecordSendRequested, ConfirmSend, RecordSendConfirmed,
     DispatchTaskContract, ContainReread, AODeliver, MoveFacts
<1> QED BY <1>1, <1>2, <1>3, KindMoves DEF LoudStep

-----------------------------------------------------------------------------
(* The stop rows.                                                          *)

\* How a stop transaction changes the stop rows.
RowsReserved(s) ==
    /\ NextRow(s) /\ Reserved(s)'
    /\ \A r \in Stops : ~StopUnresolved(r)
    /\ \A r \in Stops : r # s => stopOp'[r] = stopOp[r]
    /\ stopOp'[s].gen = sessionGen /\ stopOp'[s].restore = 0
    /\ stopOp'[s].stage = "STOP_REQUESTED"
    /\ stopOp'[s].resolution = "IN_FLIGHT"
    /\ stopOp'[s].timeout \/ stopOp'[s].purpose \in StartPurposes
    /\ stopOp'[s].purpose = "RUNNING_ATTEMPT_STOP" =>
         /\ stopOp'[s].att \in Attempts
         /\ CurrentOpen(stopOp'[s].att)
         /\ taskState[stopOp'[s].att[1]] = "RUNNING"
         /\ quarantine'[stopOp'[s].att] = "QUARANTINED"
         /\ \A r \in Stops :
              Reserved(r) /\ stopOp[r].att = stopOp'[s].att =>
                  stopOp[r].purpose # "RUNNING_ATTEMPT_STOP"

RowsMoved(s) ==
    /\ Reserved(s) /\ Reserved(s)'
    /\ \A r \in Stops : r # s => stopOp'[r] = stopOp[r]
    /\ stopOp[s].resolution \notin { "TERMINATION_CONFIRMED", "STOP_TARGET_ABSENT" }
    /\ stopOp'[s].resolution \in UnresolvedResolutions =>
         stopOp[s].resolution \in UnresolvedResolutions
    /\ stopOp'[s].resolution = "IN_FLIGHT" => stopOp[s].resolution = "IN_FLIGHT"
    /\ stopOp'[s].purpose = stopOp[s].purpose
    /\ stopOp'[s].att = stopOp[s].att
    /\ stopOp'[s].gen = stopOp[s].gen
    /\ stopOp'[s].timeout = stopOp[s].timeout
    /\ stopOp'[s].restore = stopOp[s].restore
    /\ stopOp'[s].stage \in { "STOP_CALL_SUCCEEDED", "STOP_TERMINATION_CONFIRMED" } =>
         s \in killed \/ stopOp[s].stage \in { "STOP_CALL_SUCCEEDED", "STOP_TERMINATION_CONFIRMED" }

\* Rewriting stage and resolution is such a move.
LEMMA RewriteMoves ==
    ASSUME RowsTypeOK, NEW s \in Stops, Reserved(s),
           NEW stg \in StopStages, NEW res \in StopResolutions,
           stopOp' = [stopOp EXCEPT ![s] = [stopOp[s] EXCEPT !.stage = stg, !.resolution = res]],
           stopOp[s].resolution \notin { "TERMINATION_CONFIRMED", "STOP_TARGET_ABSENT" },
           res \in UnresolvedResolutions => stopOp[s].resolution \in UnresolvedResolutions,
           res = "IN_FLIGHT" => stopOp[s].resolution = "IN_FLIGHT",
           stg \in { "STOP_CALL_SUCCEEDED", "STOP_TERMINATION_CONFIRMED" } =>
             \/ s \in killed
             \/ stopOp[s].stage \in { "STOP_CALL_SUCCEEDED", "STOP_TERMINATION_CONFIRMED" }
    PROVE  RowsMoved(s)
<1>1. /\ \A r \in Stops : Reserved(r)' <=> Reserved(r)
      /\ \A r \in Stops : r # s => stopOp'[r] = stopOp[r]
      /\ stopOp'[s].stage = stg
      /\ stopOp'[s].purpose = stopOp[s].purpose
      /\ stopOp'[s].att = stopOp[s].att
      /\ stopOp'[s].gen = stopOp[s].gen
      /\ stopOp'[s].timeout = stopOp[s].timeout
      /\ stopOp'[s].restore = stopOp[s].restore
  BY RowRewritten
<1>2. stopOp'[s].resolution = res
  BY ResolutionRewritten
<1> QED BY <1>1, <1>2 DEF RowsMoved

\* So is every decision on a stop in flight.
LEMMA MoveIsRowsMoved ==
    ASSUME RowsTypeOK, NEW s \in Stops, StopMoves(s)
    PROVE  RowsMoved(s)
<1>1. Reserved(s) /\ stopOp[s].resolution = "IN_FLIGHT"
  BY MovedRow
<1>2. PICK stg \in StopStages, res \in StopResolutions :
         /\ stopOp' = [stopOp EXCEPT ![s] =
                         [stopOp[s] EXCEPT !.stage = stg, !.resolution = res]]
         /\ stg = "STOP_CALL_SUCCEEDED" => s \in killed \/ stopOp[s].stage = stg
         /\ stg = "STOP_TERMINATION_CONFIRMED" => stopOp[s].stage = "STOP_CALL_SUCCEEDED"
  BY MovedRow
<1> QED BY <1>1, <1>2, RewriteMoves DEF UnresolvedResolutions

\* So is an operator's acceptance that rewrites the row.
LEMMA AcceptIsRowsMoved ==
    ASSUME RowsTypeOK, NEW s \in Stops, NEW ls \in SUBSET Lineages, NEW p \in Principals,
           AcceptStopAdministrativeRisk(s, ls, p), stopOp' # stopOp
    PROVE  RowsMoved(s)
<1>1. /\ Reserved(s)
      /\ stopOp[s].resolution \notin { "IN_FLIGHT", "TERMINATION_CONFIRMED",
                                       "STOP_TARGET_ABSENT" }
      /\ stopOp' = [stopOp EXCEPT ![s] =
           [stopOp[s] EXCEPT !.stage = stopOp[s].stage,
                             !.resolution = "ADMINISTRATIVE_RISK_ACCEPTED"]]
  BY AcceptedNow
<1>2. PICK stg \in StopStages, res \in StopResolutions :
         stg = stopOp[s].stage /\ res = "ADMINISTRATIVE_RISK_ACCEPTED"
  BY <1>1, ReservedRow DEF StopResolutions
<1>4. stopOp' = [stopOp EXCEPT ![s] =
                   [stopOp[s] EXCEPT !.stage = stg, !.resolution = res]]
  BY <1>1, <1>2
<1>5. Reserved(s)
  BY <1>1
<1>3. stopOp[s].stage \in { "STOP_CALL_SUCCEEDED", "STOP_TERMINATION_CONFIRMED" } \/
        stg \notin { "STOP_CALL_SUCCEEDED", "STOP_TERMINATION_CONFIRMED" }
  BY <1>2
<1>6. /\ stopOp[s].resolution \notin { "TERMINATION_CONFIRMED", "STOP_TARGET_ABSENT" }
      /\ res \in UnresolvedResolutions => stopOp[s].resolution \in UnresolvedResolutions
      /\ res = "IN_FLIGHT" => stopOp[s].resolution = "IN_FLIGHT"
  BY <1>1, <1>2 DEF UnresolvedResolutions
<1> QED BY <1>3, <1>4, <1>5, <1>6, RewriteMoves

\* A reservation adds a row.
LEMMA ReserveIsRowsReserved ==
    ASSUME RowsTypeOK, NEW s \in Stops, StopReserves(s)
    PROVE  RowsReserved(s)
<1>1. PICK purpose \in StopPurposes, a \in Lineages, timeout \in BOOLEAN :
         /\ timeout \/ purpose \in StartPurposes
         /\ ReserveStopOperation(s, purpose, a, timeout)
  BY DEF StopReserves
<1>2. /\ NextRow(s) /\ Reserved(s)'
      /\ \A r \in Stops : ~StopUnresolved(r)
      /\ \A r \in Stops : r # s => stopOp'[r] = stopOp[r]
      /\ stopOp'[s].gen = sessionGen /\ stopOp'[s].restore = 0
      /\ stopOp'[s].stage = "STOP_REQUESTED"
      /\ stopOp'[s].resolution = "IN_FLIGHT"
      /\ stopOp'[s].purpose = purpose
      /\ stopOp'[s].att = a
      /\ stopOp'[s].timeout = timeout
  BY <1>1, ReservedNow
<1>3. /\ StopTarget(purpose, a, timeout)
      /\ purpose = "RUNNING_ATTEMPT_STOP" => quarantine'[a] = "QUARANTINED"
      /\ purpose = "RUNNING_ATTEMPT_STOP" =>
           \A r \in Stops :
             Reserved(r) /\ stopOp[r].att = a => stopOp[r].purpose # "RUNNING_ATTEMPT_STOP"
  BY <1>1, ReservedNow
<1>4. purpose = "RUNNING_ATTEMPT_STOP" =>
         a \in Attempts /\ CurrentOpen(a) /\ taskState[a[1]] = "RUNNING"
  BY <1>3 DEF StopTarget
<1> QED BY <1>1, <1>2, <1>3, <1>4 DEF RowsReserved

\* Every kind of step reserves a stop, moves one, or leaves all stop rows alone.
LEMMA KindRows ==
    ASSUME SagaInv, RecoveryKind \/ TickKind \/ TxKind
    PROVE  \/ UNCHANGED stopOp
           \/ \E s \in Stops : RowsReserved(s) \/ RowsMoved(s)
<1>t. RowsTypeOK
  BY DEF SagaInv, RecoveryTypeOK, TypeOK
<1>1. CASE RecoveryKind \/ TickKind
  BY <1>1, KindMoveFacts DEF MoveFacts
<1>2. ASSUME NEW s \in Stops, StopReserves(s)
      PROVE  RowsReserved(s)
  BY <1>t, <1>2, ReserveIsRowsReserved
<1>3. ASSUME NEW s \in Stops, StopMoves(s)
      PROVE  RowsMoved(s)
  BY <1>t, <1>3, MoveIsRowsMoved
<1>4. ASSUME NEW s \in Stops, NEW ls \in SUBSET Lineages, NEW p \in Principals,
             AcceptStopAdministrativeRisk(s, ls, p), stopOp' # stopOp
      PROVE  RowsMoved(s)
  BY <1>t, <1>4, AcceptIsRowsMoved
<1>5. CASE \E evidence \in [QuarantinedAttempts \cup {NoAttempt} -> Stops], p \in Principals :
             ClearQuarantineWithEvidence(evidence, p)
  BY <1>5, ClearedNow
<1> QED BY <1>1, <1>2, <1>3, <1>4, <1>5 DEF TxKind, StopTx

\* What no stop transaction touches: bindings, dispatch operations, the pair
\* operations, and which attempts there are.
TxFrame ==
    /\ UNCHANGED <<currentAttempt, contract, boundGen, dispatchVars, sessionGen,
                   restoreOp, provisionStage>>
    /\ sessionStatus' \in { sessionStatus, "TERMINATED" }
    /\ \A a \in Attempts : attemptState'[a] = "NONE" <=> attemptState[a] = "NONE"

\* Stop transactions respect the frame.
LEMMA TxKeepsFrame ==
    ASSUME RowsTypeOK, LiveStops, StopTx
    PROVE  TxFrame
<1>1. ASSUME OnlyGates, sessionStatus' \in { sessionStatus, "TERMINATED" }
      PROVE  TxFrame
  BY <1>1 DEF OnlyGates, TxFrame
<1>2. ASSUME NEW s \in Stops, StopMoves(s)
      PROVE  TxFrame
  <2>1. Reserved(s)
    BY <1>2, MovedRow
  <2>2. CASE OnlyGates /\ UNCHANGED sessionStatus
    BY <1>1, <2>2
  <2>3. ASSUME NEW res \in StopResolutions, MarkRuntime(s, res), OnlyGates
        PROVE  TxFrame
    BY <1>1, <2>3 DEF MarkRuntime
  <2>4. ASSUME NEW res \in StopResolutions, stopOp[s].purpose = "RUNNING_ATTEMPT_STOP",
               CloseLiveStop(s, res),
               UNCHANGED <<currentAttempt, contract, boundGen, dispatchVars,
                           sessionGen, restoreOp, provisionStage>>
        PROVE  TxFrame
    <3>1. stopOp[s].att \in Attempts
      BY <2>1, <2>4 DEF LiveStops
    <3> QED BY <2>4, <3>1 DEF CloseLiveStop, CurrentOpen, TxFrame, RowsTypeOK
  <2> QED BY <1>2, <2>2, <2>3, <2>4, MovedRow
<1>3. CASE \E s \in Stops : StopReserves(s)
  BY <1>1, <1>3, ReservedNow DEF StopReserves
<1>4. CASE \E s \in Stops, ls \in SUBSET Lineages, p \in Principals :
             AcceptStopAdministrativeRisk(s, ls, p)
  BY <1>1, <1>4, AcceptedNow
<1>5. CASE \E evidence \in [QuarantinedAttempts \cup {NoAttempt} -> Stops], p \in Principals :
             ClearQuarantineWithEvidence(evidence, p)
  BY <1>1, <1>5, ClearedNow
<1> QED BY <1>2, <1>3, <1>4, <1>5 DEF StopTx

\* What every kind of step respects: generations are bound once and for all,
\* and rows do not disappear.
Frame ==
    /\ UNCHANGED <<sessionGen, restoreOp, provisionStage>>
    /\ sessionStatus' \in { sessionStatus, "TERMINATED" }
    /\ killed \subseteq killed'
    /\ \A a \in Attempts :
          /\ attemptState[a] # "NONE" => attemptState'[a] # "NONE" /\ boundGen'[a] = boundGen[a]
          /\ attemptState[a] = "NONE" /\ attemptState'[a] # "NONE" => boundGen'[a] = sessionGen
    /\ \A s \in Stops : Reserved(s) => Reserved(s)'

\* Every step of the stop saga stays in the frame.
LEMMA KindFrame ==
    ASSUME SagaInv, LiveStops, RecoveryKind \/ TickKind \/ TxKind
    PROVE  Frame
<1>t. RowsTypeOK
  BY DEF SagaInv, RecoveryTypeOK, TypeOK
<1>1. \A s \in Stops : Reserved(s) => Reserved(s)'
  <2>1. CASE UNCHANGED stopOp
    BY <2>1 DEF Reserved
  <2>2. ASSUME NEW s \in Stops, RowsReserved(s) \/ RowsMoved(s)
        PROVE  \A r \in Stops : Reserved(r) => Reserved(r)'
    BY <2>2 DEF RowsReserved, RowsMoved, Reserved
  <2> QED BY <2>1, <2>2, KindRows
<1>2. CASE RecoveryKind \/ TickKind
  BY <1>1, <1>2, KindMoveFacts DEF MoveFacts, Frame, RecoveryKind, TickKind
<1>3. CASE TxKind
  BY <1>t, <1>1, <1>3, TxKeepsFrame DEF TxKind, TxFrame, Frame
<1> QED BY <1>2, <1>3

\* One runtime, still.
LEMMA OneRuntimeStep ==
    ASSUME SagaInv, LiveStops, OneRuntime, RecoveryKind \/ TickKind \/ TxKind
    PROVE  OneRuntime'
<1>f. Frame
  BY KindFrame
<1>1. /\ sessionStatus' # "NONE"
      /\ restoreOp' = NoRestore
      /\ provisionStage' = "PROVISION_CONFIRMED"
      /\ \A a \in Attempts : attemptState'[a] # "NONE" => boundGen'[a] = sessionGen'
  BY <1>f DEF Frame, OneRuntime
<1>2. \A s \in Stops : Reserved(s)' => stopOp'[s].gen = sessionGen' /\ stopOp'[s].restore = 0
  <2>1. CASE UNCHANGED stopOp
    BY <1>f, <2>1 DEF Frame, OneRuntime, Reserved
  <2>2. ASSUME NEW s \in Stops, RowsReserved(s) \/ RowsMoved(s)
        PROVE  \A r \in Stops : Reserved(r)' => stopOp'[r].gen = sessionGen' /\ stopOp'[r].restore = 0
    BY <1>f, <2>2 DEF RowsReserved, RowsMoved, Reserved, Frame, OneRuntime
  <2> QED BY <2>1, <2>2, KindRows
<1> QED BY <1>1, <1>2 DEF OneRuntime

\* Rows stay in order: a new one is the next, and only when none is unresolved;
\* a resolved one stays resolved.
LEMMA StopsInOrderStep ==
    ASSUME SagaInv, StopsInOrder, RecoveryKind \/ TickKind \/ TxKind
    PROVE  StopsInOrder'
<1>1. CASE UNCHANGED stopOp
  BY <1>1 DEF StopsInOrder, StopUnresolved, Reserved
<1>2. ASSUME NEW s \in Stops, RowsReserved(s)
      PROVE  StopsInOrder'
  <2>1. /\ Reserved(s)' /\ ~Reserved(s)
        /\ \A r \in Stops : r < s => Reserved(r)
        /\ \A r \in Stops : r # s => (Reserved(r)' <=> Reserved(r))
        /\ \A r \in Stops : r # s => ~StopUnresolved(r)'
    BY <1>2 DEF RowsReserved, NextRow, Reserved, StopUnresolved, Stops
  <2>2. \A r \in Stops : Reserved(r)' => r <= s
    BY <2>1 DEF StopsInOrder, Stops
  <2>3. \A q, r \in Stops : Reserved(r)' /\ q < r => Reserved(q)'
    BY <2>1 DEF StopsInOrder, Stops
  <2> QED BY <2>1, <2>2, <2>3 DEF StopsInOrder
<1>3. ASSUME NEW s \in Stops, RowsMoved(s)
      PROVE  StopsInOrder'
  <2>1. \A r \in Stops : Reserved(r)' <=> Reserved(r)
    BY <1>3 DEF RowsMoved, Reserved
  <2>2. \A r \in Stops : StopUnresolved(r)' => StopUnresolved(r)
    BY <1>3 DEF RowsMoved, Reserved, StopUnresolved
  <2> QED BY <2>1, <2>2 DEF StopsInOrder
<1> QED BY <1>1, <1>2, <1>3, KindRows

\* The attempts of live stops exist, and each has one at most.
LEMMA LiveStopsStep ==
    ASSUME SagaInv, LiveStops, RecoveryKind \/ TickKind \/ TxKind
    PROVE  LiveStops'
<1>f. \A a \in Attempts : attemptState[a] # "NONE" => attemptState'[a] # "NONE"
  BY KindFrame DEF Frame
<1>1. CASE UNCHANGED stopOp
  BY <1>f, <1>1 DEF LiveStops, Reserved
<1>2. ASSUME NEW s \in Stops, RowsReserved(s)
      PROVE  LiveStops'
  BY <1>f, <1>2 DEF RowsReserved, LiveStops, Reserved, CurrentOpen
<1>3. ASSUME NEW s \in Stops, RowsMoved(s)
      PROVE  LiveStops'
  BY <1>f, <1>3 DEF RowsMoved, LiveStops, Reserved
<1> QED BY <1>1, <1>2, <1>3, KindRows

-----------------------------------------------------------------------------
(* What kills prove.                                                       *)

\* A confirmed stop is on record for good.
LEMMA ConfirmedStays ==
    ASSUME SagaInv, RecoveryKind \/ TickKind \/ TxKind, NEW s \in Stops,
           Reserved(s), stopOp[s].resolution = "TERMINATION_CONFIRMED"
    PROVE  stopOp'[s] = stopOp[s]
<1>1. ASSUME NEW r \in Stops, RowsReserved(r)
      PROVE  stopOp'[s] = stopOp[s]
  BY <1>1 DEF RowsReserved, NextRow
<1>2. ASSUME NEW r \in Stops, RowsMoved(r)
      PROVE  stopOp'[s] = stopOp[s]
  BY <1>2 DEF RowsMoved
<1> QED BY <1>1, <1>2, KindRows

\* A stop transaction that writes a disposition decides a live stop of that
\* attempt; one that writes WORKER_STOPPED has confirmed it.
LEMMA TxDispositions ==
    ASSUME RowsTypeOK, LiveStops, StopTx, NEW a \in Attempts,
           disposition'[a] # disposition[a]
    PROVE  \E s \in Stops :
             /\ Reserved(s)' /\ stopOp'[s].purpose = "RUNNING_ATTEMPT_STOP"
             /\ stopOp'[s].att = a
             /\ disposition'[a] = "WORKER_STOPPED" =>
                  /\ stopOp'[s].stage = "STOP_TERMINATION_CONFIRMED"
                  /\ stopOp'[s].resolution = "TERMINATION_CONFIRMED"
                  /\ stopOp[s].stage = "STOP_CALL_SUCCEEDED"
                  /\ Reserved(s)
<1>1. ASSUME OnlyGates
      PROVE  FALSE
  BY <1>1 DEF OnlyGates
<1>2. PICK s \in Stops : StopMoves(s)
  BY <1>1, ReservedNow, AcceptedNow, ClearedNow DEF StopTx, StopReserves
<1>3. Reserved(s)
  BY <1>2, MovedRow
<1>4. PICK stg \in StopStages, res \in StopResolutions :
         /\ stopOp' = [stopOp EXCEPT ![s] =
                         [stopOp[s] EXCEPT !.stage = stg, !.resolution = res]]
         /\ stg = "STOP_TERMINATION_CONFIRMED" => stopOp[s].stage = "STOP_CALL_SUCCEEDED"
         /\ stg = "STOP_TERMINATION_CONFIRMED" <=> res = "TERMINATION_CONFIRMED"
         /\ stopOp[s].purpose = "RUNNING_ATTEMPT_STOP"
         /\ CloseLiveStop(s, res)
  BY <1>1, <1>2, MovedRow
<1>5. /\ Reserved(s)'
      /\ stopOp'[s].stage = stg
      /\ stopOp'[s].purpose = stopOp[s].purpose
      /\ stopOp'[s].att = stopOp[s].att
  BY <1>3, <1>4, RowRewritten
<1>6. stopOp'[s].resolution = res
  BY <1>3, <1>4, ResolutionRewritten
<1>7. stopOp[s].att \in Attempts
  BY <1>3, <1>4 DEF LiveStops
<1>8. stopOp[s].att = a /\ disposition'[a] = StopDisposition(res)
  BY <1>4, <1>7 DEF CloseLiveStop, RowsTypeOK
<1>9. disposition'[a] = "WORKER_STOPPED" => res = "TERMINATION_CONFIRMED"
  BY <1>8, StopDispositionType
<1> QED BY <1>3, <1>4, <1>5, <1>6, <1>8, <1>9

\* WORKER_STOPPED is earned, and so are acceptance and confirmation.
LEMMA StoppedIsRealStep ==
    ASSUME SagaInv, LiveStops, StoppedIsReal, killed \subseteq Stops,
           RecoveryKind \/ TickKind \/ TxKind
    PROVE  StoppedIsReal'
<1>t. RowsTypeOK
  BY DEF SagaInv, RecoveryTypeOK, TypeOK
<1>f. killed \subseteq killed'
  BY KindFrame DEF Frame
<1>1. ASSUME NEW s \in Stops, Reserved(s)',
             stopOp'[s].stage \in { "STOP_CALL_SUCCEEDED", "STOP_TERMINATION_CONFIRMED" }
      PROVE  s \in killed'
  <2>1. CASE UNCHANGED stopOp
    BY <1>f, <1>1, <2>1 DEF StoppedIsReal, Reserved
  <2>2. ASSUME NEW r \in Stops, RowsReserved(r)
        PROVE  s \in killed'
    BY <1>f, <1>1, <2>2 DEF StoppedIsReal, Reserved, RowsReserved
  <2>3. ASSUME NEW r \in Stops, RowsMoved(r)
        PROVE  s \in killed'
    BY <1>f, <1>1, <2>3 DEF StoppedIsReal, Reserved, RowsMoved
  <2> QED BY <2>1, <2>2, <2>3, KindRows
<1>2. ASSUME NEW a \in Attempts, disposition'[a] = "WORKER_STOPPED"
      PROVE  \E s \in killed' :
               /\ StopIs(s, "STOP_TERMINATION_CONFIRMED", "TERMINATION_CONFIRMED")'
               /\ stopOp'[s].purpose = "RUNNING_ATTEMPT_STOP"
               /\ stopOp'[s].att = a
  <2>1. CASE disposition[a] = "WORKER_STOPPED"
    <3>1. PICK s \in killed :
             /\ StopIs(s, "STOP_TERMINATION_CONFIRMED", "TERMINATION_CONFIRMED")
             /\ stopOp[s].purpose = "RUNNING_ATTEMPT_STOP"
             /\ stopOp[s].att = a
             /\ s \in Stops
      BY <2>1 DEF StoppedIsReal
    <3>2. stopOp'[s] = stopOp[s]
      BY <3>1, ConfirmedStays DEF StopIs
    <3> QED BY <1>f, <3>1, <3>2 DEF StopIs, Reserved
  <2>2. CASE disposition[a] # "WORKER_STOPPED"
    <3>1. TxKind
      BY <1>2, <2>2, KindMoveFacts DEF MoveFacts
    <3>2. PICK s \in Stops :
             /\ Reserved(s)' /\ stopOp'[s].purpose = "RUNNING_ATTEMPT_STOP"
             /\ stopOp'[s].att = a
             /\ stopOp'[s].stage = "STOP_TERMINATION_CONFIRMED"
             /\ stopOp'[s].resolution = "TERMINATION_CONFIRMED"
      BY <1>t, <1>2, <2>2, <3>1, TxDispositions DEF TxKind
    <3>3. s \in killed'
      BY <1>1, <3>2
    <3> QED BY <3>2, <3>3 DEF StopIs, Reserved
  <2> QED BY <2>1, <2>2
<1> QED BY <1>1, <1>2 DEF StoppedIsReal

-----------------------------------------------------------------------------
(* What the gates prove.                                                   *)

\* The session is nobody's attempt.
LEMMA SessionIsNoAttempt == NoAttempt \notin Attempts
BY DEF Attempts

\* A lineage that exists: the session, or an attempt with a row.
Exists(l) == l = NoAttempt \/ attemptState[l] # "NONE"

\* Evidence is never lost.
LEMMA SettledStays ==
    ASSUME SagaInv, LiveStops, StopTypes, killed \subseteq Stops,
           RecoveryKind \/ TickKind \/ TxKind,
           NEW l \in Lineages, Exists(l), Settled(l)
    PROVE  Settled(l)'
<1>t. RowsTypeOK
  BY DEF SagaInv, RecoveryTypeOK, TypeOK
<1>f. Frame
  BY KindFrame
<1>1. GenOf(l)' = GenOf(l)
  BY <1>f DEF Frame, GenOf, Exists, Lineages
<1>2. ASSUME NEW s \in killed,
             StopIs(s, "STOP_TERMINATION_CONFIRMED", "TERMINATION_CONFIRMED"), Covers(s, l)
      PROVE  Settled(l)'
  <2>1. s \in Stops /\ s \in killed'
    BY <1>f DEF Frame
  <2>2. stopOp'[s] = stopOp[s]
    BY <1>2, <2>1, ConfirmedStays DEF StopIs
  <2> QED BY <1>1, <1>2, <2>1, <2>2 DEF Settled, StopIs, Covers, Reserved
<1>3. ASSUME NEW s \in Stops, NEW p \in Principals, AcceptedBy(s, l, p)
      PROVE  Settled(l)'
  <2>1. accepted[s] \subseteq accepted'[s]
    <3>1. CASE UNCHANGED accepted
      BY <3>1
    <3>2. ASSUME NEW r \in Stops, NEW ls \in SUBSET Lineages, NEW q \in Principals,
                 AcceptStopAdministrativeRisk(r, ls, q)
          PROVE  accepted[s] \subseteq accepted'[s]
      BY <1>t, <3>2, AcceptedNow DEF StopTypes
    <3>3. CASE \E evidence \in [QuarantinedAttempts \cup {NoAttempt} -> Stops], q \in Principals :
                 ClearQuarantineWithEvidence(evidence, q)
      BY <3>3, ClearedNow
    <3> QED BY <3>1, <3>2, <3>3 DEF RecoveryKind, TickKind, TxKind, StopTx
  <2>2. AcceptedBy(s, l, p)'
    BY <1>1, <1>3, <2>1 DEF AcceptedBy
  <2> QED BY <2>2 DEF Settled
<1> QED BY <1>2, <1>3 DEF Settled

\* A physical proof opens the gates of its own attempt and, at most, of the
\* session it was bound to.
LEMMA CloseLiveSettles ==
    ASSUME RowsTypeOK, LiveStops, StoppedIsReal', NEW s \in Stops, Reserved(s),
           NEW stg \in StopStages, NEW res \in StopResolutions,
           stopOp' = [stopOp EXCEPT ![s] = [stopOp[s] EXCEPT !.stage = stg, !.resolution = res]],
           stg = "STOP_TERMINATION_CONFIRMED" <=> res = "TERMINATION_CONFIRMED",
           stopOp[s].purpose = "RUNNING_ATTEMPT_STOP",
           CloseLiveStop(s, res),
           UNCHANGED <<currentAttempt, contract, boundGen, dispatchVars,
                       sessionGen, restoreOp, provisionStage>>,
           NEW l \in Lineages, LineageQuarantined(l), ~LineageQuarantined(l)'
    PROVE  Settled(l)'
<1> DEFINE a == stopOp[s].att
<1>1. a \in Attempts
  BY DEF LiveStops
<1>2. /\ Reserved(s)'
      /\ stopOp'[s].stage = stg
      /\ stopOp'[s].att = a
      /\ stopOp'[s].gen = stopOp[s].gen
  BY RowRewritten
<1>3. stopOp'[s].resolution = res
  BY ResolutionRewritten
<1>4. /\ boundGen[a] = stopOp[s].gen
      /\ sessionGen = boundGen[a]
  BY DEF CloseLiveStop, SessionMatches
<1>5. res = "TERMINATION_CONFIRMED" /\ (l = NoAttempt \/ l = a)
  BY <1>1, SessionIsNoAttempt
     DEF CloseLiveStop, CurrentOpen, LineageQuarantined, Lineages, RowsTypeOK
<1>6. s \in killed'
  BY <1>2, <1>5 DEF StoppedIsReal, Reserved
<1>7. Covers(s, l)'
  BY <1>2, <1>4, <1>5 DEF Covers, GenOf
<1>8. StopIs(s, "STOP_TERMINATION_CONFIRMED", "TERMINATION_CONFIRMED")'
  BY <1>2, <1>3, <1>5 DEF StopIs
<1> QED BY <1>6, <1>7, <1>8 DEF Settled

\* A clearance cites, for every lineage, evidence that settles it.
LEMMA ClearSettles ==
    ASSUME StoppedIsReal, NEW evidence \in [QuarantinedAttempts \cup {NoAttempt} -> Stops],
           NEW p \in Principals, ClearQuarantineWithEvidence(evidence, p),
           NEW l \in Lineages, LineageQuarantined(l)
    PROVE  Settled(l)
<1>1. l \in QuarantinedAttempts \cup {NoAttempt}
  BY DEF Lineages, QuarantinedAttempts
<1>2. evidence[l] \in Stops /\ ClearanceBasis(evidence[l], l, p)
  BY <1>1, ClearedNow
<1>3. CASE PositiveD11StopEvidence(evidence[l]) /\ Covers(evidence[l], l)
  BY <1>2, <1>3 DEF PositiveD11StopEvidence, StopIs, StoppedIsReal, Settled
<1>4. CASE AcceptedBy(evidence[l], l, p)
  BY <1>2, <1>4 DEF Settled
<1> QED BY <1>2, <1>3, <1>4 DEF ClearanceBasis

\* No step opens a gate without evidence for its own lineage.
LEMMA OpenedOnEvidence ==
    ASSUME SagaInv, LiveStops, StopTypes, StoppedIsReal, killed \subseteq Stops,
           RecoveryKind \/ TickKind \/ TxKind,
           NEW l \in Lineages, LineageQuarantined(l), ~LineageQuarantined(l)'
    PROVE  Settled(l)'
<1>t. RowsTypeOK
  BY DEF SagaInv, RecoveryTypeOK, TypeOK
<1>f. Frame
  BY KindFrame
<1>r. StoppedIsReal'
  BY StoppedIsRealStep
<1>s. Exists(l)
  BY DEF LineageQuarantined, Exists
\* A step that closes gates only.
<1>c. ASSUME sessionQuarantine = "QUARANTINED" => sessionQuarantine' = "QUARANTINED",
             \A a \in Attempts : quarantine[a] = "QUARANTINED" => quarantine'[a] = "QUARANTINED"
      PROVE  FALSE
  BY <1>c, <1>f DEF LineageQuarantined, Frame, Lineages
<1>1. CASE RecoveryKind \/ TickKind
  BY <1>1, <1>c, KindMoveFacts DEF MoveFacts
<1>2. CASE \E s \in Stops : StopReserves(s)
  BY <1>t, <1>2, <1>c, ReservedNow DEF StopReserves
<1>3. ASSUME NEW s \in Stops, StopMoves(s)
      PROVE  Settled(l)'
  <2>1. Reserved(s)
    BY <1>t, <1>3, MovedRow
  <2>2. PICK stg \in StopStages, res \in StopResolutions :
           /\ stopOp' = [stopOp EXCEPT ![s] =
                           [stopOp[s] EXCEPT !.stage = stg, !.resolution = res]]
           /\ stg = "STOP_TERMINATION_CONFIRMED" <=> res = "TERMINATION_CONFIRMED"
           /\ \/ OnlyGates /\ UNCHANGED <<quarantine, sessionQuarantine, sessionStatus>>
              \/ /\ stopOp[s].purpose = "RUNNING_ATTEMPT_STOP"
                 /\ CloseLiveStop(s, res)
                 /\ UNCHANGED <<currentAttempt, contract, boundGen, dispatchVars,
                                sessionGen, restoreOp, provisionStage>>
              \/ MarkRuntime(s, res) /\ OnlyGates
    BY <1>t, <1>3, MovedRow
  <2>3. CASE UNCHANGED <<quarantine, sessionQuarantine>> \/ MarkRuntime(s, res)
    BY <1>c, <2>3 DEF MarkRuntime
  <2>4. CASE /\ stopOp[s].purpose = "RUNNING_ATTEMPT_STOP"
             /\ CloseLiveStop(s, res)
             /\ UNCHANGED <<currentAttempt, contract, boundGen, dispatchVars,
                            sessionGen, restoreOp, provisionStage>>
    BY <1>t, <1>r, <2>1, <2>2, <2>4, CloseLiveSettles
  <2> QED BY <2>2, <2>3, <2>4
<1>4. CASE \E s \in Stops, ls \in SUBSET Lineages, p \in Principals :
             AcceptStopAdministrativeRisk(s, ls, p)
  BY <1>t, <1>4, <1>c, AcceptedNow
<1>5. CASE \E evidence \in [QuarantinedAttempts \cup {NoAttempt} -> Stops], p \in Principals :
             ClearQuarantineWithEvidence(evidence, p)
  <2>1. Settled(l)
    BY <1>5, ClearSettles
  <2> QED BY <1>s, <2>1, SettledStays
<1> QED BY <1>1, <1>2, <1>3, <1>4, <1>5 DEF TxKind, StopTx

\* An unknown delivery stays closed off until its own lineage is settled.
LEMMA SettlementStep ==
    ASSUME SagaInv, LiveStops, StopTypes, StoppedIsReal, killed \subseteq Stops,
           UnknownNeedsSettlement, RecoveryKind \/ TickKind \/ TxKind
    PROVE  UnknownNeedsSettlement'
<1>t. RowsTypeOK
  BY DEF SagaInv, RecoveryTypeOK, TypeOK
<1>i. UnknownIsClosed'
  BY KindSagaInv DEF SagaInv, RowInv
<1> SUFFICES ASSUME NEW a \in Attempts, resolution'[a] = "DELIVERY_OUTCOME_UNKNOWN"
             PROVE  /\ attemptState'[a] = "ENDED"
                    /\ disposition'[a] = "UNCERTAIN_DELIVERY_CRASH"
                    /\ LineageQuarantined(a)' \/ Settled(a)'
  BY DEF UnknownNeedsSettlement
<1>1. /\ attemptState'[a] = "ENDED"
      /\ disposition'[a] = "UNCERTAIN_DELIVERY_CRASH"
  BY <1>i DEF UnknownIsClosed
<1>2. a \in Lineages /\ a # NoAttempt
  BY SessionIsNoAttempt DEF Lineages
<1>3. CASE resolution[a] = "DELIVERY_OUTCOME_UNKNOWN"
  <2>1. attemptState[a] = "ENDED" /\ (LineageQuarantined(a) \/ Settled(a))
    BY <1>3 DEF UnknownNeedsSettlement
  <2>2. CASE Settled(a)
    BY <1>1, <1>2, <2>1, <2>2, SettledStays DEF Exists
  <2>3. CASE LineageQuarantined(a)
    BY <1>1, <1>2, <2>3, OpenedOnEvidence
  <2> QED BY <1>1, <2>1, <2>2, <2>3
<1>4. CASE resolution[a] # "DELIVERY_OUTCOME_UNKNOWN"
  <2>1. RecoveryKind \/ TickKind
    BY <1>t, <1>4, TxKeepsFrame DEF TxKind, TxFrame
  <2>2. quarantine'[a] = "QUARANTINED"
    BY <1>4, <2>1, KindMoveFacts DEF MoveFacts
  <2> QED BY <1>1, <1>2, <2>2 DEF LineageQuarantined
<1> QED BY <1>3, <1>4

\* The stop whose outcome says whether the session's runtime is gone.
LastStop(s) ==
    /\ Covers(s, NoAttempt)
    /\ \A r \in Stops : Covers(r, NoAttempt) => r <= s

\* It was confirmed, or accepted for the session.
StopSettled(s) ==
    \/ stopOp[s].resolution = "TERMINATION_CONFIRMED"
    \/ \E p \in Principals : AcceptedBy(s, NoAttempt, p)

\* A live stop that cleans the session was the only open one, and the last.
LEMMA CloseLiveCovers ==
    ASSUME RowsTypeOK, LiveStops, OneRuntime, StopsInOrder,
           NEW s \in Stops, Reserved(s), stopOp[s].resolution = "IN_FLIGHT",
           NEW stg \in StopStages, NEW res \in StopResolutions,
           stopOp' = [stopOp EXCEPT ![s] = [stopOp[s] EXCEPT !.stage = stg, !.resolution = res]],
           stopOp[s].purpose = "RUNNING_ATTEMPT_STOP",
           CloseLiveStop(s, res),
           UNCHANGED sessionGen,
           sessionQuarantine' = "CLEAN"
    PROVE  SessionGateCovers'
<1> DEFINE a == stopOp[s].att
<1>1. a \in Attempts
  BY DEF LiveStops
<1>2. /\ \A r \in Stops : Reserved(r)' <=> Reserved(r)
      /\ \A r \in Stops : r # s => stopOp'[r] = stopOp[r]
      /\ stopOp'[s].gen = stopOp[s].gen
  BY RowRewritten
<1>3. stopOp'[s].resolution = res
  BY ResolutionRewritten
<1>4. res = "TERMINATION_CONFIRMED" /\ QuarantinedAttempts \subseteq {a}
  BY DEF CloseLiveStop, OtherRisk
<1>5. StopUnresolved(s)
  BY DEF StopUnresolved, UnresolvedResolutions
<1>6. \A r \in Stops : Reserved(r) => r <= s
  BY <1>5 DEF StopsInOrder
<1>7. QuarantinedAttempts' = {}
  <2>1. quarantine' = [quarantine EXCEPT ![a] = "CLEAN"]
    BY <1>4 DEF CloseLiveStop
  <2>2. attemptState' = [attemptState EXCEPT ![a] = "ENDED"]
    BY DEF CloseLiveStop
  <2>3. ASSUME NEW b \in Attempts, LineageQuarantined(b)'
        PROVE  FALSE
    <3>0. b # NoAttempt
      BY SessionIsNoAttempt
    <3>1. b # a
      BY <1>1, <2>1, <2>3, <3>0 DEF LineageQuarantined, RowsTypeOK
    <3>2. LineageQuarantined(b)
      BY <1>1, <2>1, <2>2, <2>3, <3>0, <3>1 DEF LineageQuarantined, RowsTypeOK
    <3> QED BY <1>4, <3>1, <3>2 DEF QuarantinedAttempts
  <2> QED BY <2>3 DEF QuarantinedAttempts
<1>8. \A r \in Stops : ~StopUnresolved(r)'
  <2>1. ~StopUnresolved(s)'
    BY <1>3, <1>4 DEF StopUnresolved, UnresolvedResolutions
  <2>2. ASSUME NEW r \in Stops, r # s, StopUnresolved(r)'
        PROVE  FALSE
    <3>1. StopUnresolved(r)
      BY <1>2, <2>2 DEF StopUnresolved, Reserved
    <3>2. r <= s /\ s <= r
      BY <1>5, <3>1 DEF StopsInOrder, StopUnresolved
    <3> QED BY <2>2, <3>2 DEF Stops
  <2> QED BY <2>1, <2>2
<1>9. ASSUME NEW r \in Stops, LastStop(r)'
      PROVE  StopSettled(r)'
  <2>1. Reserved(r)'
    BY <1>9 DEF LastStop, Covers
  <2>2. Covers(s, NoAttempt)'
    BY <1>2 DEF Covers, GenOf, OneRuntime
  <2>3. s <= r /\ r <= s
    BY <1>2, <1>6, <1>9, <2>1, <2>2 DEF LastStop
  <2>4. r = s
    BY <2>3 DEF Stops
  <2> QED BY <1>3, <1>4, <2>4 DEF StopSettled
<1> QED BY <1>7, <1>8, <1>9 DEF SessionGateCovers, LastStop, StopSettled

\* A clearance leaves nothing open, and rests on the last stop.
LEMMA ClearCovers ==
    ASSUME NEW evidence \in [QuarantinedAttempts \cup {NoAttempt} -> Stops],
           NEW p \in Principals, ClearQuarantineWithEvidence(evidence, p)
    PROVE  SessionGateCovers'
<1> DEFINE e == evidence[NoAttempt]
<1>0. NoAttempt \in DOMAIN evidence
  BY ClearedNow
<1>1. /\ UNCHANGED <<stopOp, sessionGen, accepted>>
      /\ quarantine' = [a \in Attempts |-> "CLEAN"]
      /\ \A s \in Stops : Reserved(s) => Reconciled(s, p)
      /\ LatestFor(e, NoAttempt)
      /\ ClearanceBasis(e, NoAttempt, p)
  BY <1>0, ClearedNow DEF OnlyGates
<1>e. e \in Stops
  OBVIOUS
<1>2. QuarantinedAttempts' = {}
  BY <1>1, SessionIsNoAttempt DEF QuarantinedAttempts, LineageQuarantined
<1>3. \A s \in Stops : ~StopUnresolved(s)'
  BY <1>1 DEF StopUnresolved, Reserved, Reconciled, UnresolvedResolutions
<1>4. StopSettled(e)
  BY <1>1 DEF ClearanceBasis, PositiveD11StopEvidence, StopIs, StopSettled
<1>5. ASSUME NEW s \in Stops, LastStop(s)'
      PROVE  StopSettled(s)'
  <2>1. LastStop(s)
    BY <1>1, <1>5 DEF LastStop, Covers, GenOf, Reserved
  <2>2. s <= e /\ e <= s
    BY <1>1, <1>e, <2>1 DEF LastStop, LatestFor
  <2>3. s = e
    BY <1>e, <2>2 DEF Stops
  <2> QED BY <1>1, <1>4, <2>3 DEF StopSettled, AcceptedBy, GenOf
<1> QED BY <1>2, <1>3, <1>5 DEF SessionGateCovers, LastStop, StopSettled

\* The session gate covers the Pair after every step.
LEMMA SessionGateStep ==
    ASSUME SagaInv, LiveStops, OneRuntime, StopsInOrder, SessionGateCovers,
           RecoveryKind \/ TickKind \/ TxKind
    PROVE  SessionGateCovers'
<1>t. RowsTypeOK /\ RowsTypeOK'
  BY KindSagaInv DEF SagaInv, RecoveryTypeOK, TypeOK
<1>s. sessionStatus # "NONE"
  BY DEF OneRuntime
<1> SUFFICES ASSUME sessionQuarantine' = "CLEAN"
             PROVE  SessionGateCovers'
  BY DEF SessionGateCovers
<1>1. CASE RecoveryKind \/ TickKind
  <2>1. MoveFacts /\ UNCHANGED auditVars
    BY <1>1, KindMoveFacts DEF RecoveryKind, TickKind
  <2>2. sessionQuarantine = "CLEAN"
    BY <1>t, <2>1 DEF MoveFacts, RowsTypeOK, QuarantineStates
  <2>3. QuarantinedAttempts' = {}
    <3>1. ASSUME NEW a \in Attempts, LineageQuarantined(a)'
          PROVE  LineageQuarantined(a)
      BY <2>1, <3>1, SessionIsNoAttempt DEF MoveFacts, LineageQuarantined
    <3> QED BY <1>s, <2>2, <3>1 DEF SessionGateCovers, QuarantinedAttempts
  <2>4. UNCHANGED <<stopOp, sessionGen, accepted>>
    BY <2>1 DEF MoveFacts
  <2>5. \A s \in Stops : ~StopUnresolved(s)'
    BY <1>s, <2>2, <2>4 DEF SessionGateCovers, StopUnresolved, Reserved
  <2>6. ASSUME NEW s \in Stops, LastStop(s)'
        PROVE  StopSettled(s)'
    BY <1>s, <2>2, <2>4, <2>6
       DEF SessionGateCovers, LastStop, StopSettled, Covers, Reserved, GenOf, AcceptedBy
  <2> QED BY <2>3, <2>5, <2>6 DEF SessionGateCovers, LastStop, StopSettled
<1>2. CASE \E s \in Stops : StopReserves(s)
  BY <1>t, <1>2, ReservedNow DEF StopReserves
<1>3. ASSUME NEW s \in Stops, StopMoves(s)
      PROVE  SessionGateCovers'
  <2>1. Reserved(s) /\ stopOp[s].resolution = "IN_FLIGHT"
    BY <1>t, <1>3, MovedRow
  <2>2. sessionQuarantine # "CLEAN"
    BY <1>s, <2>1 DEF SessionGateCovers, StopUnresolved, UnresolvedResolutions
  <2>3. PICK stg \in StopStages, res \in StopResolutions :
           /\ stopOp' = [stopOp EXCEPT ![s] =
                           [stopOp[s] EXCEPT !.stage = stg, !.resolution = res]]
           /\ \/ OnlyGates /\ UNCHANGED <<quarantine, sessionQuarantine, sessionStatus>>
              \/ /\ stopOp[s].purpose = "RUNNING_ATTEMPT_STOP"
                 /\ CloseLiveStop(s, res)
                 /\ UNCHANGED <<currentAttempt, contract, boundGen, dispatchVars,
                                sessionGen, restoreOp, provisionStage>>
              \/ MarkRuntime(s, res) /\ OnlyGates
    BY <1>t, <1>3, MovedRow
  <2>4. /\ stopOp[s].purpose = "RUNNING_ATTEMPT_STOP"
        /\ CloseLiveStop(s, res)
        /\ UNCHANGED sessionGen
    BY <2>1, <2>2, <2>3 DEF MarkRuntime, OneRuntime
  <2> QED BY <1>t, <2>1, <2>3, <2>4, CloseLiveCovers
<1>4. CASE \E s \in Stops, ls \in SUBSET Lineages, p \in Principals :
             AcceptStopAdministrativeRisk(s, ls, p)
  <2>0. PICK s \in Stops, ls \in SUBSET Lineages, p \in Principals :
           AcceptStopAdministrativeRisk(s, ls, p)
    BY <1>4
  <2>a. /\ ls # {} /\ \A l \in ls : LineageQuarantined(l)
        /\ UNCHANGED sessionQuarantine
    BY <1>t, <2>0, AcceptedNow
  <2>1. PICK l \in Lineages : LineageQuarantined(l)
    BY <2>a
  <2>2. sessionQuarantine = "CLEAN"
    BY <2>a
  <2>3. l \in QuarantinedAttempts
    BY <2>1, <2>2 DEF LineageQuarantined, Lineages, QuarantinedAttempts
  <2> QED BY <1>s, <2>2, <2>3 DEF SessionGateCovers
<1>5. CASE \E evidence \in [QuarantinedAttempts \cup {NoAttempt} -> Stops], p \in Principals :
             ClearQuarantineWithEvidence(evidence, p)
  BY <1>5, ClearCovers
<1> QED BY <1>1, <1>2, <1>3, <1>4, <1>5 DEF TxKind, StopTx

-----------------------------------------------------------------------------
(* Calls and kills.                                                        *)

\* The steps that move a call, post a kill, or execute one.
EffectStep ==
    \/ \E s \in Stops, purpose \in StopPurposes, a \in Lineages, timeout \in BOOLEAN :
          /\ ReserveStopOperation(s, purpose, a, timeout)
          /\ GotoStop(s, "reserved") \/ UNCHANGED spc
          /\ UNCHANGED <<kills, killed>>
    \/ \E s \in Stops :
          /\ spc[s] = "reserved"
          /\ GotoStop(s, "kill")
          /\ UNCHANGED <<kills, killed>>
    \/ \E s \in Stops : StopWorker(s)
    \/ \E s \in Stops, label \in { "none", "observe" } :
          /\ spc[s] # "none"
          /\ GotoStop(s, label)
          /\ UNCHANGED <<kills, killed>>
    \/ \E s \in Stops : AOKill(s)
    \/ spc' = [s \in Stops |-> "none"] /\ UNCHANGED <<kills, killed>>
    \/ UNCHANGED effectVars

\* All others leave them alone.
LEMMA EffectSteps ==
    ASSUME StopTypeOK, [StopNext]_stopAllVars
    PROVE  EffectStep
<1>1. ASSUME NEW s \in Stops, StopCallStep(s)
      PROVE  EffectStep
  <2>1. ASSUME NEW p \in StartPurposes, NEW a \in Lineages, Start(s, p, a)
        PROVE  EffectStep
    <3>1. p \in StopPurposes
      BY StartPurposesAssumption
    <3> QED BY <2>1, <3>1 DEF Start, EffectStep
  <2>2. ASSUME NEW o \in Observations, StopPreEffect(s, o)
        PROVE  EffectStep
    BY <2>2 DEF StopPreEffect, EffectStep
  <2>3. CASE StopWorker(s)
    BY <2>3 DEF EffectStep
  <2>4. CASE StopAccepted(s)
    BY <2>4 DEF StopAccepted, EffectStep
  <2>5. CASE StopRefused(s) \/ StopReturns(s)
    BY <2>5 DEF StopRefused, StopReturns, EffectStep
  <2>6. CASE Observe(s)
    <3>1. UNCHANGED <<kills, killed>>
      BY <2>6 DEF Observe
    <3>2. CASE spc[s] = "observe"
      <4>1. GotoStop(s, "none")
        BY <2>6, <3>2 DEF Observe, GotoStop, StopTypeOK
      <4> QED BY <3>1, <3>2, <4>1 DEF EffectStep
    <3>3. CASE spc[s] # "observe"
      <4>1. spc' = spc
        BY <2>6, <3>3 DEF Observe, StopTypeOK
      <4> QED BY <3>1, <4>1 DEF EffectStep
    <3> QED BY <3>2, <3>3
  <2> QED BY <1>1, <2>1, <2>2, <2>3, <2>4, <2>5, <2>6 DEF StopCallStep
<1>2. CASE TickStep
  <2>1. ASSUME NEW x \in tick, NEW s \in Stops, TickTimeout(x, s)
        PROVE  EffectStep
    <3>1. "RUNNING_ATTEMPT_STOP" \in StopPurposes /\ x.att \in Lineages
      BY DEF StopTypeOK, ExecutionRows, StopPurposes, Lineages
    <3> QED BY <2>1, <3>1 DEF TickTimeout, EffectStep
  <2> QED BY <1>2, <2>1 DEF TickStep, TickStart, TickObserve, TickSkip, EffectStep
<1>3. CASE (SagaStep /\ UNCHANGED stopVars) \/ ClockStep \/ OperatorStep \/ UNCHANGED stopAllVars
  BY <1>3 DEF ClockStep, BudgetExpires, ConfirmationExpires, OperatorStep,
     AcceptAdministrativeRisk, ClearQuarantine, EffectStep
<1>4. CASE StopPollStep \/ StopSweepStep
  BY <1>4 DEF StopPollStep, StopPollStart, PollStop, PollAborts, StopSweepStep, StopRunStart,
     StopSweepWork, RunStop, StopRunFails, EffectStep
<1>5. CASE (\E s \in Stops : AOKill(s)) \/ StopCrash
  BY <1>5 DEF StopCrash, EffectStep
<1> QED BY <1>1, <1>2, <1>3, <1>4, <1>5 DEF StopNext, StopStep

\* A kill follows its intent, once.
LEMMA KillStep ==
    ASSUME SagaInv, StopTypeOK, LiveStops, KillFollowsIntent, [StopNext]_stopAllVars
    PROVE  KillFollowsIntent'
<1>t. /\ RowsTypeOK
      /\ spc \in [Stops -> SPCs]
      /\ kills \in [Stops -> 0 .. MaxKills]
  BY DEF StopTypeOK, RecoveryTypeOK, TypeOK
<1>f. \A s \in Stops : Reserved(s) => Reserved(s)'
  BY StopKinds, KindFrame DEF Frame
<1>1. ASSUME NEW s \in Stops, NEW purpose \in StopPurposes, NEW a \in Lineages,
             NEW timeout \in BOOLEAN,
             ReserveStopOperation(s, purpose, a, timeout),
             GotoStop(s, "reserved") \/ UNCHANGED spc,
             UNCHANGED <<kills, killed>>
      PROVE  KillFollowsIntent'
  <2>1. ~Reserved(s) /\ Reserved(s)'
    BY <1>t, <1>1, ReservedNow DEF NextRow
  <2>2. kills[s] = 0
    BY <1>t, <2>1 DEF KillFollowsIntent
  <2> QED BY <1>t, <1>f, <1>1, <2>1, <2>2 DEF KillFollowsIntent, GotoStop
<1>2. ASSUME NEW s \in Stops, spc[s] = "reserved", GotoStop(s, "kill"), UNCHANGED <<kills, killed>>
      PROVE  KillFollowsIntent'
  BY <1>t, <1>f, <1>2 DEF KillFollowsIntent, GotoStop
<1>3. ASSUME NEW s \in Stops, StopWorker(s)
      PROVE  KillFollowsIntent'
  <2>1. kills[s] = 0 /\ Reserved(s)
    BY <1>3 DEF StopWorker, KillFollowsIntent
  <2>2. spc' = [spc EXCEPT ![s] = "await"] /\ killed' = killed
    BY <1>3 DEF StopWorker, GotoStop
  <2>3. kills' = kills \/ kills' = [kills EXCEPT ![s] = 1]
    BY <1>t, <1>3, <2>1 DEF StopWorker
  <2> QED BY <1>t, <1>f, <2>1, <2>2, <2>3 DEF KillFollowsIntent
<1>4. ASSUME NEW s \in Stops, NEW label \in { "none", "observe" }, spc[s] # "none",
             GotoStop(s, label), UNCHANGED <<kills, killed>>
      PROVE  KillFollowsIntent'
  BY <1>t, <1>f, <1>4 DEF KillFollowsIntent, GotoStop
<1>5. ASSUME NEW s \in Stops, AOKill(s)
      PROVE  KillFollowsIntent'
  BY <1>f, <1>5 DEF KillFollowsIntent, AOKill
<1>6. CASE spc' = [s \in Stops |-> "none"] /\ UNCHANGED <<kills, killed>>
  BY <1>f, <1>6 DEF KillFollowsIntent
<1>7. CASE UNCHANGED effectVars
  BY <1>f, <1>7 DEF KillFollowsIntent
<1> QED BY <1>1, <1>2, <1>3, <1>4, <1>5, <1>6, <1>7, EffectSteps DEF EffectStep

\* Calls and kills keep their types.
LEMMA EffectTypeStep ==
    ASSUME StopTypeOK, KillFollowsIntent, [StopNext]_stopAllVars
    PROVE  /\ spc' \in [Stops -> SPCs]
           /\ kills' \in [Stops -> 0 .. MaxKills]
           /\ killed' \subseteq Stops
<1>t. /\ spc \in [Stops -> SPCs]
      /\ kills \in [Stops -> 0 .. MaxKills]
      /\ killed \subseteq Stops
  BY DEF StopTypeOK
<1>1. ASSUME NEW s \in Stops, StopWorker(s)
      PROVE  spc' \in [Stops -> SPCs] /\ kills' \in [Stops -> 0 .. MaxKills] /\ killed' = killed
  <2>1. spc' \in [Stops -> SPCs] /\ killed' = killed
    BY <1>t, <1>1 DEF StopWorker, GotoStop, SPCs
  <2>2. kills[s] + 1 \in 0 .. MaxKills \/ kills' = kills
    BY <1>t, <1>1, MaxKillsAssumption DEF StopWorker
  <2>3. kills' \in [Stops -> 0 .. MaxKills]
    BY <1>t, <1>1, <2>2, MaxKillsAssumption DEF StopWorker
  <2> QED BY <2>1, <2>3
<1>2. ASSUME NEW s \in Stops, AOKill(s)
      PROVE  UNCHANGED <<spc, kills>> /\ killed' = killed \cup {s}
  BY <1>2 DEF AOKill
<1> QED BY <1>t, <1>1, <1>2, EffectSteps DEF EffectStep, GotoStop, SPCs

\* Audits and clocks keep theirs.
LEMMA AuditTypeStep ==
    ASSUME StopTypeOK, [StopNext]_stopAllVars
    PROVE  StopTypes'
<1>t. /\ RowsTypeOK
      /\ accepted \in [Stops -> SUBSET (Lineages \X Generations \X Principals)]
      /\ cleared \in [Stops -> SUBSET (Lineages \X Generations)]
      /\ overdue \subseteq Attempts
      /\ late \subseteq Stops
  BY DEF StopTypeOK, StopTypes, RecoveryTypeOK, TypeOK
<1>g. \A l \in Lineages : GenOf(l) \in Generations
  BY <1>t DEF RowsTypeOK, GenOf, Lineages
<1>1. accepted' \in [Stops -> SUBSET (Lineages \X Generations \X Principals)]
  <2>1. ASSUME NEW s \in Stops, NEW ls \in SUBSET Lineages, NEW p \in Principals,
               AcceptStopAdministrativeRisk(s, ls, p)
        PROVE  accepted' \in [Stops -> SUBSET (Lineages \X Generations \X Principals)]
    <3>0. \A l \in ls : <<l, GenOf(l), p>> \in Lineages \X Generations \X Principals
      BY <1>g
    <3>1. { <<l, GenOf(l), p>> : l \in ls } \subseteq Lineages \X Generations \X Principals
      BY <3>0
    <3>2. accepted' = [accepted EXCEPT ![s] = { <<l, GenOf(l), p>> : l \in ls }]
      BY <2>1 DEF AcceptStopAdministrativeRisk
    <3> QED BY <1>t, <3>1, <3>2
  <2>2. ASSUME NEW evidence, NEW p \in Principals, ClearQuarantineWithEvidence(evidence, p)
        PROVE  UNCHANGED accepted
    BY <2>2, ClearedNow
  <2> QED BY <1>t, <2>1, <2>2, StopKinds DEF RecoveryKind, TickKind, TxKind, StopTx
<1>2. cleared' \in [Stops -> SUBSET (Lineages \X Generations)]
  <2>1. ASSUME NEW evidence \in [QuarantinedAttempts \cup {NoAttempt} -> Stops],
               NEW p \in Principals, ClearQuarantineWithEvidence(evidence, p)
        PROVE  cleared' \in [Stops -> SUBSET (Lineages \X Generations)]
    <3>1. \A l \in DOMAIN evidence : Tuple(l) \in Lineages \X Generations
      BY <1>g DEF Tuple, QuarantinedAttempts, Lineages
    <3>2. cleared' = [s \in Stops |->
            cleared[s] \cup { Tuple(l) : l \in { k \in DOMAIN evidence : evidence[k] = s } }]
      BY <2>1 DEF ClearQuarantineWithEvidence
    <3> QED BY <1>t, <3>1, <3>2
  <2>2. ASSUME NEW s \in Stops, NEW ls \in SUBSET Lineages, NEW p \in Principals,
               AcceptStopAdministrativeRisk(s, ls, p)
        PROVE  UNCHANGED cleared
    BY <1>t, <2>2, AcceptedNow
  <2> QED BY <1>t, <2>1, <2>2, StopKinds DEF RecoveryKind, TickKind, TxKind, StopTx
<1>3. overdue' \subseteq Attempts /\ late' \subseteq Stops
  <2>1. CASE ClockStep
    BY <1>t, <2>1 DEF ClockStep, BudgetExpires, ConfirmationExpires
  <2>2. CASE ~ClockStep
    <3>1. UNCHANGED clockVars
      BY <2>2 DEF StopNext, StopStep, StopCallStep, Start, StopPreEffect, StopWorker,
         StopAccepted, StopRefused, StopReturns, Observe, TickStep, TickStart, TickTimeout,
         TickObserve, TickSkip, StopPollStep, StopPollStart, PollStop, PollAborts, AOKill,
         OperatorStep, AcceptAdministrativeRisk, ClearQuarantine, StopSweepStep, StopRunStart,
         StopSweepWork, RunStop, StopRunFails, StopCrash
    <3> QED BY <1>t, <3>1
  <2> QED BY <2>1, <2>2
<1> QED BY <1>1, <1>2, <1>3 DEF StopTypes

\* So do the observers' lists of stops and executions.
LEMMA ObserverStopsStep ==
    ASSUME StopTypeOK, [StopNext]_stopAllVars
    PROVE  /\ sweepStops' \subseteq StopSnapshots
           /\ pollStops' \subseteq StopSnapshots
           /\ tick' \subseteq ExecutionRows
<1>t. /\ RowsTypeOK
      /\ sweepStops \subseteq StopSnapshots
      /\ pollStops \subseteq StopSnapshots
      /\ tick \subseteq ExecutionRows
  BY DEF StopTypeOK, RecoveryTypeOK, TypeOK
<1>g. ASSUME NEW stages, stages \subseteq { "STOP_REQUESTED", "STOP_CALL_SUCCEEDED" }
      PROVE  InFlightAt(stages) \subseteq StopSnapshots
  BY <1>g DEF InFlightAt, StopSnapshot, StopSnapshots, StopIs
<1>1. CASE StopRunStart
  BY <1>t, <1>g, <1>1 DEF StopRunStart
<1>2. CASE StopPollStart
  BY <1>t, <1>g, <1>2 DEF StopPollStart
<1>3. CASE TickStart
  <2>1. tick' \subseteq ExecutionsAt({ "SEND_CONFIRMED" }, OwnedAttempts)
    BY <1>3 DEF TickStart
  <2> QED BY <1>t, <1>3, <2>1, SnapshotType DEF TickStart
<1>4. CASE ~(StopRunStart \/ StopPollStart \/ TickStart)
  <2>1. sweepStops' \subseteq sweepStops /\ pollStops' \subseteq pollStops /\ tick' \subseteq tick
    BY <1>4 DEF StopNext, StopStep, StopCallStep, Start, StopPreEffect, StopWorker,
       StopAccepted, StopRefused, StopReturns, Observe, TickStep, TickTimeout,
       TickObserve, TickSkip, StopPollStep, PollStop, PollAborts, AOKill,
       OperatorStep, AcceptAdministrativeRisk, ClearQuarantine, ClockStep, BudgetExpires,
       ConfirmationExpires, StopSweepStep, StopSweepWork, RunStop, StopRunFails, StopCrash
  <2> QED BY <1>t, <2>1
<1> QED BY <1>1, <1>2, <1>3, <1>4

-----------------------------------------------------------------------------
(* The theorems.                                                           *)

\* The invariant holds initially.
LEMMA StopInitInv == StopInit => StopInv
<1> SUFFICES ASSUME StopInit PROVE StopInv
  OBVIOUS
<1> USE DEF StopInit, RecoveryInit, Init
<1>1. SagaInv
  BY InitInv
<1>2. \A s \in Stops : ~Reserved(s)
  BY DEF Reserved
<1>3. StopTypeOK
  <2>1. StopTypes
    BY DEF StopStoreInit, StopTypes
  <2>2. /\ spc \in [Stops -> SPCs]
        /\ kills \in [Stops -> 0 .. MaxKills]
        /\ killed \subseteq Stops
    BY MaxKillsAssumption DEF StopProcessesInit, SPCs
  <2> QED BY <1>1, <2>1, <2>2 DEF StopTypeOK, SagaInv, StopProcessesInit
<1>4. OneRuntime
  BY <1>2 DEF OneRuntime
<1>5. StopsInOrder /\ LiveStops
  BY <1>2 DEF StopsInOrder, LiveStops, StopUnresolved
<1>6. KillFollowsIntent
  BY DEF StopProcessesInit, KillFollowsIntent
<1>7. StoppedIsReal
  BY <1>2 DEF StoppedIsReal
<1>8. SessionGateCovers
  BY <1>2, SessionIsNoAttempt
     DEF SessionGateCovers, QuarantinedAttempts, LineageQuarantined, StopUnresolved, Covers
<1>9. UnknownNeedsSettlement
  BY DEF UnknownNeedsSettlement
<1> QED BY <1>1, <1>3, <1>4, <1>5, <1>6, <1>7, <1>8, <1>9 DEF StopInv

\* Every step keeps it.
LEMMA StopInvStep ==
    ASSUME StopInv, [StopNext]_stopAllVars
    PROVE  StopInv'
<1> USE DEF StopInv
<1>k. RecoveryKind \/ TickKind \/ TxKind
  BY StopKinds
<1>t. StopTypes /\ killed \subseteq Stops
  BY DEF StopTypeOK
<1>1. SagaInv'
  BY <1>k, KindSagaInv
<1>2. StopTypeOK'
  BY <1>1, AuditTypeStep, EffectTypeStep, ObserverStopsStep DEF StopTypeOK, SagaInv
<1>3. OneRuntime'
  BY <1>k, OneRuntimeStep
<1>4. StopsInOrder'
  BY <1>k, StopsInOrderStep
<1>5. LiveStops'
  BY <1>k, LiveStopsStep
<1>6. KillFollowsIntent'
  BY KillStep
<1>7. StoppedIsReal'
  BY <1>k, <1>t, StoppedIsRealStep
<1>8. SessionGateCovers'
  BY <1>k, SessionGateStep
<1>9. UnknownNeedsSettlement'
  BY <1>k, <1>t, SettlementStep
<1> QED BY <1>1, <1>2, <1>3, <1>4, <1>5, <1>6, <1>7, <1>8, <1>9

\* The inductive invariant of the stop saga.
THEOREM StopInvariant == StopSpec => []StopInv
<1>1. StopInv /\ [StopNext]_stopAllVars => StopInv'
  BY StopInvStep
<1> QED BY <1>1, StopInitInv, PTL DEF StopSpec

\* Every variable of the stop saga keeps its type.
THEOREM StopTypeCorrect == StopSpec => []StopTypeOK
<1>1. StopInv => StopTypeOK
  BY DEF StopInv
<1> QED BY <1>1, StopInvariant, PTL

\* A stop posts one kill at most, after its intent, and an attempt has one live
\* stop at most, whatever crashes, sweeps and ticks interleave with the call.
THEOREM KillsOnce == StopSpec => []KillDiscipline
<1>1. StopInv => KillDiscipline
  BY DEF StopInv, KillFollowsIntent, LiveStops, KillDiscipline
<1> QED BY <1>1, StopInvariant, PTL

\* WORKER_STOPPED and the stages behind it rest on a kill that AO executed.
THEOREM StoppedWorkersWereKilled == StopSpec => []StoppedIsReal
<1>1. StopInv => StoppedIsReal
  BY DEF StopInv
<1> QED BY <1>1, StopInvariant, PTL

\* A CLEAN session means a Pair with nothing open, whoever wrote the gates last.
THEOREM CleanSessionCoversPair == StopSpec => []SessionGateCovers
<1>1. StopInv => SessionGateCovers
  BY DEF StopInv
<1> QED BY <1>1, StopInvariant, PTL

\* An unknown delivery stays contained until its own attempt is settled.
THEOREM UnknownAwaitsSettlement == StopSpec => []UnknownNeedsSettlement
<1>1. StopInv => UnknownNeedsSettlement
  BY DEF StopInv
<1> QED BY <1>1, StopInvariant, PTL

\* No step opens a gate without evidence for its own lineage.
THEOREM GatesOpenOnEvidence == StopSpec => ClearedOnEvidence
<1>1. StopInv /\ [StopNext]_stopAllVars =>
        [ \A l \in Lineages :
            LineageQuarantined(l) /\ ~LineageQuarantined(l)' => Settled(l)' ]_stopAllVars
  BY StopKinds, OpenedOnEvidence DEF StopInv, StopTypeOK
<1> QED BY <1>1, StopInvariant, PTL DEF StopSpec, ClearedOnEvidence

\* The recovery snapshot is consistent with stops, too.
THEOREM StopSnapshotConsistent == StopSpec => []PersistedConsistent
<1>1. StopInv => PersistedConsistent
  BY InvIsConsistent DEF StopInv
<1> QED BY <1>1, StopInvariant, PTL

-----------------------------------------------------------------------------
(* What a step may not do to a stop or to a closed attempt.                *)

\* The outcome columns of a closed attempt are history for the stops, too.
LEMMA StopHistoryFrozen ==
    ASSUME SagaInv, LiveStops, RecoveryKind \/ TickKind \/ TxKind,
           NEW a \in Attempts, attemptState[a] = "ENDED"
    PROVE  /\ attemptState'[a] = "ENDED"
           /\ disposition'[a] = disposition[a]
           /\ stage'[a] = stage[a]
           /\ resolution'[a] = resolution[a]
           /\ budget'[a] = budget[a]
<1>t. RowsTypeOK
  BY DEF SagaInv, RecoveryTypeOK, TypeOK
<1>1. CASE RecoveryKind \/ TickKind
  BY <1>1, KindMoves, HistoryFrozen
<1>2. CASE TxKind
  <2>1. UNCHANGED dispatchVars
    BY <1>t, <1>2, TxKeepsFrame DEF TxKind, TxFrame
  <2>2. ASSUME NEW s \in Stops, StopMoves(s)
        PROVE  attemptState'[a] = "ENDED" /\ disposition'[a] = disposition[a]
    <3>1. Reserved(s)
      BY <1>t, <2>2, MovedRow
    <3>2. CASE OnlyGates
      BY <3>2 DEF OnlyGates
    <3>3. ASSUME NEW res \in StopResolutions, stopOp[s].purpose = "RUNNING_ATTEMPT_STOP",
                 CloseLiveStop(s, res)
          PROVE  attemptState'[a] = "ENDED" /\ disposition'[a] = disposition[a]
      <4>1. stopOp[s].att \in Attempts
        BY <3>1, <3>3 DEF LiveStops
      <4> QED BY <1>t, <3>3, <4>1 DEF CloseLiveStop, CurrentOpen, RowsTypeOK
    <3> QED BY <1>t, <2>2, <3>2, <3>3, MovedRow
  <2>3. ASSUME OnlyGates
        PROVE  attemptState'[a] = "ENDED" /\ disposition'[a] = disposition[a]
    BY <2>3 DEF OnlyGates
  <2>4. attemptState'[a] = "ENDED" /\ disposition'[a] = disposition[a]
    BY <1>t, <1>2, <2>2, <2>3, ReservedNow, AcceptedNow, ClearedNow
       DEF TxKind, StopTx, StopReserves
  <2> QED BY <2>1, <2>4
<1> QED BY <1>1, <1>2

\* A closed attempt is history, whatever stops, ticks and operators do.
THEOREM StopHistoryIsFinal == StopSpec => ClosedIsFinal
<1>1. StopInv /\ [StopNext]_stopAllVars =>
        [ \A a \in Attempts :
            attemptState[a] = "ENDED" =>
                /\ attemptState'[a] = "ENDED"
                /\ disposition'[a] = disposition[a]
                /\ stage'[a] = stage[a]
                /\ resolution'[a] = resolution[a]
                /\ budget'[a] = budget[a] ]_vars
  BY StopKinds, StopHistoryFrozen DEF StopInv
<1> QED BY <1>1, StopInvariant, PTL DEF StopSpec, ClosedIsFinal

\* A row that changes was in flight, or is accepted.
LEMMA DecidedOnceStep ==
    ASSUME SagaInv, StopTypes, RecoveryKind \/ TickKind \/ TxKind, NEW s \in Stops, Reserved(s)
    PROVE  \/ stopOp'[s] = stopOp[s]
           \/ stopOp[s].resolution = "IN_FLIGHT"
           \/ /\ stopOp'[s].resolution = "ADMINISTRATIVE_RISK_ACCEPTED"
              /\ stopOp'[s].stage = stopOp[s].stage
              /\ accepted'[s] # {}
<1>t. RowsTypeOK
  BY DEF SagaInv, RecoveryTypeOK, TypeOK
<1>1. CASE UNCHANGED stopOp
  BY <1>1
<1>2. ASSUME NEW r \in Stops, StopReserves(r)
      PROVE  stopOp'[s] = stopOp[s]
  BY <1>t, <1>2, ReservedNow DEF StopReserves, NextRow
<1>3. ASSUME NEW r \in Stops, StopMoves(r)
      PROVE  stopOp'[s] = stopOp[s] \/ stopOp[s].resolution = "IN_FLIGHT"
  <2>1. Reserved(r) /\ stopOp[r].resolution = "IN_FLIGHT"
    BY <1>t, <1>3, MovedRow
  <2>2. r # s => stopOp'[s] = stopOp[s]
    BY <1>t, <1>3, MoveIsRowsMoved DEF RowsMoved
  <2> QED BY <2>1, <2>2
<1>4. ASSUME NEW r \in Stops, NEW ls \in SUBSET Lineages, NEW p \in Principals,
             AcceptStopAdministrativeRisk(r, ls, p), stopOp' # stopOp
      PROVE  /\ r = s \/ stopOp'[s] = stopOp[s]
             /\ stopOp'[r].resolution = "ADMINISTRATIVE_RISK_ACCEPTED"
             /\ stopOp'[r].stage = stopOp[r].stage
             /\ accepted'[r] # {}
  <2>1. /\ Reserved(r)
        /\ stopOp' = [stopOp EXCEPT ![r] =
             [stopOp[r] EXCEPT !.stage = stopOp[r].stage,
                               !.resolution = "ADMINISTRATIVE_RISK_ACCEPTED"]]
    BY <1>t, <1>4, AcceptedNow
  <2>2. PICK stg \in StopStages, res \in StopResolutions :
           stg = stopOp[r].stage /\ res = "ADMINISTRATIVE_RISK_ACCEPTED"
    BY <1>t, <2>1, ReservedRow DEF StopResolutions
  <2>3. stopOp' = [stopOp EXCEPT ![r] = [stopOp[r] EXCEPT !.stage = stg, !.resolution = res]]
    BY <2>1, <2>2
  <2> DEFINE row == [stopOp[r] EXCEPT !.stage = stg, !.resolution = res]
  <2>r. row.stage = stg
    BY <1>t, <2>1, ReservedRow DEF StopRows
  <2>e. stopOp' = [stopOp EXCEPT ![r] = row]
    BY <2>3
  <2> HIDE DEF row
  <2>4. /\ r # s => stopOp'[s] = stopOp[s]
        /\ stopOp'[r].stage = stg
    BY <1>t, <2>e, <2>r DEF RowsTypeOK
  <2>5. stopOp'[r].resolution = res
    BY <1>t, <2>1, <2>3, ResolutionRewritten
  <2>6. accepted' = [accepted EXCEPT ![r] = { <<l, GenOf(l), p>> : l \in ls }] /\ ls # {}
    BY <1>4 DEF AcceptStopAdministrativeRisk
  <2>7. PICK l \in ls : TRUE
    BY <2>6
  <2>8. <<l, GenOf(l), p>> \in accepted'[r]
    BY <2>6 DEF StopTypes
  <2> QED BY <2>2, <2>4, <2>5, <2>8
<1>5. ASSUME NEW evidence, NEW p \in Principals, ClearQuarantineWithEvidence(evidence, p)
      PROVE  UNCHANGED stopOp
  BY <1>5, ClearedNow
<1>6. RecoveryKind \/ TickKind => UNCHANGED stopOp
  BY KindMoveFacts DEF MoveFacts
<1> QED BY <1>1, <1>2, <1>3, <1>4, <1>5, <1>6 DEF TxKind, StopTx

\* A stop is decided once; an operator's acceptance is all that may follow.
THEOREM StopsAreDecidedOnce == StopSpec => StopDecidedOnce
<1>1. StopInv /\ [StopNext]_stopAllVars =>
        [ \A s \in Stops :
            Reserved(s) /\ stopOp'[s] # stopOp[s] =>
                \/ stopOp[s].resolution = "IN_FLIGHT"
                \/ /\ stopOp'[s].resolution = "ADMINISTRATIVE_RISK_ACCEPTED"
                   /\ stopOp'[s].stage = stopOp[s].stage
                   /\ accepted'[s] # {} ]_stopAllVars
  BY StopKinds, DecidedOnceStep DEF StopInv, StopTypeOK
<1> QED BY <1>1, StopInvariant, PTL DEF StopSpec, StopDecidedOnce

-----------------------------------------------------------------------------
(* A live stop owns its attempt, as long as nobody moves its RUNNING task  *)
(* through Store.TransitionTask: that call does not look at stops.         *)

NoRunningEdges == \A e \in Edges : e[1] # "RUNNING"

\* An owned attempt: what StopOwnsAttempt says of each live stop in flight.
Owned(a) ==
    /\ CurrentOpen(a)
    /\ taskState[a[1]] = "RUNNING"
    /\ LineageQuarantined(a)

\* Dispatch, recovery and the timeout monitor leave an owned attempt alone.
LEMMA OwnedStays ==
    ASSUME SagaInv, NoRunningEdges, RecoveryKind \/ TickKind,
           NEW a \in Attempts, Owned(a), StopOwned(a)
    PROVE  Owned(a)'
<1> USE DEF SagaInv, RecoveryTypeOK, TypeOK, RowsTypeOK
<1>a. a # NoAttempt /\ a[1] \in Tasks
  BY SessionIsNoAttempt, TaskOf
<1>1. quarantine'[a] = "QUARANTINED" /\ attemptState'[a] # "NONE"
  BY <1>a, KindMoveFacts DEF MoveFacts, Owned, LineageQuarantined
<1>2. UNCHANGED <<taskState, currentAttempt, attemptState>> => Owned(a)'
  BY <1>a, <1>1 DEF Owned, CurrentOpen, LineageQuarantined
\* A step that moves the task of another attempt.
<1>3. ASSUME NEW t \in Tasks, t # a[1],
             \A u \in Tasks \ {t} : taskState'[u] = taskState[u] /\ currentAttempt'[u] = currentAttempt[u],
             attemptState'[a] = attemptState[a]
      PROVE  Owned(a)'
  BY <1>a, <1>1, <1>3 DEF Owned, CurrentOpen, LineageQuarantined
<1>4. CASE QuietStep
  <2>1. CASE UNCHANGED rows \/ \E t \in Tasks : InsertTaskContract(t)
    BY <1>2, <2>1 DEF InsertTaskContract
  <2>2. ASSUME NEW t \in Tasks, NEW to \in TaskStates, <<taskState[t], to>> \in Edges,
               TransitionTask(t, to)
        PROVE  Owned(a)'
    <3>1. taskState[t] # "RUNNING"
      BY <2>2 DEF NoRunningEdges
    <3>2. t # a[1]
      BY <3>1 DEF Owned
    <3> QED BY <1>3, <2>2, <3>2 DEF TransitionTask
  <2>3. ASSUME NEW b \in Attempts, RecordUnknownDelivery(b) \/ AtomicAttemptClosureTransition(b)
        PROVE  Owned(a)'
    <3>1. b[1] # a[1] /\ b[1] \in Tasks
      BY <2>3, TaskOf DEF Owned, RecordUnknownDelivery, AtomicAttemptClosureTransition
    <3> QED BY <1>3, <2>3, <3>1 DEF RecordUnknownDelivery, AtomicAttemptClosureTransition
  <2>4. ASSUME NEW b \in Attempts, NEW from \in TaskStates, NEW outcome \in Outcomes,
               Closes(b, from, outcome)
        PROVE  Owned(a)'
    <3>1. b # a
      BY <2>4 DEF Closes, Owned
    <3>2. b[1] # a[1]
      BY <2>4, <3>1, AttemptIdentity DEF Closes, Owned, CurrentOpen
    <3>3. b[1] \in Tasks
      BY TaskOf
    <3> QED BY <1>3, <2>4, <3>1, <3>2, <3>3 DEF Closes
  <2>5. ASSUME NEW b \in Attempts, NEW d \in Dispositions, NEW state \in TaskStates,
               Annotates(b, d, state)
        PROVE  Owned(a)'
    <3>1. b[1] \in Tasks
      BY TaskOf
    <3>2. CASE b[1] # a[1]
      BY <1>3, <2>5, <3>1, <3>2 DEF Annotates
    <3>3. CASE b[1] = a[1]
      <4>1. taskState' = taskState
        BY <2>5, <3>1, <3>3 DEF Annotates, Owned
      <4> QED BY <1>2, <2>5, <4>1 DEF Annotates
    <3> QED BY <3>2, <3>3
  <2> QED BY <1>4, <2>1, <2>2, <2>3, <2>4, <2>5 DEF QuietStep, QuietTx
<1>5. ASSUME NEW c \in Callers, NEW t \in Tasks, DispatchReady(c, t)
      PROVE  Owned(a)'
  <2>1. t # a[1]
    BY <1>5 DEF DispatchReady, PrepareBoundDispatch, Owned
  <2>2. currentAttempt[t] < MaxAttempts
    BY <1>5 DEF DispatchReady, PrepareBoundDispatch
  <2>3. NextAttempt(t) \in Attempts /\ NextAttempt(t) # a
    BY <2>1, <2>2, NextAttemptExists
  <2> QED BY <1>3, <1>5, <2>1, <2>3 DEF DispatchReady, PrepareBoundDispatch, BindAttempt
<1>6. CASE \/ \E c \in Callers : \/ RequestSend(c)
                                 \/ ConfirmSend(c)
                                 \/ DispatchTaskContract(c)
                                 \/ ContainReread(c)
           \/ \E b \in Attempts : AODeliver(b)
  BY <1>2, <1>6 DEF RequestSend, RecordSendRequested, ConfirmSend, RecordSendConfirmed,
     DispatchTaskContract, ContainReread, AODeliver
<1> QED BY <1>4, <1>5, <1>6, KindMoves DEF LoudStep

\* A stop that stays in flight takes nothing along.
LEMMA StillInFlight ==
    ASSUME RowsTypeOK, NEW s \in Stops, StopMoves(s), stopOp'[s].resolution = "IN_FLIGHT"
    PROVE  OnlyGates /\ UNCHANGED quarantine
<1>1. CASE CommitStopCallAccepted(s)
  BY <1>1 DEF CommitStopCallAccepted, OnlyGates
<1>2. CASE Abandons(s)
  BY <1>2 DEF Abandons, OnlyGates
<1>3. ASSUME NEW from \in StopStages, NEW to \in StopStages, NEW res \in StopResolutions,
             CommitStopOutcome(s, from, to, res)
      PROVE  FALSE
  <2>1. Reserved(s) /\ <<from, to, res>> \in StopOutcomes
    BY <1>3 DEF CommitStopOutcome
  <2>2. res # "IN_FLIGHT"
    BY <2>1 DEF StopOutcomes
  <2>3. stopOp' = [stopOp EXCEPT ![s] = [stopOp[s] EXCEPT !.stage = to, !.resolution = res]]
    BY <1>3, <2>1, ReservedRow DEF CommitStopOutcome, RowsTypeOK
  <2>4. stopOp'[s].resolution = res
    BY <2>1, <2>3, ResolutionRewritten
  <2> QED BY <2>2, <2>4
<1> QED BY <1>1, <1>2, <1>3 DEF StopMoves

\* The stops that own an attempt.
LiveInFlight(s) ==
    /\ Reserved(s)
    /\ stopOp[s].purpose = "RUNNING_ATTEMPT_STOP"
    /\ stopOp[s].resolution = "IN_FLIGHT"

\* No step takes an attempt from a live stop in flight.
LEMMA OwnsAttemptStep ==
    ASSUME SagaInv, LiveStops, OneRuntime, StopsInOrder, StopOwnsAttempt, NoRunningEdges,
           RecoveryKind \/ TickKind \/ TxKind
    PROVE  StopOwnsAttempt'
<1>t. RowsTypeOK
  BY DEF SagaInv, RecoveryTypeOK, TypeOK
<1> SUFFICES ASSUME NEW s \in Stops, LiveInFlight(s)', NEW a, a = stopOp'[s].att
             PROVE  Owned(a)'
  BY DEF StopOwnsAttempt, LiveInFlight, Owned, CurrentOpen, LineageQuarantined
<1>l. a \in Attempts /\ a # NoAttempt
  BY LiveStopsStep, SessionIsNoAttempt DEF LiveStops, LiveInFlight
<1>0. ASSUME LiveInFlight(s), a = stopOp[s].att
      PROVE  Owned(a) /\ StopOwned(a)
  BY <1>0 DEF LiveInFlight, StopOwnsAttempt, Owned, StopOwned, OneRuntime, LiveStops, Reserved
<1>g. ASSUME OnlyGates, Owned(a), quarantine'[a] = "QUARANTINED"
      PROVE  Owned(a)'
  BY <1>g, <1>l DEF OnlyGates, Owned, CurrentOpen, LineageQuarantined
<1>1. CASE RecoveryKind \/ TickKind
  <2>1. UNCHANGED stopOp
    BY <1>1, KindMoveFacts DEF MoveFacts
  <2>2. LiveInFlight(s) /\ a = stopOp[s].att
    BY <2>1 DEF LiveInFlight, Reserved
  <2> QED BY <1>0, <1>1, <1>l, <2>2, OwnedStays
<1>2. ASSUME NEW r \in Stops, StopReserves(r)
      PROVE  Owned(a)'
  <2>1. RowsReserved(r) /\ OnlyGates
    BY <1>t, <1>2, ReserveIsRowsReserved, ReservedNow DEF StopReserves
  <2>2. r = s
    BY <2>1 DEF RowsReserved, StopUnresolved, UnresolvedResolutions, LiveInFlight, Reserved
  <2>3. CurrentOpen(a) /\ taskState[a[1]] = "RUNNING" /\ quarantine'[a] = "QUARANTINED"
    BY <2>1, <2>2 DEF RowsReserved, LiveInFlight
  <2> QED BY <1>l, <2>1, <2>3 DEF OnlyGates, Owned, CurrentOpen, LineageQuarantined
<1>3. ASSUME NEW r \in Stops, StopMoves(r)
      PROVE  Owned(a)'
  <2>1. RowsMoved(r) /\ Reserved(r) /\ stopOp[r].resolution = "IN_FLIGHT"
    BY <1>t, <1>3, MoveIsRowsMoved, MovedRow
  <2>2. LiveInFlight(s) /\ a = stopOp[s].att
    BY <2>1 DEF RowsMoved, LiveInFlight, Reserved
  <2>3. StopUnresolved(r) /\ StopUnresolved(s)
    BY <2>1, <2>2 DEF StopUnresolved, UnresolvedResolutions, LiveInFlight
  <2>4. r <= s /\ s <= r
    BY <2>3 DEF StopsInOrder, StopUnresolved
  <2>5. r = s
    BY <2>4 DEF Stops
  <2>6. OnlyGates /\ UNCHANGED quarantine
    BY <1>t, <1>3, <2>5, StillInFlight DEF LiveInFlight
  <2> QED BY <1>0, <1>g, <1>l, <2>2, <2>6 DEF Owned, LineageQuarantined
<1>4. ASSUME NEW r \in Stops, NEW ls \in SUBSET Lineages, NEW p \in Principals,
             AcceptStopAdministrativeRisk(r, ls, p)
      PROVE  Owned(a)'
  <2>1. OnlyGates /\ UNCHANGED quarantine
    BY <1>t, <1>4, AcceptedNow
  <2>2. LiveInFlight(s) /\ a = stopOp[s].att
    <3>1. CASE UNCHANGED stopOp
      BY <3>1 DEF LiveInFlight, Reserved
    <3>2. CASE stopOp' # stopOp
      BY <1>t, <1>4, <3>2, AcceptIsRowsMoved DEF RowsMoved, LiveInFlight, Reserved
    <3> QED BY <3>1, <3>2
  <2> QED BY <1>0, <1>g, <1>l, <2>1, <2>2 DEF Owned, LineageQuarantined
<1>5. ASSUME NEW evidence, NEW p \in Principals, ClearQuarantineWithEvidence(evidence, p)
      PROVE  FALSE
  BY <1>5, ClearedNow DEF LiveInFlight, Reserved, Reconciled
<1> QED BY <1>1, <1>2, <1>3, <1>4, <1>5 DEF TxKind, StopTx

\* A live stop in flight owns its attempt: no observer, late dispatch caller or
\* other stop closes it underneath.
THEOREM StopKeepsAttempt ==
    ASSUME NoRunningEdges
    PROVE  StopSpec => []StopOwnsAttempt
<1>1. StopInit => StopOwnsAttempt
  BY DEF StopInit, RecoveryInit, Init, StopOwnsAttempt, Reserved
<1>2. StopInv /\ StopOwnsAttempt /\ [StopNext]_stopAllVars => StopOwnsAttempt'
  BY StopKinds, OwnsAttemptStep DEF StopInv
<1> QED BY <1>1, <1>2, StopInvariant, PTL DEF StopSpec

-----------------------------------------------------------------------------
(* When only the timeout monitor stops workers, the sweep and the call     *)
(* that created a stop exclude each other: both hold pollAccess.           *)

\* Every stop is a timeout; while the gate is closed no tick and no call of one
\* is in progress; and the poller holds only stops whose kill was accepted.
TimeoutsOnly ==
    /\ \A s \in Stops : Reserved(s) => stopOp[s].timeout
    /\ phase # "ready" => tick = {} /\ \A s \in Stops : spc[s] = "none"
    /\ \A x \in pollStops : x.stage = "STOP_CALL_SUCCEEDED"

\* Every new stop is a timeout.
LEMMA TimeoutRowsStep ==
    ASSUME SagaInv, StartPurposes = {}, TimeoutsOnly, RecoveryKind \/ TickKind \/ TxKind
    PROVE  \A s \in Stops : Reserved(s)' => stopOp'[s].timeout
<1>1. CASE UNCHANGED stopOp
  BY <1>1 DEF TimeoutsOnly, Reserved
<1>2. ASSUME NEW r \in Stops, RowsReserved(r) \/ RowsMoved(r)
      PROVE  \A s \in Stops : Reserved(s)' => stopOp'[s].timeout
  BY <1>2 DEF TimeoutsOnly, RowsReserved, RowsMoved, Reserved
<1> QED BY <1>1, <1>2, KindRows

\* Sweep and calls exclude each other.
LEMMA ExclusionStep ==
    ASSUME StopTypeOK, KillFollowsIntent, StartPurposes = {}, TimeoutsOnly,
           [StopNext]_stopAllVars
    PROVE  phase' # "ready" => tick' = {} /\ \A s \in Stops : spc'[s] = "none"
<1>t. spc \in [Stops -> SPCs]
  BY DEF StopTypeOK
<1>1. CASE StopRunStart
  <2>1. \A s \in Stops : spc[s] = "none"
    BY <1>1 DEF StopRunStart, TimeoutInStack, TimeoutsOnly, KillFollowsIntent
  <2> QED BY <1>1, <2>1 DEF StopRunStart
<1>2. CASE StopCrash
  BY <1>2 DEF StopCrash
<1>3. ASSUME NEW s \in Stops, StopCallStep(s)
      PROVE  phase' # "ready" => tick' = {} /\ \A r \in Stops : spc'[r] = "none"
  <2>1. UNCHANGED <<phase, tick>>
    BY <1>3 DEF StopCallStep, Start, StopPreEffect, StopWorker, StopAccepted, StopRefused,
       StopReturns, Observe
  <2>2. CASE phase = "ready"
    BY <2>1, <2>2
  <2>3. CASE phase # "ready"
    <3>1. spc[s] = "none"
      BY <2>3 DEF TimeoutsOnly
    <3>2. Observe(s)
      BY <1>3, <3>1 DEF StopCallStep, Start, StopPreEffect, StopWorker, StopAccepted,
         StopRefused, StopReturns
    <3>3. spc' = spc
      BY <1>t, <3>1, <3>2 DEF Observe
    <3> QED BY <2>1, <2>3, <3>3 DEF TimeoutsOnly
  <2> QED BY <2>2, <2>3
<1>4. CASE TickStep
  BY <1>4 DEF TickStep, TickStart, TickTimeout, TickObserve, TickSkip, TimeoutsOnly
<1>5. CASE \/ SagaStep /\ UNCHANGED stopVars
           \/ StopPollStep
           \/ \E s \in Stops : AOKill(s)
           \/ ClockStep
           \/ OperatorStep
           \/ UNCHANGED stopAllVars
  <2>1. UNCHANGED <<phase, tick, spc>>
    BY <1>5 DEF SagaStep, StopPollStep, StopPollStart, PollStart, PollStop, PollClassify,
       PollAborts, AOKill, ClockStep, BudgetExpires, ConfirmationExpires, OperatorStep,
       AcceptAdministrativeRisk, ClearQuarantine
  <2> QED BY <2>1 DEF TimeoutsOnly
<1>6. CASE StopSweepWork \/ StopRunFails
  <2>1. UNCHANGED <<tick, spc>> /\ (phase' # "ready" => phase # "ready")
    BY <1>6 DEF StopSweepWork, RunStop, RunClassify, RunEscalate, RunReread, RunComplete,
       StopRunFails, RunFails
  <2> QED BY <2>1 DEF TimeoutsOnly
<1> QED BY <1>1, <1>2, <1>3, <1>4, <1>5, <1>6 DEF StopNext, StopStep, StopSweepStep

\* The poller picks up accepted stops only.
LEMMA PollStopsStep ==
    ASSUME TimeoutsOnly, [StopNext]_stopAllVars
    PROVE  \A x \in pollStops' : x.stage = "STOP_CALL_SUCCEEDED"
<1>1. CASE StopPollStart
  <2>1. pollStops' = InFlightAt({ "STOP_CALL_SUCCEEDED" })
    BY <1>1 DEF StopPollStart
  <2> QED BY <2>1 DEF InFlightAt, StopSnapshot, StopIs
<1>2. CASE ~StopPollStart
  <2>1. pollStops' \subseteq pollStops
    BY <1>2 DEF StopNext, StopStep, StopCallStep, Start, StopPreEffect, StopWorker,
       StopAccepted, StopRefused, StopReturns, Observe, TickStep, TickStart, TickTimeout,
       TickObserve, TickSkip, StopPollStep, PollStop, PollAborts, AOKill,
       OperatorStep, AcceptAdministrativeRisk, ClearQuarantine, ClockStep, BudgetExpires,
       ConfirmationExpires, StopSweepStep, StopRunStart, StopSweepWork, RunStop, StopRunFails,
       StopCrash
  <2> QED BY <2>1 DEF TimeoutsOnly
<1> QED BY <1>1, <1>2

\* A call that still has to post its kill, or to hear of it.
UndecidedAt == { "reserved", "kill", "await" }
Undecided(s) == spc[s] \in UndecidedAt

\* Decisions on an accepted stop.
LEMMA AcceptedIsDecided ==
    ASSUME NEW x, x.stage = "STOP_CALL_SUCCEEDED", ObserveStop(x)
    PROVE  UNCHANGED rows \/ StopIs(x.stop, "STOP_CALL_SUCCEEDED", "IN_FLIGHT")
BY DEF ObserveStop, ClassifyStop, AwaitConfirmation, CommitStopOutcome

\* Nobody but its creator decides an intent.
LEMMA CreatorStep ==
    ASSUME SagaInv, StopTypeOK, StartPurposes = {}, TimeoutsOnly, CreatorDecides,
           [StopNext]_stopAllVars
    PROVE  CreatorDecides'
<1>t. RowsTypeOK /\ spc \in [Stops -> SPCs]
  BY DEF StopTypeOK, RecoveryTypeOK, TypeOK
\* A row that is left alone, and its call with it.
<1>k. ASSUME NEW s \in Stops, stopOp'[s] = stopOp[s], spc'[s] \in UndecidedAt => Undecided(s)
      PROVE  spc'[s] \in UndecidedAt => StopIs(s, "STOP_REQUESTED", "IN_FLIGHT")'
  BY <1>k DEF CreatorDecides, Undecided, UndecidedAt, StopIs, Reserved
\* A decision on stop r, whose call is not undecided afterwards.
<1>m. ASSUME NEW r \in Stops, UNCHANGED rows \/ StopMoves(r),
             spc'[r] \notin UndecidedAt \/ (UNCHANGED rows /\ Undecided(r)),
             \A s \in Stops : s # r => spc'[s] = spc[s]
      PROVE  CreatorDecides'
  <2>1. \A s \in Stops : s # r => stopOp'[s] = stopOp[s]
    BY <1>t, <1>m, MoveIsRowsMoved DEF RowsMoved
  <2> QED BY <1>k, <1>m, <2>1 DEF CreatorDecides, Undecided, UndecidedAt
\* Calls left alone, and with them the rows of the undecided ones.
<1>u. ASSUME UNCHANGED spc, \A s \in Stops : Undecided(s) => stopOp'[s] = stopOp[s]
      PROVE  CreatorDecides'
  BY <1>u DEF CreatorDecides, Undecided, UndecidedAt, StopIs, Reserved
<1>q. ASSUME RecoveryKind \/ TickKind
      PROVE  UNCHANGED stopOp
  BY <1>q, KindMoveFacts DEF MoveFacts
<1>1. ASSUME NEW r \in Stops, StopCallStep(r)
      PROVE  CreatorDecides'
  <2>g. ASSUME NEW label, GotoStop(r, label)
        PROVE  spc'[r] = label /\ \A s \in Stops : s # r => spc'[s] = spc[s]
    BY <1>t, <2>g DEF GotoStop
  <2>1. ASSUME NEW o \in Observations, StopPreEffect(r, o)
        PROVE  CreatorDecides'
    BY <1>m, <2>g, <2>1, OutcomeMoves DEF StopPreEffect, Undecided, UndecidedAt
  <2>2. CASE StopWorker(r) \/ StopReturns(r)
    <3>1. UNCHANGED rows /\ spc[r] # "none"
      BY <2>2 DEF StopWorker, StopReturns
    <3>2. GotoStop(r, "none") \/ (GotoStop(r, "await") /\ spc[r] = "kill")
      BY <2>2 DEF StopWorker, StopReturns
    <3> QED BY <1>m, <2>g, <3>1, <3>2 DEF Undecided, UndecidedAt
  <2>3. CASE StopAccepted(r)
    <3>1. StopMoves(r)
      BY <2>3 DEF StopAccepted, StopMoves
    <3> QED BY <1>m, <2>g, <2>3, <3>1 DEF StopAccepted, Undecided, UndecidedAt
  <2>4. CASE StopRefused(r)
    BY <1>m, <2>g, <2>4, OutcomeMoves DEF StopRefused, Undecided, UndecidedAt
  <2>5. CASE Observe(r)
    <3>1. StopIs(r, "STOP_CALL_SUCCEEDED", "IN_FLIGHT") /\ StopSnapshot(r).stop = r
      BY <2>5 DEF Observe, StopSnapshot
    <3>2. ~Undecided(r)
      BY <3>1 DEF CreatorDecides, Undecided, UndecidedAt, StopIs
    <3>3. spc'[r] \notin UndecidedAt /\ \A s \in Stops : s # r => spc'[s] = spc[s]
      BY <1>t, <2>5, <3>2 DEF Observe, Undecided, UndecidedAt
    <3>4. UNCHANGED rows \/ StopMoves(r)
      BY <2>5, <3>1, ClassifyMoves DEF Observe
    <3> QED BY <1>m, <3>3, <3>4
  <2> QED BY <1>1, <2>1, <2>2, <2>3, <2>4, <2>5 DEF StopCallStep
<1>2. ASSUME NEW x \in tick, NEW r \in Stops, TickTimeout(x, r)
      PROVE  CreatorDecides'
  <2>1. "RUNNING_ATTEMPT_STOP" \in StopPurposes /\ x.att \in Lineages
    BY DEF StopTypeOK, ExecutionRows, StopPurposes, Lineages
  <2>2. ReserveStopOperation(r, "RUNNING_ATTEMPT_STOP", x.att, TRUE)
    BY <1>2 DEF TickTimeout
  <2>3. /\ Reserved(r)'
        /\ stopOp'[r].stage = "STOP_REQUESTED"
        /\ stopOp'[r].resolution = "IN_FLIGHT"
        /\ \A s \in Stops : s # r => stopOp'[s] = stopOp[s]
    BY <1>t, <2>1, <2>2, ReservedNow
  <2>4. \A s \in Stops : s # r => spc'[s] = spc[s]
    BY <1>t, <1>2 DEF TickTimeout, GotoStop
  <2> QED BY <1>k, <2>3, <2>4 DEF CreatorDecides, Undecided, UndecidedAt, StopIs
<1>3. ASSUME NEW x \in tick, TickObserve(x)
      PROVE  CreatorDecides'
  <2>1. x \in ExecutionRows
    BY DEF StopTypeOK
  <2>2. TickKind
    BY <1>t, <1>3, <2>1, ClassifyIsQuiet DEF TickObserve, TickKind
  <2> QED BY <1>3, <1>q, <1>u, <2>2 DEF TickObserve
<1>4. CASE TickStart \/ (\E x \in tick : TickSkip(x)) \/ (\E s \in Stops : AOKill(s)) \/ ClockStep
           \/ UNCHANGED stopAllVars
  BY <1>4, <1>u DEF TickStart, TickSkip, AOKill, ClockStep, BudgetExpires, ConfirmationExpires
<1>5. ASSUME NEW x \in pollStops, PollStop(x)
      PROVE  CreatorDecides'
  <2>1. x \in StopSnapshots /\ x.stage = "STOP_CALL_SUCCEEDED" /\ ObserveStop(x) /\ UNCHANGED spc
    BY <1>5 DEF StopTypeOK, TimeoutsOnly, PollStop
  <2>2. x.stop \in Stops /\ (UNCHANGED rows \/ StopMoves(x.stop))
    BY <2>1, ObserveMoves
  <2>3. UNCHANGED rows \/ ~Undecided(x.stop)
    BY <2>1, <2>2, AcceptedIsDecided DEF CreatorDecides, Undecided, UndecidedAt, StopIs
  <2>4. CASE UNCHANGED rows
    BY <1>u, <2>1, <2>4
  <2>5. CASE ~Undecided(x.stop)
    <3>1. spc'[x.stop] \notin UndecidedAt /\ \A s \in Stops : spc'[s] = spc[s]
      BY <2>1, <2>5 DEF Undecided
    <3> QED BY <1>m, <2>2, <3>1
  <2> QED BY <2>3, <2>4, <2>5
<1>6. ASSUME NEW x \in sweepStops, RunStop(x)
      PROVE  CreatorDecides'
  BY <1>6, <1>u DEF RunStop, TimeoutsOnly, Undecided, UndecidedAt
<1>7. CASE OperatorStep
  <2>1. ASSUME NEW r \in Stops, NEW ls \in SUBSET Lineages, NEW p \in Principals,
               AcceptAdministrativeRisk(r, ls, p)
        PROVE  CreatorDecides'
    <3>1. AcceptStopAdministrativeRisk(r, ls, p) /\ UNCHANGED spc
      BY <2>1 DEF AcceptAdministrativeRisk
    <3>2. CASE UNCHANGED stopOp
      BY <1>u, <3>1, <3>2
    <3>3. CASE stopOp' # stopOp
      <4>1. stopOp[r].resolution # "IN_FLIGHT"
        BY <3>1, <3>3 DEF AcceptStopAdministrativeRisk
      <4>2. \A s \in Stops : s # r => stopOp'[s] = stopOp[s]
        BY <1>t, <3>1, <3>3, AcceptIsRowsMoved DEF RowsMoved
      <4> QED BY <1>u, <3>1, <4>1, <4>2 DEF CreatorDecides, Undecided, UndecidedAt, StopIs
    <3> QED BY <3>2, <3>3
  <2>2. ASSUME NEW evidence, NEW p \in Principals, ClearQuarantine(evidence, p)
        PROVE  CreatorDecides'
    BY <1>u, <2>2, ClearedNow DEF ClearQuarantine
  <2> QED BY <1>7, <2>1, <2>2 DEF OperatorStep
<1>8. CASE \/ SagaStep /\ UNCHANGED stopVars
           \/ StopPollStart
           \/ (\E x \in poll : PollClassify(x)) /\ UNCHANGED stopVars
           \/ PollAborts
           \/ StopRunStart
           \/ /\ \/ \E x \in work : RunClassify(x)
                 \/ \E a \in escalate : RunEscalate(a)
                 \/ RunReread
                 \/ RunComplete
              /\ UNCHANGED stopVars
           \/ StopRunFails
  <2>1. RecoveryKind
    BY <1>8 DEF RecoveryKind, RecoveryNext, SweepStep, PollStep, StopPollStart, PollAborts,
       PollFails, StopRunStart, StopRunFails
  <2>2. UNCHANGED spc
    BY <1>8 DEF StopPollStart, PollAborts, StopRunStart, StopRunFails
  <2> QED BY <1>q, <1>u, <2>1, <2>2
<1>9. CASE StopCrash
  BY <1>9 DEF StopCrash, CreatorDecides
<1> QED BY <1>1, <1>2, <1>3, <1>4, <1>5, <1>6, <1>7, <1>8, <1>9
        DEF StopNext, StopStep, TickStep, StopPollStep, StopSweepStep, StopSweepWork

\* With timeouts as the only stops, the creating call and nobody else decides an
\* intent until its kill is answered.
THEOREM OnlyCreatorDecides ==
    ASSUME StartPurposes = {}
    PROVE  StopSpec => []CreatorDecides
<1>1. StopInit => TimeoutsOnly /\ CreatorDecides
  BY DEF StopInit, RecoveryInit, Init, StopProcessesInit, TimeoutsOnly, CreatorDecides, Reserved
<1>2. StopInv /\ TimeoutsOnly /\ CreatorDecides /\ [StopNext]_stopAllVars =>
        TimeoutsOnly' /\ CreatorDecides'
  <2> SUFFICES ASSUME StopInv, TimeoutsOnly, CreatorDecides, [StopNext]_stopAllVars
               PROVE  TimeoutsOnly' /\ CreatorDecides'
    OBVIOUS
  <2>1. TimeoutsOnly'
    BY StopKinds, TimeoutRowsStep, ExclusionStep, PollStopsStep DEF StopInv, TimeoutsOnly
  <2>2. CreatorDecides'
    BY CreatorStep DEF StopInv
  <2> QED BY <2>1, <2>2
<1> QED BY <1>1, <1>2, StopInvariant, PTL DEF StopSpec

-----------------------------------------------------------------------------
(* The dispatch saga keeps its guarantees next to the stops.               *)

\* With stops, ticks and operators around, an attempt is still sent once, only
\* after its intent, a confirmation is still real, and one task holds the lane.
THEOREM StopKeepsDispatch ==
    StopSpec => [](SendDiscipline /\ ConfirmedIsReal /\ OneActiveLane /\ HeldNeverSent)
<1>1. StopInv => SendDiscipline /\ ConfirmedIsReal /\ OneActiveLane /\ HeldNeverSent
  BY DEF StopInv, SagaInv, RowInv, WireFollowsIntent, SendDiscipline
<1> QED BY <1>1, StopInvariant, PTL
=============================================================================
