------------------------------ MODULE Restore ------------------------------
(***************************************************************************)
(* The restore saga (dispatch.Coordinator.Restore and the operator's       *)
(* recovery of it) composed with dispatch, stops, sweep and poller.  A     *)
(* restore is an intent, one POST /restore by the call that created it,    *)
(* and a confirmation that adopts the generation AO produced.  What AO did *)
(* with a request whose call is gone is unknown: an operator claims the    *)
(* restore, and resolves it directly or through one linked stop.           *)
(***************************************************************************)
EXTENDS Stop, RestoreStore

CONSTANT MaxPosts      \* bound on the POST /restore calls counted per restore

\* Two or more, so that the bound never hides a second one.
ASSUME MaxPostsAssumption == MaxPosts \in Nat /\ MaxPosts >= 2

VARIABLES
    rpc,           \* where the call that created each restore is
    posts,         \* POST /restore calls issued, by restore
    aoGen,         \* the terminal generation of AO's session
    restored,      \* the generation AO produced for each restore, or 0
    sweepRestore   \* the restore the sweep has still to classify, or 0

restoreVars == <<rpc, posts, aoGen, restored, sweepRestore>>
restoreAllVars == <<stopAllVars, restoreVars>>

RPCs == { "none", "post", "await" }

Bases == { "PHYSICAL_EXECUTION_RESOLUTION", "ADMINISTRATIVE_RISK_RESOLUTION" }

\* The types of the restore saga on top of those of the stop saga.
RestoreTypeOK ==
    /\ StopTypeOK
    /\ rpc \in [Restores -> RPCs]
    /\ posts \in [Restores -> 0 .. MaxPosts]
    /\ aoGen \in Generations
    /\ restored \in [Restores -> Generations]
    /\ sweepRestore \in 0 .. MaxRestores

RestoreProcessesInit ==
    /\ rpc = [r \in Restores |-> "none"]
    /\ posts = [r \in Restores |-> 0]
    /\ aoGen = 0
    /\ restored = [r \in Restores |-> 0]
    /\ sweepRestore = 0

RestoreInit == StopInit /\ RestoreProcessesInit

GotoRestore(r, label) == rpc' = [rpc EXCEPT ![r] = label]

-----------------------------------------------------------------------------
(* Coordinator.Restore.                                                    *)

\* A commit reported as an error ends the call.
RestoreStart(r) ==
    /\ OperatorVerified
    /\ ReservePairRestore(r)
    /\ GotoRestore(r, "post") \/ UNCHANGED rpc
    /\ UNCHANGED <<OtherProcesses, stopVars, posts, aoGen, restored, sweepRestore>>

\* Mutant: an answer that does not come is asked for again.
ResumeWorker_Retried(r) ==
    /\ rpc[r] \in { "post", "await" }
    /\ posts[r] < MaxPosts
    /\ posts' = [posts EXCEPT ![r] = @ + 1]
    /\ GotoRestore(r, "await")
    /\ UNCHANGED <<stopAllVars, aoGen, restored, sweepRestore>>

\* The one POST /restore of the call; it may fail before it leaves.
ResumeWorker(r) ==
    /\ rpc[r] = "post"
    /\ \/ posts[r] < MaxPosts /\ posts' = [posts EXCEPT ![r] = @ + 1]
       \/ UNCHANGED posts
    /\ GotoRestore(r, "await")
    /\ UNCHANGED <<stopAllVars, aoGen, restored, sweepRestore>>

\* Mutant: the generation is taken from the status alone.
RestoreConfirmed_AnyGeneration(r) ==
    /\ rpc[r] = "await"
    /\ \E status \in { "ACTIVE", "IDLE", "TERMINATED" } : ConfirmPairRestore(r, aoGen, status)
    /\ GotoRestore(r, "none")
    /\ UNCHANGED <<OtherProcesses, stopVars, posts, aoGen, restored, sweepRestore>>

\* HTTP 200 with a generation that the status read afterwards still shows.  A
\* confirmation reported as an error is found by the reread.
RestoreConfirmed(r) ==
    /\ rpc[r] = "await"
    /\ restored[r] # 0
    /\ aoGen = restored[r]
    /\ \E status \in { "ACTIVE", "IDLE", "TERMINATED" } :
         ConfirmPairRestore(r, restored[r], status)
    /\ GotoRestore(r, "none")
    /\ UNCHANGED <<OtherProcesses, stopVars, posts, aoGen, restored, sweepRestore>>

\* An error, an answer without provenance, a status that contradicts it, or a
\* confirmation that did not persist; this verdict may be refused as well.
RestoreUnknown(r) ==
    /\ rpc[r] = "await"
    /\ RecordPairRestoreUnknown(r) \/ UNCHANGED rows
    /\ GotoRestore(r, "none")
    /\ UNCHANGED <<OtherProcesses, stopVars, posts, aoGen, restored, sweepRestore>>

\* AO executes a request that is on the wire, however late, and restarts the
\* session under a generation it has not used before.
AORestore(r) ==
    /\ posts[r] > 0
    /\ restored[r] = 0
    /\ aoGen < MaxGen
    /\ aoGen' = aoGen + 1
    /\ restored' = [restored EXCEPT ![r] = aoGen + 1]
    /\ UNCHANGED <<stopAllVars, rpc, posts, sweepRestore>>

-----------------------------------------------------------------------------
(* The operator's recovery.                                                *)

ResolveRestore(p) ==
    /\ aoGen = restoreOp.observed
    /\ OperatorVerified
    /\ ResolveConfirmedRestore(p)
    /\ UNCHANGED <<OtherProcesses, stopVars, restoreVars>>

ResolveAmbiguous(basis, p) ==
    /\ OperatorVerified
    /\ ResolveAmbiguousRestore(basis, p)
    /\ UNCHANGED <<OtherProcesses, stopVars, restoreVars>>

ClaimRecovery(p) ==
    /\ OperatorVerified
    /\ ClaimRestoreRecovery(p)
    /\ UNCHANGED <<OtherProcesses, stopVars, restoreVars>>

\* Coordinator.start of a linked stop, which goes on to its kill, and
\* Coordinator.ClaimRestoreCleanup, which does not.  A maintenance stop is aimed
\* at the generation a fresh status shows.
ClaimRestoreCleanup(s, purpose, a, g, p) ==
    /\ OperatorVerified
    /\ purpose = "PAIR_MAINTENANCE" => g = aoGen
    /\ ClaimRestoreCleanupWithStop(s, purpose, a, g, p)
    /\ GotoStop(s, "reserved") \/ UNCHANGED spc
    /\ UNCHANGED <<OtherProcesses, auditVars, clockVars, kills, killed, observerVars, restoreVars>>

-----------------------------------------------------------------------------
(* Runner.Run with its restores, which come first.                         *)

RestoreRunStart ==
    /\ StopRunStart
    /\ sweepRestore' = IF restoreOp.resolution = "IN_FLIGHT" THEN restoreOp.id ELSE 0
    /\ UNCHANGED <<rpc, posts, aoGen, restored>>

\* The restore is classified, or somebody has decided it since the snapshot.
RunRestore ==
    /\ phase = "intents"
    /\ sweepRestore # 0
    /\ \/ ClassifyInterruptedRestore(sweepRestore)
       \/ /\ sweepRestore < restoreOp.id \/ restoreOp.resolution # "IN_FLIGHT"
          /\ UNCHANGED rows
    /\ sweepRestore' = 0
    /\ UNCHANGED <<OtherProcesses, stopVars, rpc, posts, aoGen, restored>>

RestoreRunFails ==
    /\ StopRunFails
    /\ sweepRestore' = 0
    /\ UNCHANGED <<rpc, posts, aoGen, restored>>

RestoreSweepStep ==
    \/ RestoreRunStart
    \/ RunRestore
    \/ sweepRestore = 0 /\ StopSweepWork /\ UNCHANGED restoreVars
    \/ RestoreRunFails

RestoreCrash ==
    /\ StopCrash
    /\ rpc' = [r \in Restores |-> "none"]
    /\ sweepRestore' = 0
    /\ UNCHANGED <<posts, aoGen, restored>>

-----------------------------------------------------------------------------

RestoreCallStep(r) ==
    \/ RestoreStart(r)
    \/ ResumeWorker(r)
    \/ RestoreConfirmed(r)
    \/ RestoreUnknown(r)

RecoverRestoreStep(p) ==
    \/ ResolveRestore(p)
    \/ \E basis \in Bases : ResolveAmbiguous(basis, p)
    \/ ClaimRecovery(p)
    \/ \E s \in Stops, purpose \in StopPurposes, a \in Lineages, g \in Generations :
         ClaimRestoreCleanup(s, purpose, a, g, p)

RestoreNext ==
    \/ StopStep /\ UNCHANGED restoreVars
    \/ \E r \in Restores : RestoreCallStep(r)
    \/ \E p \in Principals : RecoverRestoreStep(p)
    \/ \E r \in Restores : AORestore(r)
    \/ RestoreSweepStep
    \/ RestoreCrash

RestoreSpec == RestoreInit /\ [][RestoreNext]_restoreAllVars

-----------------------------------------------------------------------------
(* Properties.                                                             *)

\* A /restore, which may replay the worker's prompt, is posted at most once per
\* operator decision and after its intent: restarts, sweeps and late answers
\* never repeat it (coordinator.go: "no retry permitted").
RestoreDiscipline ==
    \A r \in Restores :
        /\ posts[r] <= 1
        /\ posts[r] > 0 => r <= restoreOp.id

\* An unresolved restore locks its Pair: until an operator has resolved it the
\* session and every attempt of the generation it started from stay
\* quarantined, nothing runs, and the session row follows the restore only.
RestoreLocksPair ==
    RestoreUnresolved =>
        /\ LineageQuarantined(NoAttempt)
        /\ AttemptsOf(restoreOp.gen) \subseteq QuarantinedAttempts
        /\ \A a \in Attempts : attemptState[a] # "OPEN"
        /\ sessionGen = RestoreGen

\* The session row names a generation AO really produced for a restore of this
\* Pair, the confirmed row the one of its own request, and whatever runs is
\* bound to the generation the row names.
AdoptedIsReal ==
    /\ sessionGen # 0 => \E r \in Restores : restored[r] = sessionGen
    /\ restoreOp.stage = "RESTORE_CONFIRMED" =>
         restored[restoreOp.id] = restoreOp.observed /\ restoreOp.observed > restoreOp.gen
    /\ \A a \in Attempts : attemptState[a] = "OPEN" => boundGen[a] = sessionGen

\* A restore that went through a cleanup is resolved only on evidence for every
\* gate it leaves closed: the kill of the old generation does not speak for the
\* new one, nor one attempt's stop for another's.
ResolvedOnEvidence ==
    [][ RestoreUnresolved /\ LinkedStops # {} /\ restoreOp'.resolution = "RESTORE_RESOLVED" =>
          \A l \in Lineages : LineageQuarantined(l) => Settled(l) ]_restoreAllVars

\* Only an operator ends a restore: a claimed one stays with the principal who
\* claimed it, an unclaimed one is not resolved without a principal, and a
\* resolved one is history; no late answer of its call, no sweep and no other
\* operator takes it over.
RestoreOwned ==
    [][ restoreOp' # restoreOp =>
          \/ restoreOp'.id = restoreOp.id + 1 /\ ~RestoreUnresolved
          \/ /\ RestoreUnresolved
             /\ restoreOp.owner # NULL => restoreOp'.owner = restoreOp.owner
             /\ restoreOp'.resolution = "RESTORE_RESOLVED" => restoreOp'.owner # NULL
      ]_restoreAllVars

-----------------------------------------------------------------------------
(* A statement of the documentation that the code does not meet.           *)

\* ADR-016 restore addendum, cleanup of an unknown restore: a linked kill of the
\* generation a fresh status showed, accepted by AO and seen terminated within
\* its deadline, is class A evidence for that generation, so it can be recorded.
LinkedKillConfirmable ==
    \A s \in Stops :
        /\ StopIs(s, "STOP_CALL_SUCCEEDED", "IN_FLIGHT")
        /\ Linked(s)
        /\ s \notin late
        => ENABLED CommitStopOutcome(s, "STOP_CALL_SUCCEEDED", "STOP_TERMINATION_CONFIRMED",
                                     "TERMINATION_CONFIRMED")
=============================================================================
