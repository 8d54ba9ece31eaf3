# A verification project for ai-supervisor

ai-supervisor is a Go control plane that hands task contracts to AI workers
running under an external daemon, AO (Agent Orchestrator), and keeps a durable
record of what it asked for in SQLite. Everything it does to a worker is a
network call whose outcome may be lost, so every such call is a saga: a durable
intent, the call, a durable outcome, and a recovery that never repeats a call
it cannot prove was not made. This directory models those sagas, the database
transactions under them, the audit chain that records them and the daemon that
runs them in TLA+, checks them with TLC and proves the central ones with TLAPS.

## 1. Inventory

A *Pair* is a project lane bound to one AO worker session; a session carries a
*terminal generation* that changes when AO restarts the worker. A *task* of a
Pair is executed by numbered *attempts*, each bound to the session and the
generation it was allocated for.

| Component | State it keeps | Operations | Interacts with | What makes it correct |
|---|---|---|---|---|
| Task workflow (`workflow/state_machine.go`, `store/task_store.go`) | `tasks.state`, `tasks.current_attempt` | `TransitionTask` along 22 edges | every saga moves tasks too | one active task per Pair; a task at work has an open attempt |
| Provisioning (`store/provisioning_transactions.go`) | `pair_provisioning_operations`, `worker_sessions` | reserve, confirm, fail | AO session creation | one session per Pair; unresolved provisioning blocks the Pair |
| Dispatch saga (`dispatch/coordinator.go`, `store/dispatch*.go`) | `dispatch_operations`, `task_attempts`, `attempt_execution_budgets` | `Dispatch`, `containAmbiguousSend`, `RecoverPreSend` | AO GET status and POST send; poller and sweep write the same rows | an instruction is sent at most once, after its intent; confirmed only if AO took it; unknown outcomes are contained |
| Startup sweep (`recovery/scanner.go`) | a gate (`ready`), a snapshot on its stack | `Runner.Run` | reads every open operation, GETs AO, runs before the poller | every intent is resolved; a stale snapshot changes nothing; the gate opens |
| Poller (`recovery/poller.go`) | a snapshot on its stack, goroutine cycles | `PollOnce`, `Start`, `Stop` | runs while callers run; excluded by the sweep | as the sweep, with live callers; its death is noticed |
| Stop saga (`stop/coordinator.go`, `recovery/timeout_monitor.go`, `store/stop_transactions.go`) | `stop_operations` | `Start`, `StartTimeout`, `Observe`, `AcceptAdministrativeRisk` | AO kill; owns a running attempt | one kill per intent, by its creator only; physical proof before a quarantine is lifted |
| Quarantine clearance (`store/clearance_transactions.go`) | quarantine columns | `ClearQuarantineWithEvidence` | stop and restore evidence | every quarantined lineage has its own evidence |
| Restore saga (`dispatch/coordinator.go`, `store/restore_transactions.go`) | `pair_restore_operations` | restore, recovery claim, cleanup claim, resolve | AO restore; changes the generation | a Pair with an unresolved restore does nothing else; evidence names its generation |
| Audit chain (`store/audit_store.go`, `store/atomic_transitions.go`) | `audit_events`, `audit_chain_state` | append, verify, list | every transaction appends; containment reads it | one unbroken hash chain; events and rows commit together |
| Host (`host/`, `cmd/supervisor/main.go`) | owner lock, metadata, pinned file, permits, goroutines | start, scan, serve, take over, drain | contenders on one database; sweep, poller and monitor | one owner of the store; no effect outlives it; a stop ends |
| Contract validation (`contract/`) | none | validate a contract, its revision and its paths | `InsertTaskContract` | a frozen contract is never changed |

What is hard to test here: the process may die between any two commits and AO
may act on a call nobody waits for any more; callers, poller, timeout monitor
and sweep decide from snapshots they read before a network call; a commit may
be reported as an error; deadlines race late answers; the operators'
decisions, the stops, the restores and the clearances may come in any order;
and several daemons, goroutines and pipe handlers start and end at once.
`PROJECT.json` lists each of these hazards at the line where it bites.

## 2. Modules

    Workflow <- Pair <- DispatchStore <- Dispatch <- Recovery <- Stop <- Restore
                                 ^                       ^        |         |
                                 |                       |        v         v
                                 +--- StopStore <--------|--------+   RestoreStore
                                                         +- Provisioning
    Delivery   (abstract) ... implemented by Dispatch with Recovery
    AuditTrail (abstract) ... implemented by AuditChain
    Host
    RecoveryProofs extends Recovery; StopProofs extends Stop and RecoveryProofs;
    RestoreProofs extends Restore and StopProofs; ProvisionProofs extends
    Provisioning and RecoveryProofs; AuditProofs extends AuditChain; HostProofs
    extends Host
    MCRecovery, MCProvision, MCStop, MCRestore, MCHost, MCAudit give the
    constants their values

| Module | Models | How |
|---|---|---|
| `Workflow` | `domain/task_state.go`, `workflow/state_machine.go` | the 13 states, the transition relation, the active lane |
| `Pair` | the columns the sagas read, `store/migrations.go` | one function per column, indexed by task, attempt `<<task, number>>` or stop; `NULL` and `NoStop` stand for absent values |
| `DispatchStore` | the SQL transactions of tasks and dispatch | one operator per transaction: its checks are guards, its updates primed rows. A transaction is atomic because it is one IMMEDIATE SQLite transaction |
| `Dispatch` | `Coordinator.Dispatch`, `containAmbiguousSend`, `RecoverPreSend`, the AO send | each caller is a program counter `pc` with the attempt it holds and what its GET answered; every transaction, GET and POST is its own step. `sends` counts POSTs, `delivered` what AO took, `acked` the attempts whose `Dispatch` returned nil |
| `Recovery` | `Runner.Run`, `Poller.PollOnce` | `phase` is the gate, `work`/`escalate`/`poll` are snapshots still to be handled, `owned` the stop-owned attempts of the first snapshot |
| `Provisioning` | `Coordinator.Provision`, its transactions, the provisioning pass of the sweep | `ppc` is where the call stands, `creates`/`created` what was posted and executed |
| `StopStore` | the SQL transactions of stops, acceptances and D6 | `accepted` and `cleared` are the audit rows that are read back; a deadline is the set of rows for which it has passed (`overdue`, `late`) |
| `Stop` | `stop.Coordinator`, `TimeoutMonitor.Tick`, the stop passes of sweep and poller | `spc` is where the call that created a stop stands, `kills`/`killed` what was posted and executed, `sweepStops`/`pollStops`/`tick` are snapshots |
| `RestoreStore` | the SQL transactions of restores | one row `restoreOp` (a Pair has at most one unresolved restore, the unique index); its stage, resolution, generations and owner |
| `Restore` | `Coordinator.Restore` and its resolutions and claims, linked stops, the restore pass of the sweep | `rpc` is where the call stands, `posts`/`restored` what was posted and which generation AO made of it, `aoGen` the generation that runs |
| `AuditChain` | IMMEDIATE transactions, `appendAuditEventTx`, `AppendAuditEvent`, `VerifyAuditChain`, `ListAuditEvents`, the reread of `containAmbiguousSend` | committed tables `row`, `events`, `head`; the open transaction `tx` and its copy `work`; each caller's `pc` and `view` |
| `Host` | `runDaemon`, lease, pinned file, `Authority`, the life of poller and monitor, the takeover pipe, `ExecuteShutdownDrain` | per process a `stage` and what it holds; `lock`, `metadata`, `dbFile` belong to the machine |
| `Delivery` | abstract | per attempt an outcome (none, bound, intended, confirmed, unknown), and the sets of attempts put on the wire and accepted by AO; the promise of the dispatch saga |
| `AuditTrail` | abstract | decisions and an append-only trail that grows by whole groups of entries, each with the decision it records |

`PROJECT.json` maps each definition to its lines.

Abstractions that hold everywhere. One Pair; identities are small integers
and model values; text and timestamps are left out. Outside `AuditChain`, "the
transaction's audit append failed" is the transaction not committing, which
`ImplementsAuditTrail` justifies. `Observations` is what a GET can mean: unavailable,
a protocol error (with status 404 or not), an APIError 404, another session,
another generation, terminated, and the five activities. Answers are arbitrary
at every GET. An error that makes a call return early is a step of its own
(`PollFails`, `RunFails`, `StopReturns`), and may happen at any time. In
`AuditChain` a hash is the tuple of what it is computed from (SHA-256 is taken
to be injective) and the 128 random bits of an event id never collide.

Which callers run together. In the daemon (`cmd/supervisor/main.go`) the
sweep, the poller and the timeout monitor are wired; `Run` excludes ticks
through `pollAccess`, poll ticks and timeout ticks overlap. `Dispatch`,
`Provision`, `Restore` and an operator's `Start` take no host permit, so they
run during a sweep too: the exclusive quiescence addendum of ADR-016 asks the
host to drain them, and nothing in the code does; the model checks the sagas
without that assumption, except in `MCStopHost`, where no operator reserves a
stop. `OperatorVerified` is FALSE in the daemon (`VerifiedRestorePrincipal`
always answers no); runs about operators' decisions set it TRUE. `Edges` says
which `TransitionTask` calls an orchestrator makes; the function has no caller
outside the tests.

## 3. Runs

| Run | States | Question |
|---|---|---|
| `MCRecovery` | 152,458 | One caller, sweep, poller, crashes, two attempts: do late observers and stale snapshots harm closed or sent attempts, and does the saga implement `Delivery`? |
| `MCProvision` | 1,338,562 | A new Pair: is one session created and bound, whatever answers are lost or late; then, with two callers and two tasks on it, is an instruction sent once and the lane exclusive? |
| `MCStop` | 354,231 | Every kind of stop of one attempt, operator and timeout, against all other actors |
| `MCClearance` | 592,610 | Two stops in sequence, acceptances and D6 on a Pair contained after an unknown delivery |
| `MCStopHost` | 90,973 | Stops as the daemon makes them, two attempts with retries |
| `MCStopLive` | 4,571 | Liveness of dispatches and stops together: is every intent resolved, every accepted kill decided, and does the gate open? |
| `MCRestore` | 613,496 | Two restores, two principals, a linked or unlinked stop, sweeps and crashes: one POST, generations that are real, a lock that only evidence and its owner open |
| `MCHost` | 70,519 | Two daemons, two takeover clients, one database whose file may be replaced: who owns the store, what may still run, does a stop end? |
| `MCAudit` | 124,782 | A containing caller's unsnapshotted reread against observers, appenders, lost commit answers and crashes |
| `MCPollContains`, `MCPollStop`, `MCLinkedStop` | | each shows one disagreement between a document and the code (section 6) |

The properties, in the code's words:

- *Calls.* `SendDiscipline`, `KillDiscipline`, `RestoreDiscipline`,
  `CreateDiscipline`: one POST per intent, after the intent, by its creator.
  `ConfirmedIsReal`, `StoppedIsReal`, `AdoptedIsReal`, `SessionIsProvisioned`:
  what the rows call delivered, stopped, restored or provisioned, AO has done.
  `HeldNeverSent`: a pre-send hold and a send exclude each other.
  `ProtocolHoldSticky`: only an operator lifts a protocol hold.
  `ImplementsDelivery`: the refinement.
- *Containment.* `UnknownIsContained` (without clearance) and
  `UnknownNeedsSettlement` (with it): an unknown delivery stays closed and
  quarantined until its own risk is settled. `SessionGateCovers`: a CLEAN session
  means no quarantined attempt, no unresolved stop, and a last stop that was
  confirmed or accepted. `ClearedOnEvidence`: gates open only on evidence for
  their own lineage. `RestoreLocksPair`: an unresolved restore keeps session and
  attempts of its generation quarantined and nothing open. `ResolvedOnEvidence`:
  a restore that went through a cleanup ends only when every gate it leaves
  closed has its own evidence.
- *Races.* `ClosedIsFinal`: history is never rewritten. `SnapshotIsSound`: what
  an observer holds was recoverable. `StopOwnsAttempt`: a live stop keeps its
  attempt. `StopDecidedOnce`, `ProvisionDecidedOnce`, `RestoreOwned`: one verdict,
  and a claim stays with its principal. `CreatorDecides`: the sweep never decides
  an intent whose creator is at work. `OneActiveLane`.
- *Restart.* `PersistedConsistent`: the startup snapshot is never refused.
  `IntentResolved`, `GateOpens`, `AcceptedKillDecided`.
- *Audit.* `ChainVerifies`: `VerifyAuditChain` accepts every committed snapshot.
  `ContainmentSound`: what the reread concludes is true, though it is put
  together from reads at different moments. `ContainmentReturns`: it ends.
  `ImplementsAuditTrail`: the refinement; the trail grows by the events of a row
  change and only together with it.
- *Host.* `StoreOwned`: an open store belongs to the lock's holder, on the
  pinned file. `EffectsOwned`: whatever can write, call AO or answer has that
  store. `DrainSparesEffects`: no effect is cut off by a drain timeout.
  `MetadataNamesOwner`: the stop command finds the owner. `FailureSurfaces`,
  `StopCompletes`: liveness.

**Bounds.** `MaxAttempts` attempts per task, `MaxStops` stops, `MaxRestores`
restores, `MaxGen` the highest generation, `MaxSends`/`MaxKills`/`MaxPosts`/
`MaxCreates` = 2 so that a second call would be seen. Two attempts are what a
retry after containment needs, two callers what a double dispatch needs, two
stops what stale evidence needs, two restores and two generations what evidence
of the wrong generation needs; more of either repeats the same conflicts on
other rows. All stops from the empty database with two stops exceed five
million states; `MCClearance` therefore starts from the rows that an unknown
delivery leaves, which `MCRecovery` reaches, and `MCRestore` from those and from
the rows of a worker that was seen terminated. `MCRestore` has no dispatch
caller: an unresolved restore admits none (`PairBlocked`, which `AdoptedIsReal`
and `RestoreLocksPair` say in terms of the rows), and dispatch, restore and stop
together are out of TLC's reach; the theorems of `RestoreProofs` speak for them
together. `MCHost` has two files, so that the path can
come to name another file than the pinned one. `MCAudit` has one operation,
pages of two events, and three ids for appended events, of which a repeated one
is refused by the trigger: six events then take four pages, and an appender can
commit between any two of them; with two operations the run exceeds the memory
of a small machine. Under a live stop the edges out of RUNNING are left out:
with them a stop in flight can no longer be committed and every sweep fails (a
hazard, listed).

**Fairness.** `LiveStopSpec`: a process that has crashed is started again, and
`Run` is called until it completes (`WF` of a sweep step while the gate is
closed); a row whose classification is tried again and again is not refused by
an error every time (`SF` per attempt and per stop). The poller keeps ticking
(`WF`). Nothing is assumed of AO, of callers or of the operator. The code's
poller ends its goroutine on the first failed tick, so for
`AcceptedKillDecided` this assumes a supervised restart after such a failure.
`HostFairness`: code that can go on goes on, goroutines run, a tick ends by its
HTTP timeouts, and the select that sees a closed `stopTriggered` returns; nobody
has to start, interrupt or kill a daemon. `AuditChain`: a transaction ends and a
running caller steps; that a read fails is never assumed.

## 4. Theorems

Every theorem holds for every number of tasks, callers, attempts, stops,
restores, generations, principals, daemons, files, operations and events, from
the initial state of its specification (the runs `MCClearance` and `MCRestore`
start later, from rows those specifications reach). Each proof rests on one
inductive invariant, because none of the properties is inductive alone, and on
lemmas that say what one transaction does to the rows.

| Module | Specification | Proved |
|---|---|---|
| `RecoveryProofs` | `RecoverySpec`: dispatch, sweep, poller, crashes | types, `SendDiscipline`, `ConfirmedIsReal`, `UnknownIsContained`, `HeldNeverSent`, `OneActiveLane`, `PersistedConsistent`, `SnapshotIsSound`, `ClosedIsFinal`, `ProtocolHoldSticky` (for an unvouched operator), and that it implements `Delivery` |
| `StopProofs` | `StopSpec`: the same with stops, timeout monitor, operators and clearance | types, `KillDiscipline`, `StoppedIsReal`, `SessionGateCovers`, `UnknownNeedsSettlement`, `ClearedOnEvidence`, `StopDecidedOnce`, `ClosedIsFinal`, `PersistedConsistent`, the dispatch properties; `StopOwnsAttempt` and `CreatorDecides` under the hypotheses below |
| `RestoreProofs` | `RestoreSpec`: the same with restores, their recovery and linked stops | types, `RestoreDiscipline`, `RestoreLocksPair`, `AdoptedIsReal`, `RestoreOwned`, `ResolvedOnEvidence`; and again, with several generations around, the dispatch properties, `KillDiscipline`, `StoppedIsReal`, `UnknownNeedsSettlement`, `ClearedOnEvidence`, `StopDecidedOnce`, `ClosedIsFinal`, `PersistedConsistent` |
| `ProvisionProofs` | `ProvisionSpec`: a Pair from its creation, with dispatch and sweep | types, `CreateDiscipline`, `SessionIsProvisioned`, `ProvisionDecidedOnce`, the dispatch properties |
| `AuditProofs` | `Spec` of `AuditChain`: rows, chain, rereading callers | types, `ChainVerifies`, `ContainmentSound`, and that it implements `AuditTrail` |
| `HostProofs` | `HostSpec`: daemons, files, takeover clients | types, `StoreOwned`, `EffectsOwned`, `DrainSparesEffects`, `MetadataNamesOwner` |

**Recovery.** That a send is unique rests on the callers (who is past the
intent), on the rows (which intents are unresolved) and on the wire (what was
counted):

    SagaInv == types /\ RowInv /\ WireFollowsIntent /\ CallersHoldIntent /\ ConfirmedIsReal

`RowInv` holds of the database alone: attempts exist up to the current one
(`AttemptsExist`), a current attempt of a task at work is open and dispatched
(`CurrentIsOpen`), unknown intents are closed (`UnknownIsClosed`), holds and sends
exclude each other, one lane. `WireFollowsIntent`: nothing is on the wire without
its intent. `CallersHoldIntent`: at most one caller is past the intent of an
attempt, and a row that has moved on has no such caller before its POST. That the
quarantine of an unknown delivery stays (`UnknownIsContained`) is proved beside the
invariant and not in it: clearance opens it, and every larger specification reuses
`SagaInv`. `SnapshotIsSound` adds to it that what a sweep or a poll tick has read
stays true for as long as the row agrees with the snapshot. The steps are split
into quiet ones (no caller, no wire) and loud ones.

**Stop.** A step is one of three kinds: a step of `Recovery`, an observation by the
timeout monitor (quiet, so the lemmas above apply), or a stop transaction.

    StopInv == SagaInv /\ types /\ OneRuntime /\ StopsInOrder /\ LiveStops
               /\ KillFollowsIntent /\ StoppedIsReal /\ SessionGateCovers
               /\ UnknownNeedsSettlement

`OneRuntime`: without restores all rows name one generation. `StopsInOrder`: an
unresolved stop is the last of the Pair. `LiveStops`: one live stop per attempt.
`KillFollowsIntent` ties calls, posted kills and rows together. `SessionGateCovers`
needs the order of the stops, since the last one decides what a CLEAN session may
mean; `UnknownNeedsSettlement` needs that evidence is never lost
(`SettledStays`). Two theorems have a hypothesis that says where they hold.
`StopKeepsAttempt` assumes `NoRunningEdges`: a plain `TransitionTask` out of RUNNING
ignores stops, which is a hazard on the list. `OnlyCreatorDecides` assumes
`StartPurposes = {}`, the daemon's wiring, where only the timeout monitor stops
workers; with operators' stops during a sweep it is false.

**Restore.** A step is a step of the stop saga, possibly with a move of the restore
call, or a restore transaction, which leaves tasks, attempts and dispatch alone.

    RestoreInv == SagaInv /\ types /\ LiveStops /\ KillFollowsIntent /\ StoppedIsReal
                  /\ UnknownNeedsSettlement /\ PostFollowsIntent /\ RowOwned
                  /\ LinkedFollowsClaim /\ GenerationsGrow
                  /\ RestoreLocksPair /\ AdoptedIsReal

`OneRuntime` is gone: what takes its place is that AO's generations only grow
(`GenerationsGrow`), that the session row follows an unresolved restore
(`RestoreLocksPair`), and that a linked stop comes with a cleanup claim and, as long
as the restore is not confirmed, is confirmed only for the generation the restore
started from (`LinkedFollowsClaim`). The last of these is what `ResolvedOnEvidence`
needs: the class A branch of the code compares the session row with the restore and
not with the stop when the restore was not confirmed.

**Provisioning.** `ProvisionInv == SagaInv /\ types /\ CreateFollowsIntent /\
SessionIsProvisioned`: the one POST belongs to an intent on record and to the call
that wrote it; no attempt exists before the session does.

**Audit.** `AuditInv` says of the tables that they are a linked chain and that the
transaction's copy is that chain with the first part of one group behind it, of
a caller with a transaction that it waits for it, and of each operation what its
caller may conclude from the rows and pages it has read. The refinement
maps the committed tables to the trail; everything before a commit is a stutter.

**Host.** Who owns the store is spread over the lock, the pinned handle, the path
and the point each daemon has reached, so the invariant says for every daemon and
every stage what it holds:

    HostInv == types /\ \A p : Held(p) /\ Runs(p) /\ Announced(p)

`Held`: the lock from the lease to the joins, a handle that keeps its file at the
path, and a store on that file from the open to the close. `Runs`: a permit has
its holder, a goroutine or a listener exists only in the stages in which the
store is open, and a drain that went on to its joins has left no permit.
`Announced`: the metadata names the daemon from its announcement until it removes
it, which it does under the lock.

**Assumptions**, all named in the modules and evaluated by the runs. The bounds are
natural numbers, and the counters of sends, kills, posts and creations reach two, so
that a second call would be seen. `EdgesAssumption`: the generic `TransitionTask`
edges are legal transitions other than the saga's own. `StartPurposesAssumption` and
`OperatorAssumption` type the wiring. `PrincipalsAssumption`: a principal has a name
(every operation refuses an empty one). `EventIDsAssumption`: so has an event
(`audit_store.go` refuses an empty id). `OpsAssumption`, `PageLimitAssumption` and
`HostAssumption` keep the values for "nobody" apart and pages non-empty.

**Only model-checked.** The liveness properties (`IntentResolved`,
`AcceptedKillDecided`, `GateOpens`, `FailureSurfaces`, `StopCompletes`,
`ContainmentReturns`) and the fairness they need: the prover has no ENABLED. The
three disagreements of section 6 are counterexamples. `SessionGateCovers`,
`StopOwnsAttempt` and `CreatorDecides` are proved of `StopSpec` and neither checked
nor proved with restores, and `UnknownIsContained` holds of `RecoverySpec` only.

## 5. Not modelled

The legacy-budget maintenance paths, the scrubber of the audit, the path policy
and the schema checks of contracts (string processing), reports, evidence,
reviews and projects (no saga reads them), backup of a damaged database file,
the wire formats of AO and of the pipe, and the Windows calls under the lease,
the pinned handle and the pipe, of which `Host` keeps what they promise. The
maintenance scopes of `Authority` have no caller in the daemon; the flags for
tests and the `stop` and `status` commands, which are clients of the pipe, are
left out. `TransferRestoreRecovery` of the restore addendum does not exist in
the code, so a claim can never change hands (`RestoreOwned`). Nothing in the
code resolves a failed provisioning: the Pair stays reserved.

## 6. What the runs found

| Run | Code | Document |
|---|---|---|
| `MCPollContains` | `AtomicTerminalTransition` does not check the dispatch stage, so a poll tick with a DISPATCH_BOUND snapshot closes, unquarantined, an attempt that is being sent | an unconfirmed SEND_REQUESTED is quarantined |
| `MCPollStop` | a poll tick that loses its attempt to the timeout monitor does not recognise the stop as the winner, fails, and the poller ends | the loser rereads the state |
| `MCLinkedStop` | the kill of the generation an unknown restore left behind is accepted, but no outcome of it can be committed, because the session row still names the old generation; restore and stop stay unresolved | a linked stop of the observed generation is class A for it |

Also met and modelled, without a run of their own. A well-formed 404 before the
send leaves a RECOVERY_PENDING hold (`Dispatch` looks for a `ProtocolError` with
status 404, the client returns `APIError`), where the pre-send addendum wants
FAILED / SESSION_ABSENT. FAILED -> READY commits with quarantined lineage and
only the next allocation refuses, where `06_WORKFLOW_STATE_MACHINE.md` prohibits
the transition. `TransitionTask` reaches FAILED with the attempt open, where the
same document closes it in the same transaction. Any past unknown delivery of
the Pair, even a cleared one, makes `ValidateTimeoutEffectOwner` refuse and
`closeLiveStopTx` keep the session quarantined. A live stop confirmed while
another lineage is quarantined cannot serve as the session's class A evidence,
because its own attempt is already CLEAN, so another stop is needed. ADR-017
lists the poller before the permits in its drain; `ExecuteShutdownDrain` waits
for the permits first, and `DrainSparesEffects` and `EffectsOwned` hold in that
order. The takeover callback reads and writes `stopOnce` without a lock: two
handlers may both close the channel (`TakeoverPanics`); the process then ends
without its drain, which the safety properties survive like a crash. After a
failed poller or monitor tick admission stays closed until a restart.

## 7. Plan

1. `SessionGateCovers` with restores: which stops a CLEAN session covers once the
   generation has changed, checked first on `MCRestore`, then proved of
   `RestoreSpec`; `StopOwnsAttempt` for `RestoreSpec`.
2. Provisioning composed with stops and restores, so that one specification starts
   from a Pair that does not exist yet.
3. The path policy of contracts as a pure algorithm against a reference
   definition.
