-------------------------------- MODULE Host --------------------------------
(***************************************************************************)
(* The daemon around the sagas: runDaemon of cmd/supervisor with the       *)
(* owner lease, the pinned database handle, the authority that admits      *)
(* effects, the poller and timeout monitor goroutines, the takeover pipe   *)
(* and the shutdown drain.  Several daemon processes are started on one    *)
(* database; any of them may fail at any step or be killed.                *)
(***************************************************************************)
EXTENDS Naturals

CONSTANTS
    Procs,           \* daemon processes (an instance ID each)
    Files,           \* physical identities a database file can have
    Clients          \* processes that ask for a takeover over the pipe

\* "none" is no process and 0 is no file.
ASSUME HostAssumption == "none" \notin Procs /\ 0 \notin Files

VARIABLES
    dbFile,          \* the file at the database path, 0 when there is none
    lock,            \* the process whose .owner.lock handle is open
    metadata,        \* the instance .owner.json names
    stage,           \* where runDaemon is
    early,           \* is it returning an error from before it served?
    pinned,          \* the file its PinnedDB handle holds
    opened,          \* the file its Store has open
    draining,        \* Authority: admission is closed
    permits,         \* Authority: scopes granted and not released
    poller,          \* the poller's goroutine
    watching,        \* is the poller's watcher waiting?
    monitor,         \* the timeout monitor's goroutine
    listening,       \* do the pipe and the probe accept requests?
    triggered,       \* has stopTriggered been closed?
    checked          \* takeover handlers that have read stopOnce as false

machineVars == <<dbFile, lock, metadata>>
daemonVars == <<stage, early, pinned, opened>>
authorityVars == <<draining, permits>>
goroutineVars == <<poller, watching, monitor>>
pipeVars == <<listening, triggered, checked>>
hostVars == <<machineVars, daemonVars, authorityVars, goroutineVars, pipeVars>>

\* Startup, and the stages only an owner of the database reaches.
BootStages == { "pin", "lease" }
OwnerStages == { "announce", "create", "open", "verify", "scan", "scanning",
                 "schedule", "pipe", "listen", "serving", "drain", "draining", "waiting" }
JoinStages == { "joinPoller", "joinMonitor" }
CloseStages == { "closeStore", "cleanMetadata", "unpin", "unlock" }
Stages == { "down" } \cup BootStages \cup OwnerStages \cup JoinStages \cup CloseStages

\* The types of the machine's and of the daemons' state.
HostTypeOK ==
    /\ dbFile \in Files \cup {0}
    /\ lock \in Procs \cup {"none"}
    /\ metadata \in Procs \cup {"none"}
    /\ stage \in [Procs -> Stages]
    /\ early \in [Procs -> BOOLEAN]
    /\ pinned \in [Procs -> Files \cup {0}]
    /\ opened \in [Procs -> Files \cup {0}]
    /\ draining \in [Procs -> BOOLEAN]
    /\ permits \in [Procs -> SUBSET { "scan", "effect" }]
    /\ poller \in [Procs -> { "off", "idle", "tick", "failed", "ended" }]
    /\ watching \in [Procs -> BOOLEAN]
    /\ monitor \in [Procs -> { "off", "idle", "tick", "expired", "effect", "ended" }]
    /\ listening \in [Procs -> BOOLEAN]
    /\ triggered \in [Procs -> BOOLEAN]
    /\ checked \in [Procs -> SUBSET Clients]

HostInit ==
    /\ dbFile \in Files \cup {0}
    /\ lock = "none"
    /\ metadata = "none"
    /\ stage = [p \in Procs |-> "down"]
    /\ early = [p \in Procs |-> FALSE]
    /\ pinned = [p \in Procs |-> 0]
    /\ opened = [p \in Procs |-> 0]
    /\ draining = [p \in Procs |-> FALSE]
    /\ permits = [p \in Procs |-> {}]
    /\ poller = [p \in Procs |-> "off"]
    /\ watching = [p \in Procs |-> FALSE]
    /\ monitor = [p \in Procs |-> "off"]
    /\ listening = [p \in Procs |-> FALSE]
    /\ triggered = [p \in Procs |-> FALSE]
    /\ checked = [p \in Procs |-> {}]

GoTo(p, s) == stage' = [stage EXCEPT ![p] = s]

-----------------------------------------------------------------------------
(* runDaemon up to the open store.  An existing file is pinned before the  *)
(* lease is asked for, a new one is created under it.                      *)

Boot(p) ==
    /\ stage[p] = "down"
    /\ GoTo(p, IF dbFile = 0 THEN "lease" ELSE "pin")
    /\ UNCHANGED <<machineVars, early, pinned, opened, authorityVars, goroutineVars, pipeVars>>

PrepareExistingDB(p) ==
    /\ stage[p] = "pin"
    /\ dbFile # 0
    /\ pinned' = [pinned EXCEPT ![p] = dbFile]
    /\ GoTo(p, "lease")
    /\ UNCHANGED <<machineVars, early, opened, authorityVars, goroutineVars, pipeVars>>

\* Mutant: the lock file is opened with a share mode that lets others in.
AcquireProcessOwnerLease_Shared(p) ==
    /\ stage[p] = "lease"
    /\ lock' = p
    /\ GoTo(p, "announce")
    /\ UNCHANGED <<dbFile, metadata, early, pinned, opened, authorityVars, goroutineVars, pipeVars>>

\* CreateFile with share mode 0: a sharing violation while anyone holds it.
AcquireProcessOwnerLease(p) ==
    /\ stage[p] = "lease"
    /\ lock = "none"
    /\ lock' = p
    /\ GoTo(p, "announce")
    /\ UNCHANGED <<dbFile, metadata, early, pinned, opened, authorityVars, goroutineVars, pipeVars>>

\* Only the new-database path comes here without a pin.
WriteMetadata(p) ==
    /\ stage[p] = "announce"
    /\ metadata' = p
    /\ GoTo(p, IF pinned[p] = 0 THEN "create" ELSE "open")
    /\ UNCHANGED <<dbFile, lock, early, pinned, opened, authorityVars, goroutineVars, pipeVars>>

\* The lease closes its own handle; the file may have been truncated.
WriteMetadataFails(p) ==
    /\ stage[p] = "announce"
    /\ metadata' \in { metadata, "none" }
    /\ lock' = "none"
    /\ early' = [early EXCEPT ![p] = TRUE]
    /\ GoTo(p, "closeStore")
    /\ UNCHANGED <<dbFile, pinned, opened, authorityVars, goroutineVars, pipeVars>>

\* CREATE_NEW: a file nobody else has, under the lease.
CreateAndPinDB(p) ==
    /\ stage[p] = "create"
    /\ dbFile = 0
    /\ \E f \in Files :
         /\ dbFile' = f
         /\ pinned' = [pinned EXCEPT ![p] = f]
    /\ GoTo(p, "open")
    /\ UNCHANGED <<lock, metadata, early, opened, authorityVars, goroutineVars, pipeVars>>

\* Store.Open goes by the path.
OpenStore(p) ==
    /\ stage[p] = "open"
    /\ opened' = [opened EXCEPT ![p] = dbFile]
    /\ GoTo(p, "verify")
    /\ UNCHANGED <<machineVars, early, pinned, authorityVars, goroutineVars, pipeVars>>

\* The file at the path is still the pinned one; then NewAuthority.
VerifyPostOpenIdentity(p) ==
    /\ stage[p] = "verify"
    /\ dbFile = pinned[p]
    /\ draining' = [draining EXCEPT ![p] = FALSE]
    /\ GoTo(p, "scan")
    /\ UNCHANGED <<machineVars, early, pinned, opened, permits, goroutineVars, pipeVars>>

\* Someone outside moves, deletes or replaces the file: not while a handle
\* without FILE_SHARE_DELETE is open on it.
ReplaceDBFile ==
    /\ \A p \in Procs : pinned[p] = 0
    /\ \E f \in Files \cup {0} : f # dbFile /\ dbFile' = f
    /\ UNCHANGED <<lock, metadata, daemonVars, authorityVars, goroutineVars, pipeVars>>

-----------------------------------------------------------------------------
(* From the recovery scan to serving.                                      *)

\* Runner.Run takes the global scope; no other scope can be held.
AcquireGlobalExclusiveScope(p) ==
    /\ stage[p] = "scan"
    /\ ~draining[p]
    /\ permits[p] = {}
    /\ permits' = [permits EXCEPT ![p] = {"scan"}]
    /\ GoTo(p, "scanning")
    /\ UNCHANGED <<machineVars, early, pinned, opened, draining, goroutineVars, pipeVars>>

\* Complete, or an error that ends the process.
ScanReturns(p) ==
    /\ stage[p] = "scanning"
    /\ permits' = [permits EXCEPT ![p] = {}]
    /\ \/ GoTo(p, "schedule") /\ UNCHANGED early
       \/ GoTo(p, "closeStore") /\ early' = [early EXCEPT ![p] = TRUE]
    /\ UNCHANGED <<machineVars, pinned, opened, draining, goroutineVars, pipeVars>>

StartSchedulers(p) ==
    /\ stage[p] = "schedule"
    /\ poller' = [poller EXCEPT ![p] = "idle"]
    /\ watching' = [watching EXCEPT ![p] = TRUE]
    /\ monitor' = [monitor EXCEPT ![p] = "idle"]
    /\ GoTo(p, "pipe")
    /\ UNCHANGED <<machineVars, early, pinned, opened, authorityVars, pipeVars>>

\* The pipe serves before the probe does.
StartNamedPipeServer(p) ==
    /\ stage[p] = "pipe"
    /\ listening' = [listening EXCEPT ![p] = TRUE]
    /\ GoTo(p, "listen")
    /\ UNCHANGED <<machineVars, early, pinned, opened, authorityVars, goroutineVars, triggered, checked>>

ListenHTTP(p) ==
    /\ stage[p] = "listen"
    /\ GoTo(p, "serving")
    /\ UNCHANGED <<machineVars, early, pinned, opened, authorityVars, goroutineVars, pipeVars>>

\* An error before the schedulers run: straight to the deferred cleanup.
StartupFails(p) ==
    /\ stage[p] \in { "pin", "lease", "create", "open", "verify", "scan", "schedule" }
    /\ early' = [early EXCEPT ![p] = TRUE]
    /\ GoTo(p, "closeStore")
    /\ UNCHANGED <<machineVars, pinned, opened, authorityVars, goroutineVars, pipeVars>>

\* An error after that stops the pipe and the schedulers first.
ListenFails(p) ==
    /\ stage[p] \in { "pipe", "listen" }
    /\ listening' = [listening EXCEPT ![p] = FALSE]
    /\ early' = [early EXCEPT ![p] = TRUE]
    /\ GoTo(p, "joinPoller")
    /\ UNCHANGED <<machineVars, pinned, opened, authorityVars, goroutineVars, triggered, checked>>

-----------------------------------------------------------------------------
(* The goroutines.  The closers cancel their contexts.                     *)

PollerCancelled(p) == stage[p] \in JoinStages
MonitorCancelled(p) == stage[p] = "joinMonitor"

\* A tick begins, ends well, or ends with an error; the goroutine is over
\* after an error, and after a cancellation.
PollOnce(p) ==
    /\ \/ poller[p] = "idle" /\ ~PollerCancelled(p) /\ poller' = [poller EXCEPT ![p] = "tick"]
       \/ poller[p] = "tick" /\ poller' = [poller EXCEPT ![p] = "idle"]
       \/ poller[p] = "tick" /\ poller' = [poller EXCEPT ![p] = "failed"]
       \/ poller[p] \in { "idle", "tick" } /\ PollerCancelled(p)
                                       /\ poller' = [poller EXCEPT ![p] = "ended"]
    /\ UNCHANGED <<machineVars, daemonVars, authorityVars, watching, monitor, pipeVars>>

\* Mutant: the failure is logged and nothing else.
WatchPoller_LogsOnly(p) ==
    /\ watching[p]
    /\ poller[p] = "failed" \/ PollerCancelled(p)
    /\ watching' = [watching EXCEPT ![p] = FALSE]
    /\ UNCHANGED <<machineVars, daemonVars, authorityVars, poller, monitor, pipeVars>>

\* The watcher of poller.Done(): a failure makes the host unavailable, unless
\* the poller is being stopped.
WatchPoller(p) ==
    /\ watching[p]
    /\ \/ poller[p] = "failed" /\ ~PollerCancelled(p) /\ draining' = [draining EXCEPT ![p] = TRUE]
       \/ PollerCancelled(p) /\ UNCHANGED draining
    /\ watching' = [watching EXCEPT ![p] = FALSE]
    /\ UNCHANGED <<machineVars, daemonVars, permits, poller, monitor, pipeVars>>

TickStart(p) ==
    /\ monitor[p] = "idle"
    /\ ~MonitorCancelled(p)
    /\ monitor' = [monitor EXCEPT ![p] = "tick"]
    /\ UNCHANGED <<machineVars, daemonVars, authorityVars, poller, watching, pipeVars>>

\* The next execution of the tick is past its deadline.
TickFindsExpired(p) ==
    /\ monitor[p] = "tick"
    /\ ~MonitorCancelled(p)
    /\ monitor' = [monitor EXCEPT ![p] = "expired"]
    /\ UNCHANGED <<machineVars, daemonVars, authorityVars, poller, watching, pipeVars>>

\* StartTimeout with the effect permit; its kill is under way from here.
AcquireEffect(p) ==
    /\ monitor[p] = "expired"
    /\ ~draining[p]
    /\ permits[p] = {}
    /\ permits' = [permits EXCEPT ![p] = {"effect"}]
    /\ monitor' = [monitor EXCEPT ![p] = "effect"]
    /\ UNCHANGED <<machineVars, daemonVars, draining, poller, watching, pipeVars>>

\* The saga has committed its outcome, or given up; the tick goes on, unless
\* it was an error.
ReleaseEffect(p) ==
    /\ monitor[p] = "effect"
    /\ permits' = [permits EXCEPT ![p] = {}]
    /\ monitor' = [monitor EXCEPT ![p] = "tick"]
    /\ UNCHANGED <<machineVars, daemonVars, draining, poller, watching, pipeVars>>

\* A tick that fails, for want of a permit too, makes the host unavailable;
\* the goroutine goes on ticking.
TickReturns(p) ==
    /\ monitor[p] \in { "tick", "expired" }
    /\ monitor' = [monitor EXCEPT ![p] = "idle"]
    /\ \/ UNCHANGED draining
       \/ ~MonitorCancelled(p) /\ draining' = [draining EXCEPT ![p] = TRUE]
    /\ UNCHANGED <<machineVars, daemonVars, permits, poller, watching, pipeVars>>

MonitorEnds(p) ==
    /\ monitor[p] = "idle"
    /\ MonitorCancelled(p)
    /\ monitor' = [monitor EXCEPT ![p] = "ended"]
    /\ UNCHANGED <<machineVars, daemonVars, authorityVars, poller, watching, pipeVars>>

-----------------------------------------------------------------------------
(* Takeover: every client has a handler goroutine, and the callback reads  *)
(* and writes stopOnce without a lock.                                     *)

TakeoverRequested(p, c) ==
    /\ listening[p]
    /\ ~triggered[p]
    /\ checked' = [checked EXCEPT ![p] = @ \cup {c}]
    /\ UNCHANGED <<machineVars, daemonVars, authorityVars, goroutineVars, listening, triggered>>

TakeoverTriggers(p, c) ==
    /\ c \in checked[p]
    /\ ~triggered[p]
    /\ triggered' = [triggered EXCEPT ![p] = TRUE]
    /\ checked' = [checked EXCEPT ![p] = @ \ {c}]
    /\ UNCHANGED <<machineVars, daemonVars, authorityVars, goroutineVars, listening>>

\* The process is gone, and with it its memory and its handles.
ProcessGone(p) ==
    /\ lock' = IF lock = p THEN "none" ELSE lock
    /\ stage' = [stage EXCEPT ![p] = "down"]
    /\ early' = [early EXCEPT ![p] = FALSE]
    /\ pinned' = [pinned EXCEPT ![p] = 0]
    /\ opened' = [opened EXCEPT ![p] = 0]
    /\ draining' = [draining EXCEPT ![p] = FALSE]
    /\ permits' = [permits EXCEPT ![p] = {}]
    /\ poller' = [poller EXCEPT ![p] = "off"]
    /\ watching' = [watching EXCEPT ![p] = FALSE]
    /\ monitor' = [monitor EXCEPT ![p] = "off"]
    /\ listening' = [listening EXCEPT ![p] = FALSE]
    /\ triggered' = [triggered EXCEPT ![p] = FALSE]
    /\ checked' = [checked EXCEPT ![p] = {}]
    /\ UNCHANGED <<dbFile, metadata>>

\* Two handlers that both read false: the second close is a panic.
TakeoverPanics(p, c) ==
    /\ c \in checked[p]
    /\ triggered[p]
    /\ ProcessGone(p)

DaemonKilled(p) ==
    /\ stage[p] # "down"
    /\ ProcessGone(p)

-----------------------------------------------------------------------------
(* ExecuteShutdownDrain, and the deferred cleanup of an early error.  They *)
(* close the same things in different orders.                              *)

\* The interrupt, or the takeover: the listeners close first.
CloseListeners(p) ==
    /\ stage[p] = "serving"
    /\ listening' = [listening EXCEPT ![p] = FALSE]
    /\ GoTo(p, "drain")
    /\ UNCHANGED <<machineVars, early, pinned, opened, authorityVars, goroutineVars, triggered, checked>>

Drain(p) ==
    /\ stage[p] = "drain"
    /\ draining' = [draining EXCEPT ![p] = TRUE]
    /\ GoTo(p, "draining")
    /\ UNCHANGED <<machineVars, early, pinned, opened, permits, goroutineVars, pipeVars>>

\* Mutant: the timeout ends the wait.
DrainTimesOut_Proceeds(p) ==
    /\ stage[p] = "draining"
    /\ GoTo(p, "joinPoller")
    /\ UNCHANGED <<machineVars, early, pinned, opened, authorityVars, goroutineVars, pipeVars>>

DrainTimesOut(p) ==
    /\ stage[p] = "draining"
    /\ GoTo(p, "waiting")
    /\ UNCHANGED <<machineVars, early, pinned, opened, authorityVars, goroutineVars, pipeVars>>

\* Nothing in flight, in time or after it.
WaitAllReleased(p) ==
    /\ stage[p] \in { "draining", "waiting" }
    /\ permits[p] = {}
    /\ GoTo(p, "joinPoller")
    /\ UNCHANGED <<machineVars, early, pinned, opened, authorityVars, goroutineVars, pipeVars>>

\* Mutant: joins only a poller that was still running.
StopPoller_RunningOnly(p) ==
    /\ stage[p] = "joinPoller"
    /\ poller[p] = "ended"
    /\ ~watching[p]
    /\ GoTo(p, "joinMonitor")
    /\ UNCHANGED <<machineVars, early, pinned, opened, authorityVars, goroutineVars, pipeVars>>

\* Poller.Stop joins the goroutine, failed or not, then the watcher.
StopPoller(p) ==
    /\ stage[p] = "joinPoller"
    /\ poller[p] \in { "failed", "ended" }
    /\ ~watching[p]
    /\ GoTo(p, "joinMonitor")
    /\ UNCHANGED <<machineVars, early, pinned, opened, authorityVars, goroutineVars, pipeVars>>

\* Mutant: the monitor is cancelled and not joined.
StopMonitor_NoJoin(p) ==
    /\ stage[p] = "joinMonitor"
    /\ GoTo(p, "closeStore")
    /\ UNCHANGED <<machineVars, early, pinned, opened, authorityVars, goroutineVars, pipeVars>>

StopMonitor(p) ==
    /\ stage[p] = "joinMonitor"
    /\ monitor[p] = "ended"
    /\ GoTo(p, "closeStore")
    /\ UNCHANGED <<machineVars, early, pinned, opened, authorityVars, goroutineVars, pipeVars>>

CloseStore(p) ==
    /\ stage[p] = "closeStore"
    /\ opened' = [opened EXCEPT ![p] = 0]
    /\ GoTo(p, IF early[p] THEN "unpin" ELSE "cleanMetadata")
    /\ UNCHANGED <<machineVars, early, pinned, authorityVars, goroutineVars, pipeVars>>

\* Mutant: whoever fails to start removes the file.
CleanMetadata_Always(p) ==
    /\ stage[p] = "cleanMetadata"
    /\ metadata' = "none"
    /\ GoTo(p, IF early[p] THEN "unlock" ELSE "unpin")
    /\ UNCHANGED <<dbFile, lock, early, pinned, opened, authorityVars, goroutineVars, pipeVars>>

\* Only with a lease, and only one's own.
CleanMetadata(p) ==
    /\ stage[p] = "cleanMetadata"
    /\ metadata' = IF lock = p /\ metadata = p THEN "none" ELSE metadata
    /\ GoTo(p, IF early[p] THEN "unlock" ELSE "unpin")
    /\ UNCHANGED <<dbFile, lock, early, pinned, opened, authorityVars, goroutineVars, pipeVars>>

ClosePinnedDB(p) ==
    /\ stage[p] = "unpin"
    /\ pinned' = [pinned EXCEPT ![p] = 0]
    /\ GoTo(p, IF early[p] THEN "cleanMetadata" ELSE "unlock")
    /\ UNCHANGED <<machineVars, early, opened, authorityVars, goroutineVars, pipeVars>>

\* The lock handle is the last to go, then the process exits.
CloseLockHandle(p) ==
    /\ stage[p] = "unlock"
    /\ ProcessGone(p)

-----------------------------------------------------------------------------

StartupStep(p) ==
    \/ PrepareExistingDB(p)
    \/ AcquireProcessOwnerLease(p)
    \/ WriteMetadata(p)
    \/ WriteMetadataFails(p)
    \/ CreateAndPinDB(p)
    \/ OpenStore(p)
    \/ VerifyPostOpenIdentity(p)
    \/ AcquireGlobalExclusiveScope(p)
    \/ ScanReturns(p)
    \/ StartSchedulers(p)
    \/ StartNamedPipeServer(p)
    \/ ListenHTTP(p)
    \/ StartupFails(p)
    \/ ListenFails(p)

MonitorStep(p) ==
    \/ TickStart(p)
    \/ TickFindsExpired(p)
    \/ AcquireEffect(p)
    \/ ReleaseEffect(p)
    \/ TickReturns(p)
    \/ MonitorEnds(p)

TakeoverStep(p) ==
    \E c \in Clients :
        \/ TakeoverRequested(p, c)
        \/ TakeoverTriggers(p, c)
        \/ TakeoverPanics(p, c)

\* Everything after the daemon has been told to stop, or has failed to start.
ShutdownStep(p) ==
    \/ Drain(p)
    \/ DrainTimesOut(p)
    \/ WaitAllReleased(p)
    \/ StopPoller(p)
    \/ StopMonitor(p)
    \/ CloseStore(p)
    \/ CleanMetadata(p)
    \/ ClosePinnedDB(p)
    \/ CloseLockHandle(p)

HostNext ==
    \/ \E p \in Procs :
         \/ Boot(p)
         \/ StartupStep(p)
         \/ PollOnce(p)
         \/ WatchPoller(p)
         \/ MonitorStep(p)
         \/ TakeoverStep(p)
         \/ CloseListeners(p)
         \/ ShutdownStep(p)
         \/ DaemonKilled(p)
    \/ ReplaceDBFile

\* A daemon that was started goes on, its goroutines run, ticks end by their
\* HTTP timeouts, and the select that sees a closed stopTriggered returns.
\* Nobody has to start, interrupt or kill a daemon.
HostFairness ==
    \A p \in Procs :
        /\ WF_hostVars(StartupStep(p))
        /\ WF_hostVars(PollOnce(p))
        /\ WF_hostVars(WatchPoller(p))
        /\ WF_hostVars(MonitorStep(p))
        /\ WF_hostVars(triggered[p] /\ CloseListeners(p))
        /\ WF_hostVars(ShutdownStep(p))

HostSpec == HostInit /\ [][HostNext]_hostVars /\ HostFairness

-----------------------------------------------------------------------------
(* Properties.                                                             *)

\* A store is open only in the process that holds the owner lock, on the file
\* that process has pinned, which is still the one at the path: through races
\* of several starts, failures at any step, kills and takeovers (R1-001).
StoreOwned ==
    \A p \in Procs : opened[p] # 0 =>
        /\ lock = p
        /\ stage[p] # "verify" => opened[p] = pinned[p] /\ pinned[p] = dbFile

\* Whatever can still write, call AO or answer a probe has an open store under
\* it: no drain timeout, early error or lost join closes the store, or gives
\* away the lock, below a permit holder or a running tick (R1-002, R1-004).
EffectsOwned ==
    \A p \in Procs :
        (permits[p] # {} \/ poller[p] = "tick" \/ monitor[p] \in { "tick", "expired", "effect" } \/ listening[p])
            => opened[p] # 0 /\ lock = p

\* A daemon that was asked to stop cancels its schedulers only when no effect
\* is in flight and none can begin: a kill between its intent and its outcome
\* is waited for beyond the drain timeout, not cut off (R1-002).
DrainSparesEffects ==
    \A p \in Procs : stage[p] \in JoinStages /\ ~early[p] => permits[p] = {} /\ draining[p]

\* While a daemon serves or drains, .owner.json names it: neither a contender
\* that failed nor a predecessor's cleanup has touched the file, so that the
\* stop and status commands reach the owner.
MetadataNamesOwner ==
    \A p \in Procs : stage[p] \in OwnerStages \ { "announce" } => metadata = p

\* A poller that has died is noticed: admission closes, or the process ends.
FailureSurfaces ==
    \A p \in Procs : poller[p] = "failed" ~> (draining[p] \/ stage[p] = "down")

\* A takeover that was acknowledged ends in a released lock, however long an
\* effect in flight takes and whether or not the poller had already died.
StopCompletes ==
    \A p \in Procs : triggered[p] ~> stage[p] = "down"
=============================================================================
