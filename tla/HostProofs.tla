----------------------------- MODULE HostProofs -----------------------------
(***************************************************************************)
(* Proofs about Host, for any number of daemons, files and clients.        *)
(*                                                                         *)
(* Who owns the store is spread over the lock, the pinned file, the path   *)
(* and the place where each daemon is, so none of the invariants the runs  *)
(* check is inductive.  The inductive invariant says of every daemon what  *)
(* it holds at each stage (Held), what may be running in it (Runs) and     *)
(* whom the metadata names (Announced).                                    *)
(***************************************************************************)
EXTENDS Host, TLAPS

\* Between a successful open and the close of the store.
OpenStages == { "verify", "scan", "scanning", "schedule", "pipe", "listen", "serving",
                "drain", "draining", "waiting", "joinPoller", "joinMonitor" }

\* Before the open and after the close.
ClosedStages == { "down", "pin", "lease", "announce", "create", "open",
                  "cleanMetadata", "unpin", "unlock" }

\* While the poller's and the monitor's goroutine can be alive.
PollerStages == { "pipe", "listen", "serving", "drain", "draining", "waiting", "joinPoller" }
MonitorStages == PollerStages \cup { "joinMonitor" }

\* What a daemon holds: the lock from the lease to the joins, a handle that
\* keeps the file at the path, and a store on that very file.
Held(p) ==
    /\ stage[p] \in OwnerStages \cup JoinStages => lock = p
    /\ opened[p] # 0 => lock = p /\ opened[p] = pinned[p]
    /\ pinned[p] # 0 => pinned[p] = dbFile
    /\ stage[p] \in OpenStages \cup { "open" } => pinned[p] # 0
    /\ stage[p] \in OpenStages => opened[p] # 0
    /\ stage[p] \in ClosedStages => opened[p] = 0

\* What runs in it: each permit has its holder, goroutines and listeners live
\* only while the store is open, and a drain leaves nothing in flight.
Runs(p) ==
    /\ "scan" \in permits[p] => stage[p] = "scanning"
    /\ "effect" \in permits[p] => monitor[p] = "effect"
    /\ poller[p] \in { "idle", "tick" } => stage[p] \in PollerStages
    /\ monitor[p] \in { "idle", "tick", "expired", "effect" } => stage[p] \in MonitorStages
    /\ listening[p] => stage[p] \in { "listen", "serving" }
    /\ stage[p] \in { "draining", "waiting" } => draining[p]
    /\ stage[p] \in JoinStages /\ ~early[p] => permits[p] = {} /\ draining[p]

Announced(p) == stage[p] \in OwnerStages \ { "announce" } => metadata = p

HostInv ==
    /\ HostTypeOK
    /\ \A p \in Procs : Held(p) /\ Runs(p) /\ Announced(p)

-----------------------------------------------------------------------------
(* The state a step speaks of, as one fact per tuple and per set of stages.*)

USE DEF Stages, BootStages, OwnerStages, JoinStages, CloseStages, OpenStages, ClosedStages,
        PollerStages, MonitorStages, GoTo, PollerCancelled, MonitorCancelled,
        machineVars, daemonVars, authorityVars, goroutineVars, pipeVars

-----------------------------------------------------------------------------
(* One lemma per part of the daemon, one case per action.                  *)

\* Starting keeps the invariant, whatever step fails: an existing file is pinned
\* before the lease, a new one is made under it (runDaemon, steps 1 to 10).
LEMMA StartupKeepsInv ==
    ASSUME HostInv, NEW p \in Procs, StartupStep(p)
    PROVE  HostInv'
<1>1. CASE PrepareExistingDB(p)
  BY <1>1, HostAssumption DEF HostInv, HostTypeOK, Held, Runs, Announced, PrepareExistingDB
<1>2. CASE AcquireProcessOwnerLease(p)
  BY <1>2, HostAssumption DEF HostInv, HostTypeOK, Held, Runs, Announced, AcquireProcessOwnerLease
<1>3. CASE WriteMetadata(p)
  BY <1>3, HostAssumption DEF HostInv, HostTypeOK, Held, Runs, Announced, WriteMetadata
<1>4. CASE WriteMetadataFails(p)
  BY <1>4, HostAssumption DEF HostInv, HostTypeOK, Held, Runs, Announced, WriteMetadataFails
<1>5. CASE CreateAndPinDB(p)
  BY <1>5, HostAssumption DEF HostInv, HostTypeOK, Held, Runs, Announced, CreateAndPinDB
<1>6. CASE OpenStore(p)
  BY <1>6, HostAssumption DEF HostInv, HostTypeOK, Held, Runs, Announced, OpenStore
<1>7. CASE VerifyPostOpenIdentity(p)
  BY <1>7, HostAssumption DEF HostInv, HostTypeOK, Held, Runs, Announced, VerifyPostOpenIdentity
<1>8. CASE AcquireGlobalExclusiveScope(p)
  BY <1>8, HostAssumption DEF HostInv, HostTypeOK, Held, Runs, Announced, AcquireGlobalExclusiveScope
<1>9. CASE ScanReturns(p)
  <2>1. CASE GoTo(p, "schedule") /\ UNCHANGED early
    BY <1>9, <2>1, HostAssumption DEF HostInv, HostTypeOK, Held, Runs, Announced, ScanReturns
  <2>2. CASE GoTo(p, "closeStore") /\ early' = [early EXCEPT ![p] = TRUE]
    BY <1>9, <2>2, HostAssumption DEF HostInv, HostTypeOK, Held, Runs, Announced, ScanReturns
  <2>3. QED
    BY <1>9, <2>1, <2>2 DEF ScanReturns
<1>10. CASE StartSchedulers(p)
  BY <1>10, HostAssumption DEF HostInv, HostTypeOK, Held, Runs, Announced, StartSchedulers
<1>11. CASE StartNamedPipeServer(p)
  BY <1>11, HostAssumption DEF HostInv, HostTypeOK, Held, Runs, Announced, StartNamedPipeServer
<1>12. CASE ListenHTTP(p)
  BY <1>12, HostAssumption DEF HostInv, HostTypeOK, Held, Runs, Announced, ListenHTTP
<1>13. CASE StartupFails(p)
  BY <1>13, HostAssumption DEF HostInv, HostTypeOK, Held, Runs, Announced, StartupFails
<1>14. CASE ListenFails(p)
  BY <1>14, HostAssumption DEF HostInv, HostTypeOK, Held, Runs, Announced, ListenFails
<1>15. QED
  BY <1>1, <1>2, <1>3, <1>4, <1>5, <1>6, <1>7, <1>8, <1>9, <1>10, <1>11, <1>12, <1>13, <1>14 DEF StartupStep

\* So does the timeout monitor, whose effect holds a permit.
LEMMA MonitorKeepsInv ==
    ASSUME HostInv, NEW p \in Procs, MonitorStep(p)
    PROVE  HostInv'
<1>1. CASE TickStart(p)
  BY <1>1, HostAssumption DEF HostInv, HostTypeOK, Held, Runs, Announced, TickStart
<1>2. CASE TickFindsExpired(p)
  BY <1>2, HostAssumption DEF HostInv, HostTypeOK, Held, Runs, Announced, TickFindsExpired
<1>3. CASE AcquireEffect(p)
  BY <1>3, HostAssumption DEF HostInv, HostTypeOK, Held, Runs, Announced, AcquireEffect
<1>4. CASE ReleaseEffect(p)
  BY <1>4, HostAssumption DEF HostInv, HostTypeOK, Held, Runs, Announced, ReleaseEffect
<1>5. CASE TickReturns(p)
  <2>1. CASE UNCHANGED draining
    BY <1>5, <2>1, HostAssumption DEF HostInv, HostTypeOK, Held, Runs, Announced, TickReturns
  <2>2. CASE ~MonitorCancelled(p) /\ draining' = [draining EXCEPT ![p] = TRUE]
    BY <1>5, <2>2, HostAssumption DEF HostInv, HostTypeOK, Held, Runs, Announced, TickReturns
  <2>3. QED
    BY <1>5, <2>1, <2>2 DEF TickReturns
<1>6. CASE MonitorEnds(p)
  BY <1>6, HostAssumption DEF HostInv, HostTypeOK, Held, Runs, Announced, MonitorEnds
<1>7. QED
  BY <1>1, <1>2, <1>3, <1>4, <1>5, <1>6 DEF MonitorStep

\* So does the way out, from the drain to the lock handle, after a stop and
\* after an error during the start.
LEMMA ShutdownKeepsInv ==
    ASSUME HostInv, NEW p \in Procs, ShutdownStep(p)
    PROVE  HostInv'
<1>1. CASE Drain(p)
  BY <1>1, HostAssumption DEF HostInv, HostTypeOK, Held, Runs, Announced, Drain
<1>2. CASE DrainTimesOut(p)
  BY <1>2, HostAssumption DEF HostInv, HostTypeOK, Held, Runs, Announced, DrainTimesOut
<1>3. CASE WaitAllReleased(p)
  BY <1>3, HostAssumption DEF HostInv, HostTypeOK, Held, Runs, Announced, WaitAllReleased
<1>4. CASE StopPoller(p)
  BY <1>4, HostAssumption DEF HostInv, HostTypeOK, Held, Runs, Announced, StopPoller
<1>5. CASE StopMonitor(p)
  BY <1>5, HostAssumption DEF HostInv, HostTypeOK, Held, Runs, Announced, StopMonitor
<1>6. CASE CloseStore(p)
  BY <1>6, HostAssumption DEF HostInv, HostTypeOK, Held, Runs, Announced, CloseStore
<1>7. CASE CleanMetadata(p)
  BY <1>7, HostAssumption DEF HostInv, HostTypeOK, Held, Runs, Announced, CleanMetadata
<1>8. CASE ClosePinnedDB(p)
  BY <1>8, HostAssumption DEF HostInv, HostTypeOK, Held, Runs, Announced, ClosePinnedDB
<1>9. CASE CloseLockHandle(p)
  BY <1>9, HostAssumption DEF HostInv, HostTypeOK, Held, Runs, Announced, CloseLockHandle, ProcessGone
<1>10. QED
  BY <1>1, <1>2, <1>3, <1>4, <1>5, <1>6, <1>7, <1>8, <1>9 DEF ShutdownStep

\* The poller and its watcher keep it: a tick has an open store under it, and a
\* failure only closes admission.
LEMMA PollerKeepsInv ==
    ASSUME HostInv, NEW p \in Procs, PollOnce(p) \/ WatchPoller(p)
    PROVE  HostInv'
<1>1. CASE PollOnce(p)
  <2>1. CASE poller[p] = "idle" /\ ~PollerCancelled(p) /\ poller' = [poller EXCEPT ![p] = "tick"]
    BY <1>1, <2>1, HostAssumption DEF HostInv, HostTypeOK, Held, Runs, Announced, PollOnce
  <2>2. CASE poller[p] = "tick" /\ poller' = [poller EXCEPT ![p] = "idle"]
    BY <1>1, <2>2, HostAssumption DEF HostInv, HostTypeOK, Held, Runs, Announced, PollOnce
  <2>3. CASE poller[p] = "tick" /\ poller' = [poller EXCEPT ![p] = "failed"]
    BY <1>1, <2>3, HostAssumption DEF HostInv, HostTypeOK, Held, Runs, Announced, PollOnce
  <2>4. CASE /\ poller[p] \in { "idle", "tick" } /\ PollerCancelled(p)
             /\ poller' = [poller EXCEPT ![p] = "ended"]
    BY <1>1, <2>4, HostAssumption DEF HostInv, HostTypeOK, Held, Runs, Announced, PollOnce
  <2>5. QED
    BY <1>1, <2>1, <2>2, <2>3, <2>4 DEF PollOnce
<1>2. CASE WatchPoller(p)
  <2>1. CASE draining' = [draining EXCEPT ![p] = TRUE]
    BY <1>2, <2>1, HostAssumption DEF HostInv, HostTypeOK, Held, Runs, Announced, WatchPoller
  <2>2. CASE UNCHANGED draining
    BY <1>2, <2>2, HostAssumption DEF HostInv, HostTypeOK, Held, Runs, Announced, WatchPoller
  <2>3. QED
    BY <1>2, <2>1, <2>2 DEF WatchPoller
<1>3. QED
  BY <1>1, <1>2

\* A takeover keeps it, also when two handlers close the channel and the process
\* is gone.
LEMMA TakeoverKeepsInv ==
    ASSUME HostInv, NEW p \in Procs, TakeoverStep(p)
    PROVE  HostInv'
<1> PICK c \in Clients :
        TakeoverRequested(p, c) \/ TakeoverTriggers(p, c) \/ TakeoverPanics(p, c)
  BY DEF TakeoverStep
<1>1. CASE TakeoverRequested(p, c)
  BY <1>1, HostAssumption DEF HostInv, HostTypeOK, Held, Runs, Announced, TakeoverRequested
<1>2. CASE TakeoverTriggers(p, c)
  BY <1>2, HostAssumption DEF HostInv, HostTypeOK, Held, Runs, Announced, TakeoverTriggers
<1>3. CASE TakeoverPanics(p, c)
  BY <1>3, HostAssumption DEF HostInv, HostTypeOK, Held, Runs, Announced, TakeoverPanics, ProcessGone
<1>4. QED
  BY <1>1, <1>2, <1>3

\* What a daemon holds and runs is an invariant of any number of daemons that
\* race for one database, fail, are killed, taken over and drained.
THEOREM HostInvariant == HostSpec => []HostInv
<1>1. HostInit => HostInv
  BY HostAssumption DEF HostInit, HostInv, HostTypeOK, Held, Runs, Announced
<1>2. HostInv /\ [HostNext]_hostVars => HostInv'
  <2> SUFFICES ASSUME HostInv, [HostNext]_hostVars
               PROVE  HostInv'
    OBVIOUS
  <2>1. CASE UNCHANGED hostVars
    BY <2>1 DEF HostInv, HostTypeOK, Held, Runs, Announced, hostVars
  <2>2. CASE ReplaceDBFile
    BY <2>2, HostAssumption DEF HostInv, HostTypeOK, Held, Runs, Announced, ReplaceDBFile
  <2>3. ASSUME NEW p \in Procs, Boot(p)
        PROVE  HostInv'
    BY <2>3, HostAssumption DEF HostInv, HostTypeOK, Held, Runs, Announced, Boot
  <2>4. ASSUME NEW p \in Procs, CloseListeners(p)
        PROVE  HostInv'
    BY <2>4, HostAssumption DEF HostInv, HostTypeOK, Held, Runs, Announced, CloseListeners
  <2>5. ASSUME NEW p \in Procs, DaemonKilled(p)
        PROVE  HostInv'
    BY <2>5, HostAssumption DEF HostInv, HostTypeOK, Held, Runs, Announced, DaemonKilled, ProcessGone
  <2>6. QED
    BY <2>1, <2>2, <2>3, <2>4, <2>5, StartupKeepsInv, MonitorKeepsInv, ShutdownKeepsInv,
       PollerKeepsInv, TakeoverKeepsInv DEF HostNext
<1>3. QED
  BY <1>1, <1>2, PTL DEF HostSpec

\* The state of machine and daemons stays well typed.
THEOREM HostTypeCorrect == HostSpec => []HostTypeOK
<1>1. HostInv => HostTypeOK
  BY DEF HostInv
<1>2. QED
  BY <1>1, HostInvariant, PTL

\* A store is open only under the owner lock, on the pinned file at the path.
THEOREM StoreIsOwned == HostSpec => []StoreOwned
<1>1. HostInv => StoreOwned
  BY DEF HostInv, HostTypeOK, Held, StoreOwned
<1>2. QED
  BY <1>1, HostInvariant, PTL

\* Permits, ticks and listeners live only over an open store and a held lock.
THEOREM EffectsAreOwned == HostSpec => []EffectsOwned
<1>1. HostInv => EffectsOwned
  BY DEF HostInv, HostTypeOK, Held, Runs, EffectsOwned
<1>2. QED
  BY <1>1, HostInvariant, PTL

\* The schedulers of a stopped daemon are cancelled with nothing in flight.
THEOREM DrainIsPatient == HostSpec => []DrainSparesEffects
<1>1. HostInv => DrainSparesEffects
  BY DEF HostInv, Runs, DrainSparesEffects
<1>2. QED
  BY <1>1, HostInvariant, PTL

\* .owner.json names the daemon that serves.
THEOREM MetadataIsCurrent == HostSpec => []MetadataNamesOwner
<1>1. HostInv => MetadataNamesOwner
  BY DEF HostInv, Announced, MetadataNamesOwner
<1>2. QED
  BY <1>1, HostInvariant, PTL
=============================================================================
