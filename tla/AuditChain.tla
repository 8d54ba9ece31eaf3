----------------------------- MODULE AuditChain -----------------------------
(***************************************************************************)
(* The hash chain of the audit and those who write and read it.            *)
(*                                                                         *)
(* Every write transaction of the store begins IMMEDIATE: it holds the one *)
(* write lock of the database from BEGIN to COMMIT or ROLLBACK, works on   *)
(* its own copy, and appends its audit events with appendAuditEventTx next *)
(* to the rows it changes.  Readers see what is committed.  The writers    *)
(* here are the transactions that move a dispatch operation from           *)
(* DISPATCH_BOUND on, and AppendAuditEvent, which writes one event by      *)
(* itself.  The reader is containAmbiguousSend: the operation, its task    *)
(* and attempt, VerifyAuditChain and ListAuditEvents page by page are      *)
(* separate reads, and the saga decides on what they add up to.            *)
(*                                                                         *)
(* The row of an operation is its stage together with its resolution and   *)
(* the state of its attempt: UNKNOWN is SEND_REQUESTED with the resolution *)
(* DELIVERY_OUTCOME_UNKNOWN, CLOSED is SEND_REQUESTED with a closed        *)
(* attempt.  A hash is the tuple of what it is computed from: SHA-256 is   *)
(* taken to be injective.                                                  *)
(***************************************************************************)
EXTENDS Integers, Sequences, FiniteSets

CONSTANTS
    Ops,        \* dispatch operations, each with the caller that sends it
    EventIDs,   \* the event ids callers of AppendAuditEvent choose
    PageLimit,  \* MaxAuditLimit
    MaxRetries, \* tries of withRetry
    NULL

ASSUME PageLimitAssumption == PageLimit \in Nat \ {0}

\* A caller's event id is a text, never SQL NULL.
ASSUME EventIDsAssumption == NULL \notin EventIDs

ASSUME OpsAssumption == NULL \notin Ops /\ Ops \cap {"observer", "appender"} = {}

VARIABLES
    row,        \* committed: the stage of each operation
    events,     \* committed: the table audit_events, by its primary key
    head,       \* committed: audit_chain_state
    tx,         \* the open write transaction, or NULL
    work,       \* its copy of the audit tables
    pc, view,   \* where each caller is, and what its reread has seen
    failed,     \* callers whose own containment transaction returned an error
    up,         \* the startup sweep is over: callers may run
    append      \* the call of AppendAuditEvent under way, or NULL

dbVars == <<row, events, head>>
txVars == <<tx, work>>
callerVars == <<pc, view, failed>>
vars == <<row, events, head, tx, work, pc, view, failed, up, append>>

-----------------------------------------------------------------------------
(* Rows and events.                                                        *)

Stages == { "DISPATCH_BOUND", "SEND_REQUESTED", "SEND_CONFIRMED", "UNKNOWN", "CLOSED" }

\* The transactions: RecordSendRequested, RecordSendConfirmed,
\* RecordUnknownDelivery and the terminal transition of the observers.
Moves ==
    { <<"DISPATCH_BOUND", "SEND_REQUESTED">>, <<"SEND_REQUESTED", "SEND_CONFIRMED">>,
      <<"SEND_REQUESTED", "UNKNOWN">>, <<"SEND_REQUESTED", "CLOSED">> }

\* The events each appends, in the order in which it appends them.
EventTypes ==
    [ SEND_REQUESTED |-> << "DISPATCH_SEND_REQUESTED" >>,
      SEND_CONFIRMED |-> << "DISPATCH_SEND_CONFIRMED" >>,
      UNKNOWN |-> << "DISPATCHED->FAILED", "UNCERTAIN_DELIVERY_QUARANTINE",
                     "FAILED->HUMAN_REQUIRED" >>,
      CLOSED |-> << "TERMINAL_TRANSITION" >> ]

\* newAuditEventID draws 128 random bits: such an id (NULL) is never taken.
Entry(o, type) == [ id |-> NULL, op |-> o, type |-> type ]

EntriesOf(o, to) == [ i \in DOMAIN EventTypes[to] |-> Entry(o, EventTypes[to][i]) ]

NoteEntry(id) == [ id |-> id, op |-> NULL, type |-> "NOTE" ]

GenesisAuditHash == << >>

ComputeEventHashRaw(seq, entry, prevHash) == << seq, entry, prevHash >>

-----------------------------------------------------------------------------
(* appendAuditEventTx on the copy of the open transaction.                 *)

\* The triggers of audit_events refuse an event whose sequence or id exists.
Replaces(seq, entry) ==
    \E s \in DOMAIN work.events :
        \/ s = seq
        \/ entry.id # NULL /\ work.events[s].entry.id = entry.id

\* Mutant: the event is linked to the head the transaction started from.
appendAuditEventTx_StaleHead(entry) ==
    LET seq == work.head.seq + 1
        new == [ entry |-> entry, prevHash |-> head.hash,
                 hash |-> ComputeEventHashRaw(seq, entry, head.hash) ]
    IN  /\ ~ Replaces(seq, entry)
        /\ work' = [ events |-> [ s \in DOMAIN work.events \cup {seq} |->
                                    IF s = seq THEN new ELSE work.events[s] ],
                     head |-> [ seq |-> seq, hash |-> new.hash ] ]

appendAuditEventTx(entry) ==
    LET seq == work.head.seq + 1
        new == [ entry |-> entry, prevHash |-> work.head.hash,
                 hash |-> ComputeEventHashRaw(seq, entry, work.head.hash) ]
    IN  /\ ~ Replaces(seq, entry)
        /\ work' = [ events |-> [ s \in DOMAIN work.events \cup {seq} |->
                                    IF s = seq THEN new ELSE work.events[s] ],
                     head |-> [ seq |-> seq, hash |-> new.hash ] ]

-----------------------------------------------------------------------------
(* Transactions.  The caller of an operation acts for itself; "observer"   *)
(* is the poller or the startup sweep.                                     *)

\* BEGIN IMMEDIATE and the SELECT that checks the row.
Begin(actor, o, to) ==
    /\ tx = NULL
    /\ <<row[o], to>> \in Moves
    /\ tx' = [ actor |-> actor, op |-> o, to |-> to, left |-> EntriesOf(o, to) ]
    /\ work' = [ events |-> events, head |-> head ]
    /\ UNCHANGED dbVars

\* One appendAuditEventTx.
AppendOne ==
    /\ tx # NULL
    /\ tx.left # << >>
    /\ appendAuditEventTx(Head(tx.left))
    /\ tx' = [tx EXCEPT !.left = Tail(@)]
    /\ UNCHANGED <<dbVars, callerVars, up, append>>

\* Where a caller goes when its transaction has returned.
AfterTx(o, to, ok) ==
    /\ pc' = [pc EXCEPT ![o] =
                CASE to = "SEND_REQUESTED" -> IF ok THEN "send" ELSE "returned"
                  [] to = "SEND_CONFIRMED" -> IF ok THEN "returned" ELSE "readRow"
                  [] to = "UNKNOWN"        -> "readRow"]
    /\ view' = [view EXCEPT
                ![o].said = CASE to = "SEND_REQUESTED" /\ ~ ok -> "error"
                              [] to = "SEND_CONFIRMED" /\ ok   -> "confirmed"
                              [] OTHER                         -> @,
                ![o].again = (to = "UNKNOWN")]
    /\ failed' = IF to = "UNKNOWN" /\ ~ ok THEN failed \cup {o} ELSE failed

\* What the result of the open transaction means to the one who began it.
Report(ok) ==
    \/ /\ tx.actor \in Ops
       /\ AfterTx(tx.op, tx.to, ok)
       /\ UNCHANGED append
    \/ /\ tx.actor = "observer"
       /\ UNCHANGED <<callerVars, append>>
    \/ /\ tx.actor = "appender"
       /\ append' = NULL
       /\ UNCHANGED callerVars

\* The row changes are checked again and COMMIT makes everything visible.
Apply ==
    /\ row' = IF tx.op \in Ops THEN [row EXCEPT ![tx.op] = tx.to] ELSE row
    /\ events' = work.events
    /\ head' = work.head

Close ==
    /\ tx' = NULL
    /\ work' = NULL

Commit ==
    /\ tx # NULL
    /\ tx.left = << >>
    /\ Apply
    /\ Report(TRUE)
    /\ Close
    /\ UNCHANGED up

\* COMMIT returns an error although the transaction is durable.
CommitAnswerLost ==
    /\ tx # NULL
    /\ tx.left = << >>
    /\ Apply
    /\ Report(FALSE)
    /\ Close
    /\ UNCHANGED up

\* Mutant: each event is committed by itself.
TxFails_KeepsEvents ==
    /\ tx # NULL
    /\ events' = work.events
    /\ head' = work.head
    /\ Report(FALSE)
    /\ Close
    /\ UNCHANGED <<row, up>>

\* Any error, of a statement, of sanitizing an event or of COMMIT: ROLLBACK.
TxFails ==
    /\ tx # NULL
    /\ Report(FALSE)
    /\ Close
    /\ UNCHANGED <<dbVars, up>>

-----------------------------------------------------------------------------
(* Dispatch from RecordSendRequested on, and containAmbiguousSend.         *)

\* What a reread has seen, and what the call returned.
FreshView == [ row |-> NULL, tuple |-> NULL, after |-> 0, found |-> {},
               again |-> FALSE, said |-> "none" ]

Goto(o, l) == pc' = [pc EXCEPT ![o] = l]

Say(o, what) ==
    /\ Goto(o, "returned")
    /\ view' = [view EXCEPT ![o] = [FreshView EXCEPT !.said = what]]

Target == [ bound |-> "SEND_REQUESTED", confirm |-> "SEND_CONFIRMED", contain |-> "UNKNOWN" ]

CallerBegins(o) ==
    /\ up
    /\ pc[o] \in DOMAIN Target
    /\ Begin(o, o, Target[pc[o]])
    /\ Goto(o, "tx")
    /\ UNCHANGED <<view, failed, up, append>>

\* The lock stays busy for the whole busy timeout, the row no longer matches,
\* or BEGIN fails otherwise.
CallerRefused(o) ==
    /\ up
    /\ pc[o] \in DOMAIN Target
    /\ AfterTx(o, Target[pc[o]], FALSE)
    /\ UNCHANGED <<dbVars, txVars, up, append>>

\* One POST; everything but a 200 of this session is ambiguous.
SendReturns(o) ==
    /\ up
    /\ pc[o] = "send"
    /\ pc' \in { [pc EXCEPT ![o] = "confirm"], [pc EXCEPT ![o] = "readRow"] }
    /\ UNCHANGED <<dbVars, txVars, view, failed, up, append>>

\* GetDispatchOperation.
ReadRow(o) ==
    /\ up
    /\ pc[o] = "readRow"
    /\ view' = [view EXCEPT ![o].row = row[o]]
    /\ Goto(o, "readTuple")
    /\ UNCHANGED <<dbVars, txVars, failed, up, append>>

\* GetTask and GetTaskAttempt: DISPATCHED and open, or decided meanwhile.
ReadTuple(o) ==
    /\ up
    /\ pc[o] = "readTuple"
    /\ view' = [view EXCEPT ![o].tuple = row[o]]
    /\ Goto(o, "verify")
    /\ UNCHANGED <<dbVars, txVars, failed, up, append>>

\* VerifyAuditChain on one snapshot of the committed tables.
VerifyAuditChain(evs, hd) ==
    IF hd.seq = 0
    THEN hd.hash = GenesisAuditHash /\ DOMAIN evs = {}
    ELSE /\ DOMAIN evs = 1 .. hd.seq
         /\ evs[1].prevHash = GenesisAuditHash
         /\ \A s \in 2 .. hd.seq : evs[s].prevHash = evs[s - 1].hash
         /\ \A s \in 1 .. hd.seq :
              evs[s].hash = ComputeEventHashRaw(s, evs[s].entry, evs[s].prevHash)
         /\ evs[hd.seq].hash = hd.hash

Verify(o) ==
    /\ up
    /\ pc[o] = "verify"
    /\ \/ /\ VerifyAuditChain(events, head)
          /\ Goto(o, "list")
          /\ UNCHANGED view
       \/ /\ ~ VerifyAuditChain(events, head)
          /\ Say(o, "chainInvalid")
    /\ UNCHANGED <<dbVars, txVars, failed, up, append>>

\* ListAuditEvents: the next PageLimit events above the cursor.
Page(after) ==
    { s \in DOMAIN events :
        /\ s > after
        /\ Cardinality({ r \in DOMAIN events : r > after /\ r <= s }) <= PageLimit }

\* Mutant: only the first page is read.
ListPage_FirstOnly(o) ==
    /\ up
    /\ pc[o] = "list"
    /\ LET page == Page(view[o].after) IN
         /\ view' = [view EXCEPT ![o].found =
                       @ \cup { events[s].entry.type : s \in { r \in page : events[r].entry.op = o } }]
         /\ Goto(o, "decide")
    /\ UNCHANGED <<dbVars, txVars, failed, up, append>>

\* Mutant: the cursor is not moved.
ListPage_SameCursor(o) ==
    /\ up
    /\ pc[o] = "list"
    /\ LET page == Page(view[o].after) IN
         /\ view' = [view EXCEPT ![o].found =
                       @ \cup { events[s].entry.type : s \in { r \in page : events[r].entry.op = o } }]
         /\ Goto(o, IF Cardinality(page) < PageLimit THEN "decide" ELSE "list")
    /\ UNCHANGED <<dbVars, txVars, failed, up, append>>

\* One page; a page that is not full is the last one.
ListPage(o) ==
    /\ up
    /\ pc[o] = "list"
    /\ LET page == Page(view[o].after) IN
         /\ view' = [view EXCEPT
              ![o].found = @ \cup { events[s].entry.type :
                                      s \in { r \in page : events[r].entry.op = o } },
              ![o].after = IF page = {} THEN @ ELSE @ + Cardinality(page)]
         /\ Goto(o, IF Cardinality(page) < PageLimit THEN "decide" ELSE "list")
    /\ UNCHANGED <<dbVars, txVars, failed, up, append>>

SeenConfirmed(v) == v.row = "SEND_CONFIRMED" /\ "DISPATCH_SEND_CONFIRMED" \in v.found

SeenUnknown(v) ==
    /\ v.row = "UNKNOWN"
    /\ { EventTypes.UNKNOWN[i] : i \in DOMAIN EventTypes.UNKNOWN } \subseteq v.found

SeenIntent(v) ==
    /\ v.row \in { "SEND_REQUESTED", "CLOSED" }
    /\ v.tuple = "SEND_REQUESTED"
    /\ "DISPATCH_SEND_REQUESTED" \in v.found

\* The decision after the first reread.
DecideFirst(o) ==
    /\ up
    /\ pc[o] = "decide"
    /\ ~ view[o].again
    /\ LET v == view[o] IN
         \/ SeenConfirmed(v) /\ Say(o, "confirmed")
         \/ SeenUnknown(v) /\ Say(o, "unknown")
         \/ SeenIntent(v) /\ Goto(o, "contain") /\ view' = [view EXCEPT ![o] = FreshView]
         \/ /\ ~ SeenConfirmed(v) /\ ~ SeenUnknown(v) /\ ~ SeenIntent(v)
            /\ Say(o, "notTheIntent")
    /\ UNCHANGED <<dbVars, txVars, failed, up, append>>

\* The decision after RecordUnknownDelivery.
DecideAgain(o) ==
    /\ up
    /\ pc[o] = "decide"
    /\ view[o].again
    /\ Say(o, IF SeenUnknown(view[o]) /\ view[o].tuple = "UNKNOWN"
              THEN "unknown" ELSE "recoveryRequired")
    /\ UNCHANGED <<dbVars, txVars, failed, up, append>>

\* A read of the reread returns an error.
ReadFails(o) ==
    /\ up
    /\ pc[o] \in { "readRow", "readTuple", "verify", "list" }
    /\ Say(o, "error")
    /\ UNCHANGED <<dbVars, txVars, failed, up, append>>

-----------------------------------------------------------------------------
(* AppendAuditEvent, the observers, crash and restart.                     *)

\* A call with an event id of the caller's choice.
AppendAuditEvent(id) ==
    /\ up
    /\ append = NULL
    /\ append' = [ id |-> id, tries |-> 0 ]
    /\ UNCHANGED <<dbVars, txVars, callerVars, up>>

AppendBegins ==
    /\ append # NULL
    /\ tx = NULL
    /\ tx' = [ actor |-> "appender", op |-> NULL, to |-> NULL,
               left |-> << NoteEntry(append.id) >> ]
    /\ work' = [ events |-> events, head |-> head ]
    /\ UNCHANGED <<dbVars, callerVars, up, append>>

\* withRetry: a busy database is tried again, up to the bound.
AppendRetries ==
    /\ append # NULL
    /\ tx # NULL
    /\ tx.actor # "appender"
    /\ append' = IF append.tries + 1 = MaxRetries THEN NULL
                 ELSE [append EXCEPT !.tries = @ + 1]
    /\ UNCHANGED <<dbVars, txVars, callerVars, up>>

\* A poll tick that ends the attempt of an intent still in the air.
ObserverCloses(o) ==
    /\ up
    /\ Begin("observer", o, "CLOSED")
    /\ UNCHANGED <<callerVars, up, append>>

\* The startup sweep contains every intent the last process left behind.
SweepContains(o) ==
    /\ ~ up
    /\ Begin("observer", o, "UNKNOWN")
    /\ UNCHANGED <<callerVars, up, append>>

SweepEnds ==
    /\ ~ up
    /\ tx = NULL
    /\ \A o \in Ops : row[o] # "SEND_REQUESTED"
    /\ up' = TRUE
    /\ UNCHANGED <<dbVars, txVars, callerVars, append>>

\* The process dies: the open transaction is gone, the committed tables stay.
Crash ==
    /\ tx' = NULL
    /\ work' = NULL
    /\ pc' = [o \in Ops |-> IF row[o] = "DISPATCH_BOUND" THEN "bound" ELSE "gone"]
    /\ view' = [o \in Ops |-> FreshView]
    /\ failed' = {}
    /\ up' = FALSE
    /\ append' = NULL
    /\ UNCHANGED dbVars

-----------------------------------------------------------------------------
Init ==
    /\ row = [o \in Ops |-> "DISPATCH_BOUND"]
    /\ events = [s \in {} |-> NULL]
    /\ head = [ seq |-> 0, hash |-> GenesisAuditHash ]
    /\ tx = NULL
    /\ work = NULL
    /\ pc = [o \in Ops |-> "bound"]
    /\ view = [o \in Ops |-> FreshView]
    /\ failed = {}
    /\ up = TRUE
    /\ append = NULL

Transaction == AppendOne \/ Commit \/ CommitAnswerLost \/ TxFails

Reread(o) ==
    \/ ReadRow(o)
    \/ ReadTuple(o)
    \/ Verify(o)
    \/ ListPage(o)
    \/ DecideFirst(o)
    \/ DecideAgain(o)

Caller(o) ==
    \/ CallerBegins(o)
    \/ CallerRefused(o)
    \/ SendReturns(o)
    \/ Reread(o)

Next ==
    \/ Transaction
    \/ \E o \in Ops : Caller(o) \/ ReadFails(o) \/ ObserverCloses(o) \/ SweepContains(o)
    \/ \E id \in EventIDs : AppendAuditEvent(id)
    \/ AppendBegins
    \/ AppendRetries
    \/ SweepEnds
    \/ Crash

\* A transaction runs to its end, and a caller that can step does: each is
\* code of a running goroutine.  Nothing promises that a read fails.
Spec == Init /\ [][Next]_vars /\ WF_vars(Transaction) /\ \A o \in Ops : WF_vars(Caller(o))

-----------------------------------------------------------------------------
(* Properties.                                                             *)

Labels ==
    { "bound", "tx", "send", "confirm", "readRow", "readTuple", "verify", "list", "decide",
      "contain", "returned", "gone" }

Types ==
    { "DISPATCH_SEND_REQUESTED", "DISPATCH_SEND_CONFIRMED", "DISPATCHED->FAILED",
      "UNCERTAIN_DELIVERY_QUARANTINE", "FAILED->HUMAN_REQUIRED", "TERMINAL_TRANSITION", "NOTE" }

EntryRows == [ id : EventIDs \cup {NULL}, op : Ops \cup {NULL}, type : Types ]

TxRows ==
    [ actor : Ops \cup {"observer", "appender"}, op : Ops \cup {NULL}, to : Stages \cup {NULL},
      left : Seq(EntryRows) ]

ViewRows ==
    [ row : Stages \cup {NULL}, tuple : Stages \cup {NULL}, after : Nat, found : SUBSET Types,
      again : BOOLEAN,
      said : { "none", "error", "confirmed", "unknown", "notTheIntent", "recoveryRequired",
               "chainInvalid" } ]

\* Rows hold a stage the schema allows, every event an entry some transaction
\* may write, and callers are at a label of the code with what they have read.
AuditTypeOK ==
    /\ row \in [Ops -> Stages]
    /\ head.seq \in Nat
    /\ DOMAIN events = 1 .. head.seq
    /\ \A s \in 1 .. head.seq : events[s].entry \in EntryRows
    /\ tx # NULL => tx \in TxRows
    /\ pc \in [Ops -> Labels]
    /\ view \in [Ops -> ViewRows]
    /\ failed \subseteq Ops
    /\ up \in BOOLEAN
    /\ append # NULL => append \in [ id : EventIDs, tries : Nat ]

\* VerifyAuditChain accepts every committed snapshot: contiguous sequences
\* from 1, every link, every hash and the head, whoever wrote, was refused,
\* rolled back or crashed in between (atomic_transitions.go,
\* appendAuditEventTx; containment gives up on a chain that does not verify).
ChainVerifies == VerifyAuditChain(events, head)

\* containAmbiguousSend reads row, tuple, chain and pages separately, while
\* others commit in between.  What it returns is true all the same: confirmed
\* and unknown are what the row says, "not the exact intent" is never said of
\* an intent nobody has decided, and one that is left undecided after the
\* containment is one whose containment transaction failed.
ContainmentSound ==
    \A o \in Ops :
        up /\ pc[o] = "returned" =>
            /\ view[o].said = "confirmed" => row[o] = "SEND_CONFIRMED"
            /\ view[o].said = "unknown" => row[o] = "UNKNOWN"
            /\ view[o].said = "notTheIntent" => row[o] # "SEND_REQUESTED"
            /\ view[o].said = "recoveryRequired" => row[o] # "SEND_REQUESTED" \/ o \in failed
            /\ view[o].said # "chainInvalid"

\* The reread comes to an end: every page moves the cursor of
\* ListAuditEvents, also while others append.
ContainmentReturns ==
    \A o \in Ops : pc[o] = "readRow" ~> pc[o] \in { "returned", "gone" }

Trail == INSTANCE AuditTrail WITH
    Decisions <- Moves,
    Entries   <- EntriesOf,
    Notes     <- { NoteEntry(id) : id \in EventIDs },
    decided   <- row,
    trail     <- [ s \in DOMAIN events |-> events[s].entry ]

\* The tables implement AuditTrail: an append-only trail that grows by whole
\* groups of events, each with the decision it records.
ImplementsAuditTrail == Trail!TrailSpec
=============================================================================
