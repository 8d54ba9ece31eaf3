---------------------------- MODULE AuditProofs ----------------------------
(***************************************************************************)
(* Theorems about AuditChain, for every set of operations and event ids    *)
(* and every page size.  The committed tables and the copy of the open     *)
(* transaction are both chains; the copy is the committed chain with the   *)
(* first part of one group of entries behind it.  A caller's reread is     *)
(* sound because rows only move forward and committed events never change. *)
(***************************************************************************)
EXTENDS AuditChain, FiniteSetTheorems, TLAPS

USE DEF dbVars, txVars, callerVars, vars

-----------------------------------------------------------------------------
(* The chain.                                                              *)

\* Contiguous sequences from 1 with every link, every hash and the head.
Linked(evs, hd) ==
    /\ hd.seq \in Nat
    /\ DOMAIN evs = 1 .. hd.seq
    /\ \A s \in 1 .. hd.seq : evs[s].entry \in EntryRows
    /\ hd.seq = 0 => hd.hash = GenesisAuditHash
    /\ hd.seq > 0 => evs[1].prevHash = GenesisAuditHash /\ evs[hd.seq].hash = hd.hash
    /\ \A s \in 2 .. hd.seq : evs[s].prevHash = evs[s - 1].hash
    /\ \A s \in 1 .. hd.seq :
          evs[s].hash = ComputeEventHashRaw(s, evs[s].entry, evs[s].prevHash)

\* VerifyAuditChain accepts such tables.
LEMMA LinkedVerifies ==
    ASSUME NEW evs, NEW hd, Linked(evs, hd)
    PROVE  VerifyAuditChain(evs, hd)
<1>1. CASE hd.seq = 0
  BY <1>1 DEF Linked, VerifyAuditChain
<1>2. CASE hd.seq # 0
  BY <1>2 DEF Linked, VerifyAuditChain
<1> QED BY <1>1, <1>2

\* appendAuditEventTx adds one event behind the head of the copy.
LEMMA AppendExtends ==
    ASSUME NEW entry, Linked(work.events, work.head), appendAuditEventTx(entry)
    PROVE  /\ work'.head.seq = work.head.seq + 1
           /\ DOMAIN work'.events = 1 .. (work.head.seq + 1)
           /\ \A s \in 1 .. work.head.seq : work'.events[s] = work.events[s]
           /\ work'.events[work.head.seq + 1].entry = entry
           /\ work'.events[work.head.seq + 1].prevHash = work.head.hash
           /\ work'.events[work.head.seq + 1].hash =
                 ComputeEventHashRaw(work.head.seq + 1, entry, work.head.hash)
           /\ work'.head.hash = work'.events[work.head.seq + 1].hash
<1> DEFINE n == work.head.seq
<1> DEFINE new == [ entry |-> entry, prevHash |-> work.head.hash,
                    hash |-> ComputeEventHashRaw(n + 1, entry, work.head.hash) ]
<1>1. n \in Nat /\ DOMAIN work.events = 1 .. n
  BY DEF Linked
<1>2. work' = [ events |-> [ s \in DOMAIN work.events \cup {n + 1} |->
                               IF s = n + 1 THEN new ELSE work.events[s] ],
                head |-> [ seq |-> n + 1, hash |-> new.hash ] ]
  BY DEF appendAuditEventTx
<1>3. DOMAIN work.events \cup {n + 1} = 1 .. (n + 1)
  BY <1>1
<1>4. /\ work'.head = [ seq |-> n + 1, hash |-> new.hash ]
      /\ work'.events = [ s \in 1 .. (n + 1) |-> IF s = n + 1 THEN new ELSE work.events[s] ]
  BY <1>2, <1>3
<1>5. /\ new.entry = entry
      /\ new.prevHash = work.head.hash
      /\ new.hash = ComputeEventHashRaw(n + 1, entry, work.head.hash)
  OBVIOUS
<1> HIDE DEF new
<1> QED BY <1>1, <1>4, <1>5

\* It keeps the chain linked.
LEMMA AppendLinks ==
    ASSUME NEW entry \in EntryRows, Linked(work.events, work.head), appendAuditEventTx(entry)
    PROVE  Linked(work'.events, work'.head)
<1> DEFINE n == work.head.seq
           evs == work'.events
           hd == work'.head
<1>e. /\ hd.seq = n + 1
      /\ DOMAIN evs = 1 .. (n + 1)
      /\ \A s \in 1 .. n : evs[s] = work.events[s]
      /\ evs[n + 1].entry = entry
      /\ evs[n + 1].prevHash = work.head.hash
      /\ evs[n + 1].hash = ComputeEventHashRaw(n + 1, entry, work.head.hash)
      /\ hd.hash = evs[n + 1].hash
  BY AppendExtends
<1>o. /\ n \in Nat
      /\ \A s \in 1 .. n : work.events[s].entry \in EntryRows
      /\ n = 0 => work.head.hash = GenesisAuditHash
      /\ n > 0 => work.events[1].prevHash = GenesisAuditHash /\ work.events[n].hash = work.head.hash
      /\ \A s \in 2 .. n : work.events[s].prevHash = work.events[s - 1].hash
      /\ \A s \in 1 .. n :
           work.events[s].hash =
             ComputeEventHashRaw(s, work.events[s].entry, work.events[s].prevHash)
  BY DEF Linked
<1> HIDE DEF n, evs, hd
<1>1. \A s \in 1 .. (n + 1) : evs[s].entry \in EntryRows
  BY <1>e, <1>o
<1>2. evs[1].prevHash = GenesisAuditHash
  <2>1. CASE n = 0
    BY <2>1, <1>e, <1>o
  <2>2. CASE n > 0
    BY <2>2, <1>e, <1>o
  <2> QED BY <2>1, <2>2, <1>o
<1>3. \A s \in 2 .. (n + 1) : evs[s].prevHash = evs[s - 1].hash
  <2> SUFFICES ASSUME NEW s \in 2 .. (n + 1) PROVE evs[s].prevHash = evs[s - 1].hash
    OBVIOUS
  <2>1. CASE s = n + 1
    BY <2>1, <1>e, <1>o
  <2>2. CASE s # n + 1
    BY <2>2, <1>e, <1>o
  <2> QED BY <2>1, <2>2
<1>4. \A s \in 1 .. (n + 1) : evs[s].hash = ComputeEventHashRaw(s, evs[s].entry, evs[s].prevHash)
  <2> SUFFICES ASSUME NEW s \in 1 .. (n + 1)
               PROVE  evs[s].hash = ComputeEventHashRaw(s, evs[s].entry, evs[s].prevHash)
    OBVIOUS
  <2>1. CASE s = n + 1
    BY <2>1, <1>e
  <2>2. CASE s # n + 1
    BY <2>2, <1>e, <1>o
  <2> QED BY <2>1, <2>2
<1>5. Linked(evs, hd)
  BY <1>e, <1>o, <1>1, <1>2, <1>3, <1>4 DEF Linked
<1> QED BY <1>5 DEF evs, hd

-----------------------------------------------------------------------------
(* The open transaction.                                                   *)

\* The entries a transaction is to append: those of a step it has checked the
\* row for, or one note whose id was not taken.
Grouped(all) ==
    \/ /\ tx.op \in Ops
       /\ <<row[tx.op], tx.to>> \in Moves
       /\ all = EntriesOf(tx.op, tx.to)
    \/ /\ tx.op = NULL
       /\ \E id \in EventIDs : all = << NoteEntry(id) >>
       /\ work.head.seq > head.seq => \A s \in 1 .. head.seq : events[s].entry # all[1]

\* The copy is the committed chain followed by the entries no longer left.
Carries(all) ==
    /\ work.head.seq \in Nat
    /\ work.head.seq >= head.seq
    /\ \A s \in 1 .. head.seq : work.events[s] = events[s]
    /\ work.head.seq + Len(tx.left) = head.seq + Len(all)
    /\ \A i \in 1 .. (work.head.seq - head.seq) : work.events[head.seq + i].entry = all[i]
    /\ \A i \in 1 .. Len(tx.left) : tx.left[i] = all[(work.head.seq - head.seq) + i]

CopyInv ==
    tx # NULL =>
        /\ Linked(work.events, work.head)
        /\ \E all \in Seq(EntryRows) : Grouped(all) /\ Carries(all)

\* The caller that began the transaction waits for it.
HolderInv ==
    tx # NULL /\ tx.actor \in Ops =>
        /\ tx.op = tx.actor
        /\ pc[tx.op] = "tx"
        /\ tx.to \in { "SEND_REQUESTED", "SEND_CONFIRMED", "UNKNOWN" }

\* The entries of a step are a sequence of entries, the first one included.
LEMMA EntriesTyped ==
    ASSUME NEW o \in Ops, NEW from, NEW to, <<from, to>> \in Moves
    PROVE  /\ EntriesOf(o, to) \in Seq(EntryRows)
           /\ Len(EntriesOf(o, to)) > 0
           /\ to \in Stages
           /\ from = "DISPATCH_BOUND" =>
                 /\ to = "SEND_REQUESTED"
                 /\ EntriesOf(o, to)[1] = Entry(o, "DISPATCH_SEND_REQUESTED")
<1>1. to \in { "SEND_REQUESTED", "SEND_CONFIRMED", "UNKNOWN", "CLOSED" }
  BY DEF Moves
<1>2. EventTypes[to] \in Seq(Types) /\ Len(EventTypes[to]) > 0
  <2>1. CASE to = "SEND_REQUESTED"
    BY <2>1 DEF EventTypes, Types
  <2>2. CASE to = "SEND_CONFIRMED"
    BY <2>2 DEF EventTypes, Types
  <2>3. CASE to = "UNKNOWN"
    BY <2>3 DEF EventTypes, Types
  <2>4. CASE to = "CLOSED"
    BY <2>4 DEF EventTypes, Types
  <2> QED BY <1>1, <2>1, <2>2, <2>3, <2>4
<1>3. \A i \in DOMAIN EventTypes[to] : Entry(o, EventTypes[to][i]) \in EntryRows
  BY <1>2 DEF Entry, EntryRows
<1>4. EntriesOf(o, to) \in Seq(EntryRows) /\ Len(EntriesOf(o, to)) = Len(EventTypes[to])
  BY <1>2, <1>3 DEF EntriesOf
<1>5. from = "DISPATCH_BOUND" => to = "SEND_REQUESTED"
  BY DEF Moves
<1>6. to = "SEND_REQUESTED" => EntriesOf(o, to)[1] = Entry(o, "DISPATCH_SEND_REQUESTED")
  BY DEF EntriesOf, EventTypes
<1> QED BY <1>1, <1>2, <1>4, <1>5, <1>6 DEF Stages

\* BEGIN makes a copy that carries nothing yet.
LEMMA BeginCopies ==
    ASSUME Linked(events, head), UNCHANGED dbVars, NEW all \in Seq(EntryRows),
           tx'.left = all, work' = [ events |-> events, head |-> head ]
    PROVE  Linked(work.events, work.head)' /\ Carries(all)'
<1>1. work'.events = events /\ work'.head = head
  OBVIOUS
<1>2. head.seq \in Nat /\ Len(all) \in Nat
  BY DEF Linked
<1>3. Linked(work'.events, work'.head)
  BY <1>1
<1>4. Carries(all)'
  BY <1>1, <1>2 DEF Carries
<1> QED BY <1>3, <1>4 DEF Linked

\* BEGIN IMMEDIATE of a step, on a row that was just checked.
LEMMA BeginInv ==
    ASSUME Linked(events, head), NEW actor, NEW o \in Ops, NEW to, Begin(actor, o, to)
    PROVE  CopyInv'
<1>1. /\ <<row[o], to>> \in Moves
      /\ tx'.op = o /\ tx'.to = to /\ tx'.left = EntriesOf(o, to)
      /\ work' = [ events |-> events, head |-> head ]
      /\ UNCHANGED dbVars
  BY DEF Begin
<1>2. EntriesOf(o, to) \in Seq(EntryRows)
  BY <1>1, EntriesTyped
<1>3. Linked(work.events, work.head)' /\ Carries(EntriesOf(o, to))'
  BY <1>1, <1>2, BeginCopies
<1>4. Grouped(EntriesOf(o, to))'
  BY <1>1 DEF Grouped
<1> QED BY <1>2, <1>3, <1>4 DEF CopyInv

\* BEGIN of AppendAuditEvent.
LEMMA AppendBeginsInv ==
    ASSUME AuditTypeOK, Linked(events, head), AppendBegins
    PROVE  CopyInv'
<1>0. PICK id \in EventIDs : id = append.id
  BY DEF AppendBegins, AuditTypeOK
<1> DEFINE all == << NoteEntry(id) >>
<1>1. /\ tx'.op = NULL /\ tx'.left = all
      /\ work' = [ events |-> events, head |-> head ]
      /\ UNCHANGED dbVars
  BY <1>0 DEF AppendBegins
<1>2. all \in Seq(EntryRows)
  BY DEF NoteEntry, EntryRows, Types
<1>3. Linked(work.events, work.head)' /\ Carries(all)'
  BY <1>1, <1>2, BeginCopies
<1>4. work'.head.seq = head.seq /\ head.seq \in Nat
  BY <1>1 DEF Linked
<1>5. Grouped(all)'
  BY <1>1, <1>4 DEF Grouped
<1> QED BY <1>2, <1>3, <1>5 DEF CopyInv

\* One appendAuditEventTx moves one entry from what is left into the copy; the
\* triggers refuse a note whose id is taken.
LEMMA AppendOneInv ==
    ASSUME AuditTypeOK, Linked(events, head), CopyInv, AppendOne
    PROVE  CopyInv'
<1>1. /\ tx # NULL
      /\ tx.left # << >>
      /\ appendAuditEventTx(Head(tx.left))
      /\ tx' = [tx EXCEPT !.left = Tail(@)]
      /\ UNCHANGED dbVars
  BY DEF AppendOne
<1>2. tx \in TxRows /\ tx.left \in Seq(EntryRows)
  BY <1>1 DEF AuditTypeOK, TxRows
<1>3. /\ Head(tx.left) \in EntryRows
      /\ Head(tx.left) = tx.left[1]
      /\ Len(tx.left) > 0
      /\ Len(Tail(tx.left)) = Len(tx.left) - 1
      /\ \A i \in 1 .. Len(Tail(tx.left)) : Tail(tx.left)[i] = tx.left[i + 1]
  BY <1>1, <1>2
<1>4. /\ tx'.op = tx.op /\ tx'.to = tx.to
      /\ tx'.left = Tail(tx.left)
  BY <1>1, <1>2 DEF TxRows
<1>5. Linked(work.events, work.head)
  BY <1>1 DEF CopyInv
<1>6. PICK all \in Seq(EntryRows) : Grouped(all) /\ Carries(all)
  BY <1>1 DEF CopyInv
<1>7. /\ work'.head.seq = work.head.seq + 1
      /\ \A s \in 1 .. work.head.seq : work'.events[s] = work.events[s]
      /\ work'.events[work.head.seq + 1].entry = Head(tx.left)
  BY <1>1, <1>5, AppendExtends
<1>8. Linked(work'.events, work'.head)
  BY <1>1, <1>3, <1>5, AppendLinks
<1>9. head.seq \in Nat /\ Len(all) \in Nat /\ Len(tx.left) \in Nat
  BY <1>2 DEF Linked
<1>10. Carries(all)'
  <2> DEFINE n == head.seq
             m == work.head.seq
  <2>1. /\ m \in Nat /\ n \in Nat /\ m >= n
        /\ \A s \in 1 .. n : work.events[s] = events[s]
        /\ m + Len(tx.left) = n + Len(all)
        /\ \A i \in 1 .. (m - n) : work.events[n + i].entry = all[i]
        /\ \A i \in 1 .. Len(tx.left) : tx.left[i] = all[(m - n) + i]
    BY <1>6, <1>9 DEF Carries
  <2>2. head'.seq = n /\ events' = events
    BY <1>1
  <2> HIDE DEF n, m
  <2>3. work'.head.seq = m + 1
    BY <1>7 DEF m
  <2>4. \A s \in 1 .. n : work'.events[s] = events[s]
    BY <1>7, <2>1 DEF m
  <2>5. work'.events[m + 1].entry = all[(m - n) + 1]
    BY <1>3, <1>7, <1>9, <2>1 DEF m
  <2>6. \A i \in 1 .. (m + 1 - n) : work'.events[n + i].entry = all[i]
    <3> SUFFICES ASSUME NEW i \in 1 .. (m + 1 - n) PROVE work'.events[n + i].entry = all[i]
      OBVIOUS
    <3>1. CASE i = m + 1 - n
      <4>1. n + i = m + 1 /\ i = (m - n) + 1
        BY <3>1, <2>1
      <4> QED BY <4>1, <2>5
    <3>2. CASE i # m + 1 - n
      <4>1. i \in 1 .. (m - n) /\ n + i \in 1 .. m
        BY <3>2, <2>1
      <4> QED BY <4>1, <2>1, <1>7 DEF m
    <3> QED BY <3>1, <3>2
  <2>7. \A i \in 1 .. Len(Tail(tx.left)) : Tail(tx.left)[i] = all[(m + 1 - n) + i]
    <3> SUFFICES ASSUME NEW i \in 1 .. Len(Tail(tx.left))
                 PROVE  Tail(tx.left)[i] = all[(m + 1 - n) + i]
      OBVIOUS
    <3>1. Tail(tx.left)[i] = tx.left[i + 1] /\ i + 1 \in 1 .. Len(tx.left)
      BY <1>3, <1>9
    <3>2. tx.left[i + 1] = all[(m - n) + (i + 1)]
      BY <2>1, <3>1
    <3>3. (m - n) + (i + 1) = (m + 1 - n) + i
      BY <2>1
    <3> QED BY <3>1, <3>2, <3>3
  <2>8. m + 1 + Len(Tail(tx.left)) = n + Len(all)
    BY <1>3, <1>9, <2>1
  <2>9. /\ work'.head.seq \in Nat
        /\ work'.head.seq >= head'.seq
        /\ work'.head.seq - head'.seq = m + 1 - n
    BY <2>1, <2>2, <2>3
  <2>10. /\ \A s \in 1 .. head'.seq : work'.events[s] = events'[s]
         /\ work'.head.seq + Len(tx'.left) = head'.seq + Len(all)
         /\ \A i \in 1 .. (work'.head.seq - head'.seq) :
               work'.events[head'.seq + i].entry = all[i]
    BY <1>4, <2>2, <2>3, <2>4, <2>6, <2>8, <2>9
  <2>11. \A i \in 1 .. Len(tx'.left) : tx'.left[i] = all[(work'.head.seq - head'.seq) + i]
    BY <1>4, <2>7, <2>9
  <2> QED BY <2>9, <2>10, <2>11 DEF Carries
<1>11. Grouped(all)'
  <2>1. CASE tx.op \in Ops
    BY <2>1, <1>1, <1>4, <1>6, OpsAssumption DEF Grouped
  <2>2. CASE tx.op \notin Ops
    <3>1. PICK id \in EventIDs : all = << NoteEntry(id) >>
      BY <2>2, <1>6 DEF Grouped
    <3>2. work.head.seq = head.seq /\ tx.left[1] = all[1]
      <4>1. Len(all) = 1
        BY <3>1
      <4> QED BY <1>3, <1>6, <1>9, <4>1 DEF Carries
    <3>3. all[1] = NoteEntry(id) /\ all[1].id = id /\ id # NULL
      BY <3>1, EventIDsAssumption DEF NoteEntry
    <3>4. ~ Replaces(work.head.seq + 1, Head(tx.left))
      BY <1>1 DEF appendAuditEventTx
    <3>5. \A s \in 1 .. head.seq : work.events[s].entry.id # id
      BY <1>3, <1>5, <3>2, <3>3, <3>4 DEF Replaces, Linked
    <3>6. \A s \in 1 .. head.seq : events[s].entry # all[1]
      BY <1>6, <3>3, <3>5 DEF Carries
    <3>7. tx.op = NULL
      BY <1>6, <2>2 DEF Grouped
    <3> QED BY <1>1, <1>4, <3>1, <3>6, <3>7 DEF Grouped
  <2> QED BY <2>1, <2>2
<1> QED BY <1>8, <1>10, <1>11 DEF CopyInv

-----------------------------------------------------------------------------
(* The committed tables.                                                   *)

\* COMMIT makes one whole group of entries visible, behind what was there.
LEMMA CommitAdds ==
    ASSUME AuditTypeOK, Linked(events, head), CopyInv, tx # NULL, tx.left = << >>, Apply
    PROVE  /\ Linked(events', head')
           /\ \A s \in 1 .. head.seq : events'[s] = events[s]
           /\ \E all \in Seq(EntryRows) :
                 /\ Grouped(all)
                 /\ Len(all) = work.head.seq - head.seq
                 /\ head'.seq = head.seq + Len(all)
                 /\ \A i \in 1 .. Len(all) : events'[head.seq + i].entry = all[i]
           /\ row' = IF tx.op \in Ops THEN [row EXCEPT ![tx.op] = tx.to] ELSE row
           /\ tx.op \in Ops => <<row[tx.op], tx.to>> \in Moves
<1>1. Linked(work.events, work.head)
  BY DEF CopyInv
<1>2. PICK all \in Seq(EntryRows) : Grouped(all) /\ Carries(all)
  BY DEF CopyInv
<1>3. /\ events' = work.events
      /\ head' = work.head
      /\ row' = IF tx.op \in Ops THEN [row EXCEPT ![tx.op] = tx.to] ELSE row
  BY DEF Apply
<1>4. Len(tx.left) = 0 /\ Len(all) \in Nat /\ head.seq \in Nat
  BY DEF Linked
<1>5. work.head.seq \in Nat /\ Len(all) = work.head.seq - head.seq
  BY <1>2, <1>4 DEF Carries
<1>6. head'.seq = head.seq + Len(all)
  BY <1>3, <1>4, <1>5
<1>7. /\ \A s \in 1 .. head.seq : events'[s] = events[s]
      /\ \A i \in 1 .. Len(all) : events'[head.seq + i].entry = all[i]
  BY <1>2, <1>3, <1>5 DEF Carries
<1>8. tx.op \in Ops => <<row[tx.op], tx.to>> \in Moves
  BY <1>2, OpsAssumption DEF Grouped
<1>9. Linked(events', head')
  BY <1>1, <1>3
<1> QED BY <1>2, <1>3, <1>5, <1>6, <1>7, <1>8, <1>9

\* Either a step commits the open transaction, or the tables stay.
LEMMA CommitOrNot ==
    ASSUME [Next]_vars
    PROVE  \/ UNCHANGED dbVars
           \/ /\ tx # NULL
              /\ tx.left = << >>
              /\ Apply
              /\ Close
              /\ Report(TRUE) \/ Report(FALSE)
              /\ UNCHANGED up
BY DEF Next, Transaction, AppendOne, Commit, CommitAnswerLost, TxFails, Caller, CallerBegins,
   CallerRefused, SendReturns, Reread, ReadRow, ReadTuple, Verify, ListPage, DecideFirst,
   DecideAgain, ReadFails, ObserverCloses, SweepContains, AppendAuditEvent, AppendBegins,
   AppendRetries, SweepEnds, Crash, Begin

\* Every operation that has an intent has its event in the table.
EvidenceInv ==
    \A o \in Ops :
        row[o] # "DISPATCH_BOUND" =>
            \E s \in 1 .. head.seq :
                /\ events[s].entry.op = o
                /\ events[s].entry.type = "DISPATCH_SEND_REQUESTED"

TablesInv ==
    /\ AuditTypeOK
    /\ Linked(events, head)
    /\ CopyInv
    /\ EvidenceInv

\* Committed events stay, rows move along the transactions, and the tables
\* stay a chain.
LEMMA TablesGrow ==
    ASSUME TablesInv, [Next]_vars
    PROVE  /\ Linked(events', head')
           /\ head'.seq >= head.seq
           /\ \A s \in 1 .. head.seq : events'[s] = events[s]
           /\ row' \in [Ops -> Stages]
           /\ \A o \in Ops : row'[o] = row[o] \/ <<row[o], row'[o]>> \in Moves
<1> USE DEF TablesInv
<1>n. head.seq \in Nat /\ row \in [Ops -> Stages]
  BY DEF Linked, AuditTypeOK
<1>1. CASE UNCHANGED dbVars
  BY <1>1, <1>n
<1>2. CASE tx # NULL /\ tx.left = << >> /\ Apply
  <2>1. /\ Linked(events', head')
        /\ \A s \in 1 .. head.seq : events'[s] = events[s]
        /\ \E all \in Seq(EntryRows) : head'.seq = head.seq + Len(all)
        /\ row' = IF tx.op \in Ops THEN [row EXCEPT ![tx.op] = tx.to] ELSE row
        /\ tx.op \in Ops => <<row[tx.op], tx.to>> \in Moves
    BY <1>2, CommitAdds
  <2>2. head'.seq >= head.seq
    <3>1. PICK all \in Seq(EntryRows) : head'.seq = head.seq + Len(all)
      BY <2>1
    <3>2. Len(all) \in Nat
      OBVIOUS
    <3> QED BY <3>1, <3>2, <1>n
  <2>3. tx.op \in Ops => tx.to \in Stages
    BY <2>1, EntriesTyped
  <2>4. row' \in [Ops -> Stages]
    BY <2>1, <2>3, <1>n
  <2>5. \A o \in Ops : row'[o] = row[o] \/ <<row[o], row'[o]>> \in Moves
    BY <2>1, <1>n
  <2> QED BY <2>1, <2>2, <2>4, <2>5
<1> QED BY <1>1, <1>2, CommitOrNot

\* The event of an intent is committed with the intent and stays.
LEMMA EvidenceStep ==
    ASSUME TablesInv, [Next]_vars
    PROVE  EvidenceInv'
<1> USE DEF TablesInv
<1>n. head.seq \in Nat /\ row \in [Ops -> Stages] /\ head'.seq >= head.seq /\ head'.seq \in Nat
  BY TablesGrow DEF Linked, AuditTypeOK
<1> SUFFICES ASSUME NEW o \in Ops, row'[o] # "DISPATCH_BOUND"
             PROVE  \E s \in 1 .. head'.seq :
                      /\ events'[s].entry.op = o
                      /\ events'[s].entry.type = "DISPATCH_SEND_REQUESTED"
  BY DEF EvidenceInv
<1>1. CASE row[o] # "DISPATCH_BOUND"
  <2>1. PICK s \in 1 .. head.seq : /\ events[s].entry.op = o
                                   /\ events[s].entry.type = "DISPATCH_SEND_REQUESTED"
    BY <1>1 DEF EvidenceInv
  <2>2. events'[s] = events[s] /\ s \in 1 .. head'.seq
    BY <1>n, TablesGrow
  <2> QED BY <2>1, <2>2
<1>2. CASE row[o] = "DISPATCH_BOUND"
  <2>1. tx # NULL /\ tx.left = << >> /\ Apply
    BY <1>2, CommitOrNot
  <2>2. tx.op \in Ops /\ row' = [row EXCEPT ![tx.op] = tx.to]
    BY <1>2, <2>1, CommitAdds
  <2>3. tx.op = o
    BY <1>2, <1>n, <2>2
  <2>4. PICK all \in Seq(EntryRows) :
          /\ Grouped(all)
          /\ head'.seq = head.seq + Len(all)
          /\ \A i \in 1 .. Len(all) : events'[head.seq + i].entry = all[i]
    BY <2>1, CommitAdds
  <2>5. all = EntriesOf(o, tx.to) /\ <<"DISPATCH_BOUND", tx.to>> \in Moves
    BY <1>2, <2>2, <2>3, <2>4, OpsAssumption DEF Grouped
  <2>6. Len(all) > 0 /\ all[1] = Entry(o, "DISPATCH_SEND_REQUESTED")
    BY <2>5, EntriesTyped
  <2>7. head.seq + 1 \in 1 .. head'.seq /\ events'[head.seq + 1].entry = all[1]
    <3>1. Len(all) \in Nat
      OBVIOUS
    <3> QED BY <2>4, <2>6, <3>1, <1>n
  <2> QED BY <2>6, <2>7 DEF Entry
<1> QED BY <1>1, <1>2

\* The copy stays the committed chain with part of one group behind it.
LEMMA CopyStep ==
    ASSUME TablesInv, [Next]_vars
    PROVE  CopyInv'
<1> USE DEF TablesInv
<1>1. CASE UNCHANGED <<dbVars, txVars>>
  BY <1>1 DEF CopyInv, Linked, Grouped, Carries
<1>2. CASE tx' = NULL
  BY <1>2 DEF CopyInv
<1>3. CASE AppendOne
  BY <1>3, AppendOneInv
<1>4. ASSUME NEW actor, NEW o \in Ops, NEW to, Begin(actor, o, to)
      PROVE  CopyInv'
  BY <1>4, BeginInv
<1>5. CASE AppendBegins
  BY <1>5, AppendBeginsInv
<1> QED BY <1>1, <1>2, <1>3, <1>4, <1>5
    DEF Next, Transaction, Commit, CommitAnswerLost, TxFails, Close, Caller, CallerBegins,
        CallerRefused, SendReturns, Reread, ReadRow, ReadTuple, Verify, ListPage, DecideFirst,
        DecideAgain, ReadFails, ObserverCloses, SweepContains, AppendAuditEvent,
        AppendRetries, SweepEnds, Crash

-----------------------------------------------------------------------------
(* Callers.                                                                *)

CallerTypeOK ==
    /\ pc \in [Ops -> Labels]
    /\ view \in [Ops -> ViewRows]
    /\ failed \subseteq Ops

\* Everyone but o stays where it is.
OnlyMoves(o) ==
    \A p \in Ops \ {o} :
        /\ pc'[p] = pc[p]
        /\ view'[p] = view[p]
        /\ p \in failed => p \in failed'

\* What is known of a caller when its transaction has returned.
LEMMA AfterTxMoves ==
    ASSUME CallerTypeOK, NEW o \in Ops, NEW ok \in BOOLEAN,
           NEW to \in { "SEND_REQUESTED", "SEND_CONFIRMED", "UNKNOWN" }, AfterTx(o, to, ok)
    PROVE  /\ CallerTypeOK'
           /\ OnlyMoves(o)
           /\ view'[o].after = view[o].after
           /\ view'[o].again <=> to = "UNKNOWN"
           /\ to = "SEND_REQUESTED" /\ ok => pc'[o] = "send"
           /\ to = "SEND_REQUESTED" /\ ~ok => pc'[o] = "returned" /\ view'[o].said = "error"
           /\ to = "SEND_CONFIRMED" /\ ok => pc'[o] = "returned" /\ view'[o].said = "confirmed"
           /\ to = "SEND_CONFIRMED" /\ ~ok => pc'[o] = "readRow"
           /\ to = "UNKNOWN" => pc'[o] = "readRow"
           /\ to = "UNKNOWN" /\ ~ok => o \in failed'
<1> USE DEF CallerTypeOK
<1> DEFINE label == CASE to = "SEND_REQUESTED" -> IF ok THEN "send" ELSE "returned"
                      [] to = "SEND_CONFIRMED" -> IF ok THEN "returned" ELSE "readRow"
                      [] to = "UNKNOWN"        -> "readRow"
           said == CASE to = "SEND_REQUESTED" /\ ~ ok -> "error"
                     [] to = "SEND_CONFIRMED" /\ ok   -> "confirmed"
                     [] OTHER                         -> view[o].said
<1>1. pc' = [pc EXCEPT ![o] = label] /\ label \in Labels
  BY DEF AfterTx, Labels
<1>2. failed' = (IF to = "UNKNOWN" /\ ~ ok THEN failed \cup {o} ELSE failed)
  BY DEF AfterTx
<1>3. view[o] \in ViewRows
  OBVIOUS
<1>4. view' = [view EXCEPT ![o] = [view[o] EXCEPT !.said = said, !.again = (to = "UNKNOWN")]]
  BY <1>3 DEF AfterTx
<1>5. said \in { "none", "error", "confirmed", "unknown", "notTheIntent", "recoveryRequired",
                 "chainInvalid" }
  BY <1>3 DEF ViewRows
<1>6. /\ to = "SEND_REQUESTED" /\ ~ok => said = "error"
      /\ to = "SEND_CONFIRMED" /\ ok => said = "confirmed"
  OBVIOUS
<1>7. /\ to = "SEND_REQUESTED" /\ ok => label = "send"
      /\ to = "SEND_REQUESTED" /\ ~ok => label = "returned"
      /\ to = "SEND_CONFIRMED" /\ ok => label = "returned"
      /\ to = "SEND_CONFIRMED" /\ ~ok => label = "readRow"
      /\ to = "UNKNOWN" => label = "readRow"
  OBVIOUS
<1> HIDE DEF said, label
<1>8. PICK again \in BOOLEAN : again = (to = "UNKNOWN")
  OBVIOUS
<1>9. /\ view'[o] = [view[o] EXCEPT !.said = said, !.again = again]
      /\ \A p \in Ops \ {o} : view'[p] = view[p]
      /\ DOMAIN view' = Ops
  BY <1>4, <1>8
<1>10. /\ view'[o] \in ViewRows
       /\ view'[o].after = view[o].after
       /\ view'[o].said = said
       /\ view'[o].again = again
  BY <1>3, <1>5, <1>9 DEF ViewRows
<1>11. view' \in [Ops -> ViewRows]
  BY <1>4, <1>9, <1>10
<1>12. view'[o].again <=> to = "UNKNOWN"
  BY <1>8, <1>10
<1>13. CallerTypeOK' /\ OnlyMoves(o)
  BY <1>1, <1>2, <1>9, <1>11 DEF OnlyMoves
<1> QED BY <1>1, <1>2, <1>6, <1>7, <1>10, <1>12, <1>13

\* A caller that says what it found returns with an otherwise fresh view.
LEMMA SayMoves ==
    ASSUME CallerTypeOK, NEW o \in Ops, UNCHANGED failed,
           NEW what \in { "error", "confirmed", "unknown", "notTheIntent", "recoveryRequired",
                          "chainInvalid" },
           Say(o, what)
    PROVE  /\ CallerTypeOK'
           /\ OnlyMoves(o)
           /\ pc'[o] = "returned"
           /\ view'[o].said = what
           /\ view'[o].after = 0
BY DEF CallerTypeOK, Say, Goto, FreshView, ViewRows, OnlyMoves, Labels

\* Labels a caller reaches only with its intent on record.
PastIntent ==
    { "send", "confirm", "contain", "readRow", "readTuple", "verify", "list", "decide" }

\* The cursor has passed exactly the events whose types are found; when the
\* last page was not full, the event of the intent is among them.
CursorInv(o) ==
    /\ pc[o] \notin { "list", "decide" } => view[o].after = 0
    /\ pc[o] = "list" =>
          /\ view[o].after <= head.seq
          /\ \A s \in 1 .. view[o].after :
                events[s].entry.op = o => events[s].entry.type \in view[o].found
    /\ pc[o] = "decide" => "DISPATCH_SEND_REQUESTED" \in view[o].found

\* A read of the row is the row, or an intent decided since; after its own
\* containment a caller reads no intent unless that transaction failed.
RowSeenInv(o) ==
    /\ pc[o] \in PastIntent => row[o] # "DISPATCH_BOUND"
    /\ pc[o] \in { "readTuple", "verify", "list", "decide" } =>
          view[o].row \in { row[o], "SEND_REQUESTED" }
    /\ pc[o] \in { "verify", "list", "decide" } =>
          view[o].tuple \in { row[o], "SEND_REQUESTED" }
    /\ pc[o] \in PastIntent /\ view[o].again => row[o] # "SEND_REQUESTED" \/ o \in failed

\* What a call has returned is true of the row, for good.
SaidInv(o) ==
    pc[o] = "returned" =>
        /\ view[o].said = "confirmed" => row[o] = "SEND_CONFIRMED"
        /\ view[o].said = "unknown" => row[o] = "UNKNOWN"
        /\ view[o].said = "notTheIntent" => row[o] \notin { "DISPATCH_BOUND", "SEND_REQUESTED" }
        /\ view[o].said = "recoveryRequired" =>
              row[o] \notin { "DISPATCH_BOUND", "SEND_REQUESTED" } \/ o \in failed
        /\ view[o].said # "chainInvalid"

OpInv(o) == CursorInv(o) /\ RowSeenInv(o) /\ SaidInv(o)

\* Steps of others: rows move forward, events are added, nothing is undone.
LEMMA OthersKeep ==
    ASSUME TablesInv, [Next]_vars, NEW o \in Ops, OpInv(o),
           pc'[o] = pc[o], view'[o] = view[o], o \in failed => o \in failed'
    PROVE  OpInv(o)'
<1>1. /\ head.seq \in Nat /\ head'.seq \in Nat /\ head'.seq >= head.seq
      /\ \A s \in 1 .. head.seq : events'[s] = events[s]
      /\ row'[o] = row[o] \/ <<row[o], row'[o]>> \in Moves
  BY TablesGrow DEF TablesInv, Linked
<1>2. \/ row'[o] = row[o]
      \/ /\ row[o] \in { "DISPATCH_BOUND", "SEND_REQUESTED" }
         /\ row'[o] # "DISPATCH_BOUND"
         /\ row'[o] = "SEND_REQUESTED" => row[o] = "DISPATCH_BOUND"
  BY <1>1 DEF Moves
<1>3. view[o].after \in Nat
  BY DEF TablesInv, AuditTypeOK, ViewRows
<1>4. CursorInv(o)'
  BY <1>1, <1>3 DEF OpInv, CursorInv
<1>5. RowSeenInv(o)'
  BY <1>2 DEF OpInv, RowSeenInv, PastIntent
<1>6. SaidInv(o)'
  BY <1>2 DEF OpInv, SaidInv
<1> QED BY <1>4, <1>5, <1>6 DEF OpInv

\* The number of sequences in an interval.
LEMMA IntervalSize ==
    ASSUME NEW a \in Nat, NEW b \in Nat, a <= b
    PROVE  Cardinality((a + 1) .. b) = b - a
<1>1. PICK lo \in Int : lo = a + 1
  OBVIOUS
<1>2. b \in Int
  OBVIOUS
<1>3. Cardinality(lo .. b) = IF lo > b THEN 0 ELSE b - lo + 1
  BY <1>2, FS_Interval
<1>4. (IF lo > b THEN 0 ELSE b - lo + 1) = b - a
  BY <1>1
<1> QED BY <1>1, <1>3, <1>4

\* ListAuditEvents returns the next events above the cursor, as many as fit.
LEMMA PageIs ==
    ASSUME Linked(events, head), NEW after \in Nat, after <= head.seq
    PROVE  /\ Page(after) = { s \in 1 .. head.seq : after < s /\ s <= after + PageLimit }
           /\ Cardinality(Page(after)) \in Nat
           /\ after + Cardinality(Page(after)) <= head.seq
           /\ \A s \in 1 .. (after + Cardinality(Page(after))) : s <= after \/ s \in Page(after)
           /\ Cardinality(Page(after)) < PageLimit =>
                 after + Cardinality(Page(after)) = head.seq
<1> DEFINE n == head.seq
<1>1. n \in Nat /\ DOMAIN events = 1 .. n /\ PageLimit \in Nat /\ PageLimit > 0
  BY PageLimitAssumption DEF Linked
<1>2. ASSUME NEW s \in 1 .. n, s > after
      PROVE  Cardinality({ r \in 1 .. n : r > after /\ r <= s }) = s - after
  <2>1. { r \in 1 .. n : r > after /\ r <= s } = (after + 1) .. s
    BY <1>1, <1>2
  <2>2. s \in Nat /\ after <= s
    BY <1>1, <1>2
  <2> QED BY <2>1, <2>2, IntervalSize
<1>3. Page(after) = { s \in 1 .. n : after < s /\ s <= after + PageLimit }
  BY <1>1, <1>2 DEF Page
<1> DEFINE last == IF n < after + PageLimit THEN n ELSE after + PageLimit
<1>4. last \in Nat /\ last >= after /\ last <= n /\ last <= after + PageLimit
  BY <1>1
<1>5. Page(after) = (after + 1) .. last
  BY <1>1, <1>3
<1>6. Cardinality(Page(after)) = last - after
  <2> HIDE DEF last
  <2> QED BY <1>4, <1>5, IntervalSize
<1>7. last - after < PageLimit => last = n
  BY <1>1
<1> HIDE DEF last, n
<1>8. /\ Cardinality(Page(after)) \in Nat
      /\ after + Cardinality(Page(after)) = last
  BY <1>4, <1>6
<1>9. \A s \in 1 .. last : s <= after \/ s \in (after + 1) .. last
  BY <1>4
<1> QED BY <1>3, <1>4, <1>5, <1>6, <1>7, <1>8, <1>9 DEF n

\* One page of ListAuditEvents.
LEMMA ListPageInv ==
    ASSUME TablesInv, NEW o \in Ops, OpInv(o), ListPage(o)
    PROVE  CallerTypeOK' /\ OnlyMoves(o) /\ OpInv(o)'
<1> DEFINE v == view[o]
           page == Page(v.after)
           seen == { events[s].entry.type : s \in { r \in page : events[r].entry.op = o } }
           label == IF Cardinality(page) < PageLimit THEN "decide" ELSE "list"
<1>1. /\ v \in ViewRows
      /\ v.after \in Nat
      /\ v.after <= head.seq
      /\ head.seq \in Nat
      /\ pc[o] = "list"
      /\ \A s \in 1 .. v.after : events[s].entry.op = o => events[s].entry.type \in v.found
  BY DEF TablesInv, AuditTypeOK, ViewRows, OpInv, CursorInv, ListPage, Linked
<1>2. /\ page \subseteq 1 .. head.seq
      /\ Cardinality(page) \in Nat
      /\ v.after + Cardinality(page) <= head.seq
      /\ \A s \in 1 .. (v.after + Cardinality(page)) : s <= v.after \/ s \in page
      /\ Cardinality(page) < PageLimit => v.after + Cardinality(page) = head.seq
  BY <1>1, PageIs DEF TablesInv
<1>3. page = {} => Cardinality(page) = 0
  BY FS_EmptySet
<1>4. view' = [view EXCEPT ![o] = [v EXCEPT !.found = v.found \cup seen,
                                            !.after = v.after + Cardinality(page)]]
  <2>1. v.after + 0 = v.after
    BY <1>1
  <2> QED BY <1>1, <1>3, <2>1 DEF ListPage, ViewRows, TablesInv, AuditTypeOK
<1>5. seen \subseteq Types
  BY <1>2 DEF TablesInv, AuditTypeOK, EntryRows
<1>6. \A s \in 1 .. (v.after + Cardinality(page)) :
        events[s].entry.op = o => events[s].entry.type \in v.found \cup seen
  BY <1>1, <1>2
<1>7. /\ pc' = [pc EXCEPT ![o] = label]
      /\ UNCHANGED <<dbVars, failed>>
  BY DEF ListPage, Goto
<1>8. label \in { "decide", "list" } /\ (label = "decide" => Cardinality(page) < PageLimit)
  OBVIOUS
<1> HIDE DEF page, seen, v, label
<1>9. /\ view'[o].found = v.found \cup seen
      /\ view'[o].after = v.after + Cardinality(page)
      /\ view'[o].row = v.row /\ view'[o].tuple = v.tuple /\ view'[o].again = v.again
      /\ view'[o] \in ViewRows
  <2>1. view'[o] = [v EXCEPT !.found = v.found \cup seen, !.after = v.after + Cardinality(page)]
    BY <1>4 DEF TablesInv, AuditTypeOK
  <2>2. v.after + Cardinality(page) \in Nat
    BY <1>1, <1>2
  <2>3. v.found \cup seen \in SUBSET Types
    BY <1>1, <1>5 DEF ViewRows
  <2> QED BY <1>1, <2>1, <2>2, <2>3 DEF ViewRows
<1>10. CallerTypeOK' /\ OnlyMoves(o) /\ pc'[o] = label
  BY <1>4, <1>7, <1>8, <1>9 DEF CallerTypeOK, OnlyMoves, TablesInv, AuditTypeOK, Labels
<1>11. "decide" = label => "DISPATCH_SEND_REQUESTED" \in view'[o].found
  <2> SUFFICES ASSUME label = "decide" PROVE "DISPATCH_SEND_REQUESTED" \in v.found \cup seen
    BY <1>9
  <2>1. v.after + Cardinality(page) = head.seq
    BY <1>2, <1>8
  <2>2. row[o] # "DISPATCH_BOUND"
    BY <1>1 DEF OpInv, RowSeenInv, PastIntent
  <2>3. PICK s \in 1 .. head.seq : /\ events[s].entry.op = o
                                   /\ events[s].entry.type = "DISPATCH_SEND_REQUESTED"
    BY <2>2 DEF TablesInv, EvidenceInv
  <2> QED BY <1>6, <2>1, <2>3
<1>12. CursorInv(o)'
  BY <1>2, <1>6, <1>7, <1>8, <1>9, <1>10, <1>11 DEF CursorInv
<1>13. RowSeenInv(o)'
  BY <1>1, <1>7, <1>8, <1>9, <1>10 DEF OpInv, RowSeenInv, PastIntent, v
<1>14. SaidInv(o)'
  BY <1>8, <1>10 DEF SaidInv
<1> QED BY <1>10, <1>12, <1>13, <1>14 DEF OpInv

\* GetDispatchOperation, GetTask with GetTaskAttempt, VerifyAuditChain: the
\* chain is never found invalid.
LEMMA ReadsInv ==
    ASSUME TablesInv, NEW o \in Ops, OpInv(o), ReadRow(o) \/ ReadTuple(o) \/ Verify(o)
    PROVE  CallerTypeOK' /\ OnlyMoves(o) /\ OpInv(o)'
<1> USE DEF TablesInv, AuditTypeOK, CallerTypeOK, OnlyMoves, Labels, OpInv
<1>v. view[o] \in ViewRows /\ row[o] \in Stages
  OBVIOUS
<1>1. CASE ReadRow(o)
  <2>1. /\ pc[o] = "readRow" /\ pc' = [pc EXCEPT ![o] = "readTuple"]
        /\ view' = [view EXCEPT ![o] = [view[o] EXCEPT !.row = row[o]]]
        /\ UNCHANGED <<dbVars, failed>>
    BY <1>1 DEF ReadRow, Goto
  <2>2. /\ view'[o] \in ViewRows
        /\ view'[o].row = row[o]
        /\ view'[o].after = view[o].after /\ view'[o].again = view[o].again
    BY <1>v, <2>1 DEF ViewRows
  <2>3. CallerTypeOK' /\ OnlyMoves(o)
    BY <2>1, <2>2
  <2>4. CursorInv(o)' /\ RowSeenInv(o)' /\ SaidInv(o)'
    BY <2>1, <2>2 DEF CursorInv, RowSeenInv, SaidInv, PastIntent
  <2> QED BY <2>3, <2>4
<1>2. CASE ReadTuple(o)
  <2>1. /\ pc[o] = "readTuple" /\ pc' = [pc EXCEPT ![o] = "verify"]
        /\ view' = [view EXCEPT ![o] = [view[o] EXCEPT !.tuple = row[o]]]
        /\ UNCHANGED <<dbVars, failed>>
    BY <1>2 DEF ReadTuple, Goto
  <2>2. /\ view'[o] \in ViewRows
        /\ view'[o].tuple = row[o]
        /\ view'[o].row = view[o].row
        /\ view'[o].after = view[o].after /\ view'[o].again = view[o].again
    BY <1>v, <2>1 DEF ViewRows
  <2>3. CallerTypeOK' /\ OnlyMoves(o)
    BY <2>1, <2>2
  <2>4. CursorInv(o)' /\ RowSeenInv(o)' /\ SaidInv(o)'
    BY <2>1, <2>2 DEF CursorInv, RowSeenInv, SaidInv, PastIntent
  <2> QED BY <2>3, <2>4
<1>3. CASE Verify(o)
  <2>1. VerifyAuditChain(events, head)
    BY LinkedVerifies
  <2>2. /\ pc[o] = "verify" /\ pc' = [pc EXCEPT ![o] = "list"]
        /\ UNCHANGED <<dbVars, failed, view>>
    BY <1>3, <2>1 DEF Verify, Goto
  <2>3. CallerTypeOK' /\ OnlyMoves(o)
    BY <2>2
  <2>4. head.seq \in Nat /\ view[o].after = 0
    BY <2>2 DEF CursorInv
  <2>5. CursorInv(o)' /\ RowSeenInv(o)' /\ SaidInv(o)'
    BY <2>2, <2>4 DEF CursorInv, RowSeenInv, SaidInv, PastIntent
  <2> QED BY <2>3, <2>5
<1> QED BY <1>1, <1>2, <1>3

\* The two decisions, and a read that fails.
LEMMA DecideInv ==
    ASSUME TablesInv, NEW o \in Ops, OpInv(o),
           DecideFirst(o) \/ DecideAgain(o) \/ ReadFails(o)
    PROVE  CallerTypeOK' /\ OnlyMoves(o) /\ OpInv(o)'
<1> USE DEF TablesInv, OpInv
<1>t. CallerTypeOK
  BY DEF AuditTypeOK, CallerTypeOK
<1>u. UNCHANGED <<dbVars, failed>>
  BY DEF DecideFirst, DecideAgain, ReadFails
<1>s. ASSUME NEW what \in { "error", "confirmed", "unknown", "notTheIntent", "recoveryRequired",
                            "chainInvalid" },
             Say(o, what),
             /\ what = "confirmed" => row[o] = "SEND_CONFIRMED"
             /\ what = "unknown" => row[o] = "UNKNOWN"
             /\ what = "notTheIntent" => row[o] \notin { "DISPATCH_BOUND", "SEND_REQUESTED" }
             /\ what = "recoveryRequired" =>
                   row[o] \notin { "DISPATCH_BOUND", "SEND_REQUESTED" } \/ o \in failed
             /\ what # "chainInvalid"
      PROVE  CallerTypeOK' /\ OnlyMoves(o) /\ OpInv(o)'
  <2>1. /\ CallerTypeOK' /\ OnlyMoves(o)
        /\ pc'[o] = "returned" /\ view'[o].said = what /\ view'[o].after = 0
    BY <1>s, <1>t, <1>u, SayMoves
  <2>2. CursorInv(o)' /\ RowSeenInv(o)' /\ SaidInv(o)'
    BY <1>s, <1>u, <2>1 DEF CursorInv, RowSeenInv, SaidInv, PastIntent
  <2> QED BY <2>1, <2>2
<1>1. CASE ReadFails(o)
  BY <1>1, <1>s DEF ReadFails
<1>2. ASSUME pc[o] = "decide"
      PROVE  /\ view[o].row \in { row[o], "SEND_REQUESTED" }
             /\ view[o].tuple \in { row[o], "SEND_REQUESTED" }
             /\ "DISPATCH_SEND_REQUESTED" \in view[o].found
             /\ row[o] # "DISPATCH_BOUND"
             /\ view[o].again => row[o] # "SEND_REQUESTED" \/ o \in failed
  BY <1>2 DEF CursorInv, RowSeenInv, PastIntent
<1>3. CASE DecideAgain(o)
  BY <1>2, <1>3, <1>s DEF DecideAgain, SeenUnknown
<1>4. CASE DecideFirst(o)
  <2>1. pc[o] = "decide"
    BY <1>4 DEF DecideFirst
  <2>2. row[o] = "SEND_REQUESTED" => SeenIntent(view[o])
    BY <1>2, <2>1 DEF SeenIntent
  <2>3. CASE SeenConfirmed(view[o]) /\ Say(o, "confirmed")
    BY <1>2, <1>s, <2>1, <2>3 DEF SeenConfirmed
  <2>4. CASE SeenUnknown(view[o]) /\ Say(o, "unknown")
    BY <1>2, <1>s, <2>1, <2>4 DEF SeenUnknown
  <2>5. CASE ~ SeenIntent(view[o]) /\ Say(o, "notTheIntent")
    BY <1>2, <1>s, <2>1, <2>2, <2>5
  <2>6. CASE Goto(o, "contain") /\ view' = [view EXCEPT ![o] = FreshView]
    <3>1. /\ FreshView \in ViewRows
          /\ FreshView.after = 0 /\ FreshView.again = FALSE
      BY DEF FreshView, ViewRows
    <3>2. /\ pc' = [pc EXCEPT ![o] = "contain"]
          /\ pc'[o] = "contain"
          /\ view'[o] = FreshView
      BY <1>t, <2>6 DEF Goto, CallerTypeOK
    <3>3. CallerTypeOK' /\ OnlyMoves(o)
      BY <1>t, <1>u, <2>6, <3>1, <3>2 DEF CallerTypeOK, OnlyMoves, Labels
    <3>4. CursorInv(o)' /\ SaidInv(o)'
      BY <3>1, <3>2 DEF CursorInv, SaidInv
    <3>5. RowSeenInv(o)'
      BY <1>2, <1>u, <2>1, <3>1, <3>2 DEF RowSeenInv, PastIntent
    <3> QED BY <3>3, <3>4, <3>5
  <2> QED BY <1>4, <2>3, <2>4, <2>5, <2>6 DEF DecideFirst
<1> QED BY <1>1, <1>3, <1>4

\* The POST returns, a transaction begins, or it cannot begin.
LEMMA SendInv ==
    ASSUME TablesInv, NEW o \in Ops, OpInv(o),
           SendReturns(o) \/ CallerBegins(o) \/ CallerRefused(o)
    PROVE  CallerTypeOK' /\ OnlyMoves(o) /\ OpInv(o)'
<1> USE DEF TablesInv, OpInv
<1>t. CallerTypeOK
  BY DEF AuditTypeOK, CallerTypeOK
<1>u. UNCHANGED dbVars
  BY DEF SendReturns, CallerBegins, CallerRefused, Begin
<1>1. CASE SendReturns(o)
  <2>1. PICK l \in { "confirm", "readRow" } : pc' = [pc EXCEPT ![o] = l]
    BY <1>1 DEF SendReturns
  <2>2. pc[o] = "send" /\ pc'[o] = l /\ UNCHANGED <<view, failed>>
    BY <1>1, <1>t, <2>1 DEF SendReturns, CallerTypeOK
  <2>3. CallerTypeOK' /\ OnlyMoves(o)
    BY <1>t, <2>1, <2>2 DEF CallerTypeOK, OnlyMoves, Labels
  <2>4. CursorInv(o)' /\ RowSeenInv(o)' /\ SaidInv(o)'
    BY <1>u, <2>2 DEF CursorInv, RowSeenInv, SaidInv, PastIntent
  <2> QED BY <2>3, <2>4
<1>2. CASE CallerBegins(o)
  <2>1. /\ pc[o] \in { "bound", "confirm", "contain" }
        /\ pc' = [pc EXCEPT ![o] = "tx"] /\ pc'[o] = "tx"
        /\ UNCHANGED <<view, failed>>
    BY <1>2, <1>t DEF CallerBegins, Goto, Target, CallerTypeOK
  <2>2. CallerTypeOK' /\ OnlyMoves(o)
    BY <1>t, <2>1 DEF CallerTypeOK, OnlyMoves, Labels
  <2>3. CursorInv(o)' /\ RowSeenInv(o)' /\ SaidInv(o)'
    BY <1>u, <2>1 DEF CursorInv, RowSeenInv, SaidInv, PastIntent
  <2> QED BY <2>2, <2>3
<1>3. CASE CallerRefused(o)
  <2>0. pc[o] \in { "bound", "confirm", "contain" }
    BY <1>3 DEF CallerRefused, Target
  <2>1. PICK to \in { "SEND_REQUESTED", "SEND_CONFIRMED", "UNKNOWN" } :
           to = Target[pc[o]] /\ AfterTx(o, to, FALSE)
    <3>1. Target[pc[o]] \in { "SEND_REQUESTED", "SEND_CONFIRMED", "UNKNOWN" }
      BY <2>0 DEF Target
    <3>2. AfterTx(o, Target[pc[o]], FALSE)
      BY <1>3 DEF CallerRefused
    <3> QED BY <3>1, <3>2
  <2>2. /\ CallerTypeOK' /\ OnlyMoves(o)
        /\ view'[o].after = view[o].after
        /\ view'[o].again <=> to = "UNKNOWN"
        /\ to = "SEND_REQUESTED" => pc'[o] = "returned" /\ view'[o].said = "error"
        /\ to = "SEND_CONFIRMED" => pc'[o] = "readRow"
        /\ to = "UNKNOWN" => pc'[o] = "readRow" /\ o \in failed'
    BY <1>t, <2>1, AfterTxMoves
  <2>3. to # "SEND_REQUESTED" => pc[o] \in PastIntent
    BY <2>0, <2>1 DEF Target, PastIntent
  <2>4. CursorInv(o)'
    BY <2>0, <2>2 DEF CursorInv
  <2>5. RowSeenInv(o)'
    BY <1>u, <2>2, <2>3 DEF RowSeenInv, PastIntent
  <2>6. SaidInv(o)'
    BY <2>2 DEF SaidInv
  <2> QED BY <2>2, <2>4, <2>5, <2>6
<1> QED BY <1>1, <1>2, <1>3

\* COMMIT or ROLLBACK returns to the one who began.
LEMMA ReportInv ==
    ASSUME TablesInv, HolderInv, [Next]_vars, \A o \in Ops : OpInv(o),
           tx # NULL, NEW ok \in BOOLEAN, Report(ok), ok => Apply /\ tx.left = << >>
    PROVE  CallerTypeOK' /\ \A o \in Ops : OpInv(o)'
<1>t. CallerTypeOK
  BY DEF TablesInv, AuditTypeOK, CallerTypeOK
<1>1. CASE UNCHANGED callerVars
  <2>1. \A o \in Ops : pc'[o] = pc[o] /\ view'[o] = view[o] /\ failed' = failed
    BY <1>1
  <2>2. \A o \in Ops : OpInv(o)'
    BY <2>1, OthersKeep
  <2>3. CallerTypeOK'
    BY <1>1, <1>t DEF CallerTypeOK
  <2> QED BY <2>2, <2>3
<1>2. CASE tx.actor \in Ops /\ AfterTx(tx.op, tx.to, ok)
  <2>1. /\ tx.op \in Ops /\ pc[tx.op] = "tx"
        /\ tx.to \in { "SEND_REQUESTED", "SEND_CONFIRMED", "UNKNOWN" }
    BY <1>2 DEF HolderInv
  <2>2. PICK o \in Ops, to \in { "SEND_REQUESTED", "SEND_CONFIRMED", "UNKNOWN" } :
          o = tx.op /\ to = tx.to
    BY <2>1
  <2>3. <<row[o], to>> \in Moves
    BY <2>1, <2>2, OpsAssumption DEF TablesInv, CopyInv, Grouped
  <2>4. /\ CallerTypeOK' /\ OnlyMoves(o)
        /\ view'[o].after = view[o].after
        /\ view'[o].again <=> to = "UNKNOWN"
        /\ to = "SEND_REQUESTED" /\ ok => pc'[o] = "send"
        /\ to = "SEND_REQUESTED" /\ ~ok => pc'[o] = "returned" /\ view'[o].said = "error"
        /\ to = "SEND_CONFIRMED" /\ ok => pc'[o] = "returned" /\ view'[o].said = "confirmed"
        /\ to = "SEND_CONFIRMED" /\ ~ok => pc'[o] = "readRow"
        /\ to = "UNKNOWN" => pc'[o] = "readRow"
        /\ to = "UNKNOWN" /\ ~ok => o \in failed'
    BY <1>2, <1>t, <2>2, AfterTxMoves
  <2>5. ok => row'[o] = to
    <3>1. ok => row' = [row EXCEPT ![o] = to]
      BY <2>1, <2>2, CommitAdds DEF TablesInv
    <3> QED BY <3>1 DEF TablesInv, AuditTypeOK
  <2>6. row'[o] = row[o] \/ <<row[o], row'[o]>> \in Moves
    BY TablesGrow
  <2>7. OpInv(o)'
    <3>1. view[o].after = 0
      BY <2>1, <2>2 DEF OpInv, CursorInv
    <3>2. CursorInv(o)'
      BY <2>4, <3>1 DEF CursorInv
    <3>3. to # "SEND_REQUESTED" => row'[o] # "DISPATCH_BOUND"
      BY <2>3, <2>6 DEF Moves
    <3>4. RowSeenInv(o)'
      BY <2>4, <2>5, <3>3 DEF RowSeenInv, PastIntent
    <3>5. SaidInv(o)'
      BY <2>4, <2>5 DEF SaidInv
    <3> QED BY <3>2, <3>4, <3>5 DEF OpInv
  <2>8. \A p \in Ops \ {o} : OpInv(p)'
    BY <2>4, OthersKeep DEF OnlyMoves
  <2> QED BY <2>4, <2>7, <2>8
<1> QED BY <1>1, <1>2 DEF Report

-----------------------------------------------------------------------------
(* Preservation.                                                           *)

AuditInv ==
    /\ TablesInv
    /\ HolderInv
    /\ \A o \in Ops : OpInv(o)

\* Empty tables and callers with a bound attempt satisfy it.
LEMMA AuditInit == Init => AuditInv
<1> SUFFICES ASSUME Init PROVE AuditInv
  OBVIOUS
<1> USE DEF Init
<1>1. head.seq = 0 /\ head.hash = GenesisAuditHash /\ DOMAIN events = {}
  OBVIOUS
<1>2. 1 .. 0 = {} /\ 2 .. 0 = {}
  OBVIOUS
<1>3. Linked(events, head)
  BY <1>1, <1>2 DEF Linked
<1>4. FreshView \in ViewRows /\ FreshView.after = 0
  BY DEF FreshView, ViewRows
<1>5. up \in BOOLEAN
  OBVIOUS
<1>6. row \in [Ops -> Stages] /\ pc \in [Ops -> Labels] /\ view \in [Ops -> ViewRows]
  BY <1>4 DEF Stages, Labels
<1>7. AuditTypeOK
  BY <1>1, <1>2, <1>5, <1>6 DEF AuditTypeOK
<1>8. CopyInv /\ EvidenceInv /\ HolderInv
  BY DEF CopyInv, EvidenceInv, HolderInv
<1>9. \A o \in Ops : OpInv(o)
  BY <1>4 DEF OpInv, CursorInv, RowSeenInv, SaidInv, PastIntent
<1> QED BY <1>3, <1>7, <1>8, <1>9 DEF AuditInv, TablesInv

\* Steps of one caller.
Moving(o) == Caller(o) \/ ReadFails(o)

\* A caller's step keeps what is known of every caller.
LEMMA MovingInv ==
    ASSUME AuditInv, [Next]_vars, NEW o \in Ops, Moving(o)
    PROVE  CallerTypeOK' /\ OnlyMoves(o) /\ \A p \in Ops : OpInv(p)'
<1>1. CallerTypeOK' /\ OnlyMoves(o) /\ OpInv(o)'
  BY SendInv, ReadsInv, ListPageInv, DecideInv DEF AuditInv, Moving, Caller, Reread
<1>2. \A p \in Ops \ {o} : OpInv(p)'
  BY <1>1, OthersKeep DEF AuditInv, OnlyMoves
<1> QED BY <1>1, <1>2

\* A crash forgets every caller.
LEMMA CrashInv ==
    ASSUME AuditInv, Crash
    PROVE  CallerTypeOK' /\ \A o \in Ops : OpInv(o)'
<1>1. FreshView \in ViewRows /\ FreshView.after = 0
  BY DEF FreshView, ViewRows
<1>2. \A o \in Ops : pc'[o] \in { "bound", "gone" } /\ view'[o] = FreshView
  BY DEF Crash
<1>3. CallerTypeOK'
  BY <1>1 DEF Crash, CallerTypeOK, Labels
<1>4. \A o \in Ops : OpInv(o)'
  BY <1>1, <1>2 DEF OpInv, CursorInv, RowSeenInv, SaidInv, PastIntent
<1> QED BY <1>3, <1>4

\* Every step keeps what is known of the callers.
LEMMA CallersStep ==
    ASSUME AuditInv, [Next]_vars
    PROVE  CallerTypeOK' /\ \A o \in Ops : OpInv(o)'
<1>1. CASE UNCHANGED callerVars
  <2>1. \A o \in Ops : pc'[o] = pc[o] /\ view'[o] = view[o] /\ failed' = failed
    BY <1>1
  <2>2. \A o \in Ops : OpInv(o)'
    BY <2>1, OthersKeep DEF AuditInv
  <2>3. CallerTypeOK'
    BY <1>1 DEF CallerTypeOK, AuditInv, TablesInv, AuditTypeOK
  <2> QED BY <2>2, <2>3
<1>2. CASE Crash
  BY <1>2, CrashInv
<1>3. ASSUME NEW o \in Ops, Moving(o)
      PROVE  CallerTypeOK' /\ \A p \in Ops : OpInv(p)'
  BY <1>3, MovingInv
<1>4. CASE Commit
  BY <1>4, ReportInv DEF Commit, AuditInv
<1>5. CASE CommitAnswerLost \/ TxFails
  BY <1>5, ReportInv DEF CommitAnswerLost, TxFails, AuditInv
<1> QED BY <1>1, <1>2, <1>3, <1>4, <1>5
    DEF Next, Transaction, AppendOne, Moving, ObserverCloses, SweepContains, AppendAuditEvent,
        AppendBegins, AppendRetries, SweepEnds

\* The open transaction keeps its type, and its caller waits.
LEMMA TxStep ==
    ASSUME AuditInv, [Next]_vars
    PROVE  (tx # NULL => tx \in TxRows)' /\ HolderInv'
<1>0. (tx # NULL => tx \in TxRows) /\ HolderInv
  BY DEF AuditInv, TablesInv, AuditTypeOK
<1>1. CASE tx' = NULL
  BY <1>1 DEF HolderInv
<1>2. CASE UNCHANGED tx /\ UNCHANGED pc
  BY <1>0, <1>2 DEF HolderInv
<1>3. CASE AppendOne
  <2>1. tx \in TxRows /\ tx.left \in Seq(EntryRows) /\ tx.left # << >>
    BY <1>0, <1>3 DEF AppendOne, TxRows
  <2>2. Tail(tx.left) \in Seq(EntryRows)
    BY <2>1
  <2>3. tx' = [tx EXCEPT !.left = Tail(tx.left)] /\ UNCHANGED pc /\ tx # NULL
    BY <1>3 DEF AppendOne
  <2>4. tx' \in TxRows /\ tx'.actor = tx.actor /\ tx'.op = tx.op /\ tx'.to = tx.to
    BY <2>1, <2>2, <2>3 DEF TxRows
  <2> QED BY <1>0, <2>3, <2>4 DEF HolderInv
<1>4. ASSUME NEW actor \in Ops \cup {"observer"}, NEW o \in Ops, NEW to, Begin(actor, o, to)
      PROVE  tx' \in TxRows /\ tx'.actor = actor /\ tx'.op = o /\ tx'.to = to
  <2>1. /\ <<row[o], to>> \in Moves
        /\ tx' = [ actor |-> actor, op |-> o, to |-> to, left |-> EntriesOf(o, to) ]
    BY <1>4 DEF Begin
  <2>2. to \in Stages /\ EntriesOf(o, to) \in Seq(EntryRows)
    BY <2>1, EntriesTyped
  <2> QED BY <2>1, <2>2 DEF TxRows
<1>5. ASSUME NEW o \in Ops, ObserverCloses(o) \/ SweepContains(o)
      PROVE  (tx # NULL => tx \in TxRows)' /\ HolderInv'
  <2>1. tx' \in TxRows /\ tx'.actor = "observer"
    BY <1>4, <1>5 DEF ObserverCloses, SweepContains
  <2> QED BY <2>1, OpsAssumption DEF HolderInv
<1>6. CASE AppendBegins
  <2>1. /\ append.id \in EventIDs
        /\ tx' = [ actor |-> "appender", op |-> NULL, to |-> NULL,
                   left |-> << NoteEntry(append.id) >> ]
    BY <1>6 DEF AppendBegins, AuditInv, TablesInv, AuditTypeOK
  <2>2. << NoteEntry(append.id) >> \in Seq(EntryRows)
    BY <2>1 DEF NoteEntry, EntryRows, Types
  <2>3. tx' \in TxRows /\ tx'.actor = "appender"
    BY <2>1, <2>2 DEF TxRows
  <2> QED BY <2>3, OpsAssumption DEF HolderInv
<1>7. ASSUME NEW o \in Ops, CallerBegins(o)
      PROVE  (tx # NULL => tx \in TxRows)' /\ HolderInv'
  <2>1. /\ pc[o] \in { "bound", "confirm", "contain" }
        /\ Begin(o, o, Target[pc[o]])
        /\ pc'[o] = "tx"
    BY <1>7 DEF CallerBegins, Target, Goto, AuditInv, TablesInv, AuditTypeOK
  <2>2. Target[pc[o]] \in { "SEND_REQUESTED", "SEND_CONFIRMED", "UNKNOWN" }
    BY <2>1 DEF Target
  <2>3. tx' \in TxRows /\ tx'.actor = o /\ tx'.op = o /\ tx'.to = Target[pc[o]]
    BY <1>4, <2>1
  <2> QED BY <2>1, <2>2, <2>3 DEF HolderInv
<1>8. ASSUME NEW o \in Ops, Moving(o), ~ CallerBegins(o)
      PROVE  (tx # NULL => tx \in TxRows)' /\ HolderInv'
  <2>1. OnlyMoves(o)
    BY <1>8, MovingInv
  <2>2. UNCHANGED tx /\ pc[o] # "tx"
    BY <1>8 DEF Moving, Caller, CallerRefused, SendReturns, Reread, ReadRow, ReadTuple, Verify,
       ListPage, DecideFirst, DecideAgain, ReadFails, Target
  <2>3. tx # NULL /\ tx.actor \in Ops => tx.op \in Ops /\ pc'[tx.op] = pc[tx.op]
    BY <1>0, <2>1, <2>2 DEF HolderInv, OnlyMoves
  <2> QED BY <1>0, <2>2, <2>3 DEF HolderInv
<1> QED BY <1>1, <1>2, <1>3, <1>5, <1>6, <1>7, <1>8
    DEF Next, Transaction, Commit, CommitAnswerLost, TxFails, Close, Moving, AppendAuditEvent,
        AppendRetries, SweepEnds, Crash

\* The pending call of AppendAuditEvent and the gate keep their types.
LEMMA AppendStep ==
    ASSUME AuditInv, [Next]_vars
    PROVE  (append # NULL => append \in [ id : EventIDs, tries : Nat ])' /\ (up \in BOOLEAN)'
<1>0. (append # NULL => append \in [ id : EventIDs, tries : Nat ]) /\ up \in BOOLEAN
  BY DEF AuditInv, TablesInv, AuditTypeOK
<1>1. (up \in BOOLEAN)'
  <2>1. up' \in { up, TRUE, FALSE }
    BY DEF Next, Transaction, AppendOne, Commit, CommitAnswerLost, TxFails, Caller, CallerBegins,
       CallerRefused, SendReturns, Reread, ReadRow, ReadTuple, Verify, ListPage, DecideFirst,
       DecideAgain, ReadFails, ObserverCloses, SweepContains, AppendAuditEvent, AppendBegins,
       AppendRetries, SweepEnds, Crash
  <2> QED BY <1>0, <2>1
<1>2. CASE UNCHANGED append \/ append' = NULL
  BY <1>0, <1>1, <1>2
<1>3. ASSUME NEW id \in EventIDs, AppendAuditEvent(id)
      PROVE  append' \in [ id : EventIDs, tries : Nat ]
  BY <1>3 DEF AppendAuditEvent
<1>4. CASE AppendRetries
  <2>1. CASE append' = NULL
    BY <1>1, <2>1
  <2>2. CASE append' = [append EXCEPT !.tries = append.tries + 1]
    <3>1. append \in [ id : EventIDs, tries : Nat ]
      BY <1>0, <1>4 DEF AppendRetries
    <3>2. append' \in [ id : EventIDs, tries : Nat ]
      BY <2>2, <3>1
    <3> QED BY <1>1, <3>2
  <2> QED BY <1>4, <2>1, <2>2 DEF AppendRetries
<1>5. ASSUME NEW ok, Report(ok) PROVE UNCHANGED append \/ append' = NULL
  BY <1>5 DEF Report
<1>6. \/ UNCHANGED append \/ append' = NULL
      \/ \E id \in EventIDs : AppendAuditEvent(id)
      \/ AppendRetries
  BY <1>5 DEF Next, Transaction, AppendOne, Commit, CommitAnswerLost, TxFails, Caller,
     CallerBegins, CallerRefused, SendReturns, Reread, ReadRow, ReadTuple, Verify, ListPage,
     DecideFirst, DecideAgain, ReadFails, ObserverCloses, SweepContains, AppendBegins,
     SweepEnds, Crash
<1> QED BY <1>1, <1>2, <1>3, <1>4, <1>6

\* Every step keeps the invariant.
LEMMA AuditStep ==
    ASSUME AuditInv, [Next]_vars
    PROVE  AuditInv'
<1>1. /\ Linked(events', head')
      /\ row' \in [Ops -> Stages]
  BY TablesGrow DEF AuditInv
<1>2. CopyInv' /\ EvidenceInv'
  BY CopyStep, EvidenceStep DEF AuditInv
<1>3. CallerTypeOK' /\ \A o \in Ops : OpInv(o)'
  BY CallersStep
<1>4. (tx # NULL => tx \in TxRows)' /\ HolderInv'
  BY TxStep
<1>5. AuditTypeOK'
  BY <1>1, <1>3, <1>4, AppendStep DEF AuditTypeOK, CallerTypeOK, Linked
<1>6. Linked(events, head)'
  BY <1>1 DEF Linked
<1> QED BY <1>2, <1>3, <1>4, <1>5, <1>6 DEF AuditInv, TablesInv

-----------------------------------------------------------------------------
(* Theorems.                                                               *)

\* The inductive invariant holds in every reachable state.
THEOREM AuditInvariant == Spec => []AuditInv
<1>1. Init => AuditInv
  BY AuditInit
<1>2. AuditInv /\ [Next]_vars => AuditInv'
  BY AuditStep
<1> QED BY <1>1, <1>2, PTL DEF Spec

\* Rows, events, callers and their views stay well typed.
THEOREM AuditTypeCorrect == Spec => []AuditTypeOK
<1>1. AuditInv => AuditTypeOK
  BY DEF AuditInv, TablesInv
<1> QED BY <1>1, AuditInvariant, PTL

\* VerifyAuditChain accepts every committed snapshot, however transactions of
\* different writers are refused, rolled back, cut off or answered too late.
THEOREM ChainAlwaysVerifies == Spec => []ChainVerifies
<1>1. AuditInv => ChainVerifies
  BY LinkedVerifies DEF AuditInv, TablesInv, ChainVerifies
<1> QED BY <1>1, AuditInvariant, PTL

\* What containAmbiguousSend returns is true of the row, although it reads
\* row, tuple, chain and pages one after the other.
THEOREM ContainmentIsSound == Spec => []ContainmentSound
<1>1. AuditInv => ContainmentSound
  <2> SUFFICES ASSUME AuditInv, NEW o \in Ops, up, pc[o] = "returned"
               PROVE  /\ view[o].said = "confirmed" => row[o] = "SEND_CONFIRMED"
                      /\ view[o].said = "unknown" => row[o] = "UNKNOWN"
                      /\ view[o].said = "notTheIntent" => row[o] # "SEND_REQUESTED"
                      /\ view[o].said = "recoveryRequired" =>
                            row[o] # "SEND_REQUESTED" \/ o \in failed
                      /\ view[o].said # "chainInvalid"
    BY DEF ContainmentSound
  <2>1. SaidInv(o)
    BY DEF AuditInv, OpInv
  <2> QED BY <2>1 DEF SaidInv
<1> QED BY <1>1, AuditInvariant, PTL

-----------------------------------------------------------------------------
(* Refinement.                                                             *)

\* The trail of a chain is a sequence of entries as long as the chain.
LEMMA TrailIsSequence ==
    ASSUME NEW evs, NEW hd, Linked(evs, hd)
    PROVE  /\ [ s \in DOMAIN evs |-> evs[s].entry ] \in Seq(EntryRows)
           /\ Len([ s \in DOMAIN evs |-> evs[s].entry ]) = hd.seq
<1>1. hd.seq \in Nat /\ DOMAIN evs = 1 .. hd.seq
  BY DEF Linked
<1>2. [ s \in 1 .. hd.seq |-> evs[s].entry ] \in [1 .. hd.seq -> EntryRows]
  BY DEF Linked
<1>3. [ s \in 1 .. hd.seq |-> evs[s].entry ] \in Seq(EntryRows)
  BY <1>1, <1>2
<1> QED BY <1>1, <1>3

\* A sequence that continues one with the elements of another.
LEMMA ConcatIs ==
    ASSUME NEW S, NEW new \in Seq(S), NEW old \in Seq(S), NEW all \in Seq(S),
           Len(new) = Len(old) + Len(all),
           \A s \in 1 .. Len(old) : new[s] = old[s],
           \A i \in 1 .. Len(all) : new[Len(old) + i] = all[i]
    PROVE  new = old \o all
<1>1. old \o all \in Seq(S) /\ Len(old \o all) = Len(old) + Len(all)
  OBVIOUS
<1>2. ASSUME NEW s \in 1 .. Len(new)
      PROVE  new[s] = (old \o all)[s]
  <2>n. Len(old) \in Nat /\ Len(all) \in Nat /\ s \in Nat
    OBVIOUS
  <2>1. CASE s <= Len(old)
    BY <2>1, <2>n
  <2>2. CASE s > Len(old)
    <3>1. s - Len(old) \in 1 .. Len(all) /\ Len(old) + (s - Len(old)) = s
      BY <2>2, <2>n
    <3>2. new[s] = all[s - Len(old)]
      BY <3>1
    <3>3. (old \o all)[s] = all[s - Len(old)]
      BY <2>2, <2>n
    <3> QED BY <3>2, <3>3
  <2> QED BY <2>1, <2>2, <2>n
<1>3. DOMAIN new = 1 .. Len(new) /\ DOMAIN (old \o all) = 1 .. Len(new)
  BY <1>1
<1> QED BY <1>1, <1>2, <1>3

\* A commit appends its group of entries to the trail.
LEMMA CommitAppends ==
    ASSUME TablesInv, tx # NULL, tx.left = << >>, Apply
    PROVE  \E all \in Seq(EntryRows) :
              /\ Grouped(all)
              /\ Len(all) = work.head.seq - head.seq
              /\ [ s \in DOMAIN events' |-> events'[s].entry ] =
                    [ s \in DOMAIN events |-> events[s].entry ] \o all
<1> DEFINE old == [ s \in DOMAIN events |-> events[s].entry ]
           new == [ s \in DOMAIN events' |-> events'[s].entry ]
<1>1. PICK all \in Seq(EntryRows) :
        /\ Grouped(all)
        /\ Len(all) = work.head.seq - head.seq
        /\ head'.seq = head.seq + Len(all)
        /\ \A i \in 1 .. Len(all) : events'[head.seq + i].entry = all[i]
  BY CommitAdds DEF TablesInv
<1>2. /\ Linked(events', head')
      /\ \A s \in 1 .. head.seq : events'[s] = events[s]
      /\ Linked(events, head)
  BY CommitAdds DEF TablesInv
<1>3. /\ old \in Seq(EntryRows) /\ Len(old) = head.seq
      /\ new \in Seq(EntryRows) /\ Len(new) = head'.seq
  BY <1>2, TrailIsSequence
<1>4. /\ head.seq \in Nat /\ Len(all) \in Nat
      /\ DOMAIN events = 1 .. head.seq
      /\ DOMAIN events' = 1 .. (head.seq + Len(all))
  BY <1>1, <1>2 DEF Linked
<1>5. \A s \in 1 .. head.seq : new[s] = old[s]
  BY <1>2, <1>4
<1>6. \A i \in 1 .. Len(all) : new[head.seq + i] = all[i]
  BY <1>1, <1>4
<1> HIDE DEF old, new
<1>7. Len(new) = Len(old) + Len(all)
  BY <1>1, <1>3
<1>8. /\ \A s \in 1 .. Len(old) : new[s] = old[s]
      /\ \A i \in 1 .. Len(all) : new[Len(old) + i] = all[i]
  BY <1>3, <1>5, <1>6
<1>9. new \in Seq(EntryRows) /\ old \in Seq(EntryRows) /\ all \in Seq(EntryRows)
  BY <1>1, <1>3
<1>10. new = old \o all
  BY ONLY <1>7, <1>8, <1>9, ConcatIs
<1> QED BY <1>1, <1>10 DEF old, new

\* A commit is a decision with its entries, or a note.
LEMMA CommitRefines ==
    ASSUME TablesInv, tx # NULL, tx.left = << >>, Apply
    PROVE  Trail!TrailNext
<1>1. PICK all \in Seq(EntryRows) :
        /\ Grouped(all)
        /\ Len(all) = work.head.seq - head.seq
        /\ [ s \in DOMAIN events' |-> events'[s].entry ] =
              [ s \in DOMAIN events |-> events[s].entry ] \o all
  BY CommitAppends
<1>2. row' = IF tx.op \in Ops THEN [row EXCEPT ![tx.op] = tx.to] ELSE row
  BY DEF Apply
<1>3. CASE tx.op \in Ops
  <2>1. <<row[tx.op], tx.to>> \in Moves /\ all = EntriesOf(tx.op, tx.to)
    BY <1>1, <1>3, OpsAssumption DEF Grouped
  <2>2. PICK to : to = tx.to
    OBVIOUS
  <2>3. PICK o \in Ops : o = tx.op
    BY <1>3
  <2>4. PICK d \in Moves : d = <<row[o], to>>
    BY <2>1, <2>2, <2>3
  <2>5. d[2] = to
    BY <2>4
  <2>6. Trail!Decide(o, d[2])
    BY <1>1, <1>2, <1>3, <2>1, <2>2, <2>3, <2>5 DEF Trail!Decide
  <2> HIDE DEF Moves
  <2> QED BY <2>6 DEF Trail!TrailNext
<1>4. CASE tx.op \notin Ops
  <2>1. PICK id \in EventIDs : all = << NoteEntry(id) >>
    BY <1>1, <1>4 DEF Grouped
  <2>2. work.head.seq > head.seq
    <3>1. Len(all) = 1
      BY <2>1
    <3>2. work.head.seq \in Nat /\ head.seq \in Nat
      BY DEF TablesInv, CopyInv, Linked
    <3>3. Len(all) = work.head.seq - head.seq
      BY <1>1
    <3> QED BY <3>1, <3>2, <3>3
  <2>3. \A s \in DOMAIN events : events[s].entry # NoteEntry(id)
    BY <1>1, <1>4, <2>1, <2>2 DEF Grouped, TablesInv, Linked
  <2>4. [ s \in DOMAIN events |-> events[s].entry ] \o << NoteEntry(id) >> =
          Append([ s \in DOMAIN events |-> events[s].entry ], NoteEntry(id))
    BY TrailIsSequence DEF TablesInv
  <2>5. Trail!Note(NoteEntry(id))
    BY <1>1, <1>2, <1>4, <2>1, <2>3, <2>4 DEF Trail!Note
  <2> QED BY <2>5 DEF Trail!TrailNext
<1> QED BY <1>3, <1>4

\* The tables implement AuditTrail: decisions and their entries appear
\* together, in whole groups, and the trail only grows.
THEOREM AuditImplementsTrail == Spec => ImplementsAuditTrail
<1>1. Init => Trail!TrailInit
  BY DEF Init, Trail!TrailInit
<1>2. AuditInv /\ [Next]_vars => [Trail!TrailNext]_(Trail!trailVars)
  <2> SUFFICES ASSUME AuditInv, [Next]_vars
               PROVE  [Trail!TrailNext]_(Trail!trailVars)
    OBVIOUS
  <2>1. CASE UNCHANGED dbVars
    BY <2>1 DEF Trail!trailVars
  <2>2. CASE tx # NULL /\ tx.left = << >> /\ Apply
    BY <2>2, CommitRefines DEF AuditInv
  <2> QED BY <2>1, <2>2, CommitOrNot
<1> QED BY <1>1, <1>2, AuditInvariant, PTL DEF Spec, ImplementsAuditTrail, Trail!TrailSpec
=============================================================================
