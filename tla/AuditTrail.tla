----------------------------- MODULE AuditTrail -----------------------------
(***************************************************************************)
(* What the store promises about its audit: one trail of entries, written  *)
(* in whole groups, each together with the decision it records, and never  *)
(* changed afterwards.  A decision is taken once along its path, so it is  *)
(* in the trail exactly once.                                              *)
(***************************************************************************)
EXTENDS Naturals, Sequences

CONSTANTS
    Ops,           \* dispatch operations
    Decisions,     \* pairs of stages a transaction may lead an operation through
    Entries(_, _), \* the entries of an operation's step into a stage
    Notes          \* entries that record no decision

VARIABLES
    decided,       \* the stage of each operation
    trail          \* the entries, oldest first

trailVars == <<decided, trail>>

TrailInit ==
    /\ decided = [o \in Ops |-> "DISPATCH_BOUND"]
    /\ trail = << >>

Decide(o, to) ==
    /\ <<decided[o], to>> \in Decisions
    /\ decided' = [decided EXCEPT ![o] = to]
    /\ trail' = trail \o Entries(o, to)

\* A note goes in at most once.
Note(e) ==
    /\ \A i \in DOMAIN trail : trail[i] # e
    /\ trail' = Append(trail, e)
    /\ UNCHANGED decided

TrailNext ==
    \/ \E o \in Ops, d \in Decisions : Decide(o, d[2])
    \/ \E e \in Notes : Note(e)

TrailSpec == TrailInit /\ [][TrailNext]_trailVars
=============================================================================
