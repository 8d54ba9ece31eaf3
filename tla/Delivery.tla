------------------------------ MODULE Delivery ------------------------------
(***************************************************************************)
(* What the dispatch saga promises about one instruction and AO, whatever  *)
(* callers, observers and crashes do: the message is intended durably      *)
(* before it is transmitted, it is transmitted at most once, it is called  *)
(* confirmed only if AO accepted it, and "confirmed" and "unknown" are     *)
(* final and exclude each other.  An unknown outcome may still be          *)
(* transmitted late: containment does not recall a request.                *)
(***************************************************************************)
CONSTANT Attempts

VARIABLES
    outcome,      \* none, bound, intended, confirmed or unknown
    transmitted,  \* attempts whose message was put on the wire
    accepted      \* attempts whose message AO accepted

dvars == <<outcome, transmitted, accepted>>

DeliveryInit ==
    /\ outcome = [a \in Attempts |-> "none"]
    /\ transmitted = {}
    /\ accepted = {}

Advance(a, from, to) ==
    /\ outcome[a] = from
    /\ outcome' = [outcome EXCEPT ![a] = to]

Bind(a) == Advance(a, "none", "bound") /\ UNCHANGED <<transmitted, accepted>>

Intend(a) == Advance(a, "bound", "intended") /\ UNCHANGED <<transmitted, accepted>>

Transmit(a) ==
    /\ outcome[a] \in { "intended", "unknown" }
    /\ a \notin transmitted
    /\ transmitted' = transmitted \cup {a}
    /\ UNCHANGED <<outcome, accepted>>

Accept(a) ==
    /\ a \in transmitted
    /\ a \notin accepted
    /\ accepted' = accepted \cup {a}
    /\ UNCHANGED <<outcome, transmitted>>

Confirm(a) ==
    /\ a \in accepted
    /\ Advance(a, "intended", "confirmed")
    /\ UNCHANGED <<transmitted, accepted>>

Contain(a) == Advance(a, "intended", "unknown") /\ UNCHANGED <<transmitted, accepted>>

DeliveryNext ==
    \E a \in Attempts :
        \/ Bind(a)
        \/ Intend(a)
        \/ Transmit(a)
        \/ Accept(a)
        \/ Confirm(a)
        \/ Contain(a)

DeliverySpec == DeliveryInit /\ [][DeliveryNext]_dvars
=============================================================================
