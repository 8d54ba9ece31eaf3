------------------------------- MODULE MCStop -------------------------------
(* Model values for Stop: dispatch, stops, sweep, poller, timeout monitor. *)
EXTENDS Stop, TLC

CONSTANTS t1, c1, p1

OneTask == {t1}
OnePrincipal == {p1}
OneCaller == {c1}

\* A task that failed may be tried again, or be given to a human.
RetryEdges == { <<"FAILED", "READY">>, <<"FAILED", "HUMAN_REQUIRED">> }
NoEdges == {}

AllPurposes == StopPurposes
NoPurposes == {}

-----------------------------------------------------------------------------
(* A restart on the database that an ambiguous delivery has left: the      *)
(* first attempt was sent, contained by D5 and is quarantined with the     *)
(* session.  Clearance and its stops start here.                           *)

ContainedInit ==
    /\ taskState = [t \in Tasks |-> "HUMAN_REQUIRED"]
    /\ currentAttempt = [t \in Tasks |-> 1]
    /\ contract = [t \in Tasks |-> "IMMUTABLE"]
    /\ attemptState = [a \in Attempts |-> "ENDED"]
    /\ disposition = [a \in Attempts |-> "UNCERTAIN_DELIVERY_CRASH"]
    /\ quarantine = [a \in Attempts |-> "QUARANTINED"]
    /\ boundGen = [a \in Attempts |-> 0]
    /\ stage = [a \in Attempts |-> "SEND_REQUESTED"]
    /\ resolution = [a \in Attempts |-> "DELIVERY_OUTCOME_UNKNOWN"]
    /\ budget = [a \in Attempts |-> "NONE"]
    /\ sessionGen = 0
    /\ sessionStatus = "IDLE"
    /\ sessionQuarantine = "QUARANTINED"
    /\ stopOp = [s \in Stops |-> NoStop]
    /\ restoreOp = NoRestore
    /\ provisionStage = "PROVISION_CONFIRMED"
    /\ pc = [c \in Callers |-> "idle"]
    /\ att = [c \in Callers |-> NoAttempt]
    /\ obs = [c \in Callers |-> NULL]
    /\ sends = [a \in Attempts |-> 1]
    /\ delivered = [a \in Attempts |-> 0]
    /\ acked = {}
    /\ phase = "closed"
    /\ work = {}
    /\ escalate = {}
    /\ owned = {}
    /\ poll = {}
    /\ StopStoreInit
    /\ StopProcessesInit

ContainedSpec == ContainedInit /\ [][StopNext]_stopAllVars
=============================================================================
