----------------------------- MODULE MCRestore -----------------------------
(* Model values for Restore, and the databases a host is restarted on.     *)
EXTENDS Restore, TLC

CONSTANTS t1, p1, p2

OneTask == {t1}
OnePrincipal == {p1}
TwoPrincipals == {p1, p2}
NoCallers == {}
NoEdges == {}
AllPurposes == StopPurposes

\* The session is gone and its last attempt was closed over it (D12).
TerminatedRows ==
    /\ taskState = [t \in Tasks |-> "FAILED"]
    /\ disposition = [a \in Attempts |-> IF a[2] = 1 THEN "WORKER_TERMINATION_UNKNOWN" ELSE NULL]
    /\ quarantine = [a \in Attempts |-> "CLEAN"]
    /\ stage = [a \in Attempts |-> IF a[2] = 1 THEN "SEND_CONFIRMED" ELSE "NONE"]
    /\ resolution = [a \in Attempts |-> NULL]
    /\ budget = [a \in Attempts |-> IF a[2] = 1 THEN "SEND_CONFIRMATION_ATOMIC" ELSE "NONE"]
    /\ delivered = [a \in Attempts |-> IF a[2] = 1 THEN 1 ELSE 0]
    /\ sessionStatus = "TERMINATED"
    /\ sessionQuarantine = "CLEAN"

\* The last attempt's delivery is unknown; D5 has contained it.
ContainedRows ==
    /\ taskState = [t \in Tasks |-> "HUMAN_REQUIRED"]
    /\ disposition = [a \in Attempts |-> IF a[2] = 1 THEN "UNCERTAIN_DELIVERY_CRASH" ELSE NULL]
    /\ quarantine = [a \in Attempts |-> IF a[2] = 1 THEN "QUARANTINED" ELSE "CLEAN"]
    /\ stage = [a \in Attempts |-> IF a[2] = 1 THEN "SEND_REQUESTED" ELSE "NONE"]
    /\ resolution = [a \in Attempts |-> IF a[2] = 1 THEN "DELIVERY_OUTCOME_UNKNOWN" ELSE NULL]
    /\ budget = [a \in Attempts |-> "NONE"]
    /\ delivered = [a \in Attempts |-> 0]
    /\ sessionStatus = "IDLE"
    /\ sessionQuarantine = "QUARANTINED"

RestartInit ==
    /\ TerminatedRows \/ ContainedRows
    /\ currentAttempt = [t \in Tasks |-> 1]
    /\ contract = [t \in Tasks |-> "IMMUTABLE"]
    /\ attemptState = [a \in Attempts |-> IF a[2] = 1 THEN "ENDED" ELSE "NONE"]
    /\ boundGen = [a \in Attempts |-> 0]
    /\ sends = [a \in Attempts |-> IF a[2] = 1 THEN 1 ELSE 0]
    /\ sessionGen = 0
    /\ stopOp = [s \in Stops |-> NoStop]
    /\ restoreOp = NoRestore
    /\ provisionStage = "PROVISION_CONFIRMED"
    /\ pc = [c \in Callers |-> "idle"]
    /\ att = [c \in Callers |-> NoAttempt]
    /\ obs = [c \in Callers |-> NULL]
    /\ acked = {}
    /\ phase = "closed"
    /\ work = {}
    /\ escalate = {}
    /\ owned = {}
    /\ poll = {}
    /\ StopStoreInit
    /\ StopProcessesInit
    /\ RestoreProcessesInit

RestartSpec == RestartInit /\ [][RestoreNext]_restoreAllVars

\* Principals are interchangeable in every action and property.
PrincipalSymmetry == Permutations({p1, p2})
=============================================================================
