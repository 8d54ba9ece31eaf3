----------------------------- MODULE MCRecovery -----------------------------
(* Model values for Recovery: callers, startup sweep, poller and crashes.  *)
EXTENDS Recovery, TLC

CONSTANTS t1, c1, p1

OneTask == {t1}
OnePrincipal == {p1}
OneCaller == {c1}

\* Everything TransitionTask may drive.
AllEdges == AllowedTransitions \ SagaEdges
=============================================================================
