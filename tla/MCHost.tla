------------------------------- MODULE MCHost -------------------------------
(* Model values for Host: two daemons on one database, two takeovers.      *)
EXTENDS Host

CONSTANTS d1, d2, c1, c2

TwoProcs == {d1, d2}
TwoClients == {c1, c2}
TwoFiles == 1 .. 2
=============================================================================
