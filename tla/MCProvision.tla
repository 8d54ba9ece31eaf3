---------------------------- MODULE MCProvision ----------------------------
(* Model values for Provisioning: a new Pair, its first session, its lane. *)
EXTENDS Provisioning, TLC

CONSTANTS t1, t2, c1, c2, p1

OnePrincipal == {p1}
TwoTasks == {t1, t2}
TwoCallers == {c1, c2}

\* The way of a task through the lane: out of it with a report and back into
\* it for review.
LaneEdges ==
    { <<"RUNNING", "REPORT_READY">>, <<"REPORT_READY", "EVIDENCE_READY">>,
      <<"EVIDENCE_READY", "REVIEWING">> }

\* Tasks are interchangeable in Init, in every action and in the properties,
\* and so are callers.
Symmetry == Permutations({t1, t2}) \cup Permutations({c1, c2})
=============================================================================
