------------------------------ MODULE Workflow ------------------------------
(***************************************************************************)
(* The canonical task graph of internal/workflow/state_machine.go: 13      *)
(* states, 22 allowed transitions.  Constants only; every module that      *)
(* moves a task extends this one.                                          *)
(***************************************************************************)

TaskStates ==
    { "DRAFT", "READY", "DISPATCHED", "RUNNING", "REPORT_READY",
      "EVIDENCE_READY", "REVIEWING", "APPROVED", "REVISION_REQUIRED",
      "BLOCKED", "FAILED", "HUMAN_REQUIRED", "CANCELLED" }

\* The adjacency map, as a relation.
AllowedTransitions ==
    { <<"DRAFT", "READY">>, <<"DRAFT", "CANCELLED">>,
      <<"READY", "DISPATCHED">>, <<"READY", "CANCELLED">>,
      <<"DISPATCHED", "RUNNING">>, <<"DISPATCHED", "FAILED">>,
      <<"RUNNING", "REPORT_READY">>, <<"RUNNING", "FAILED">>,
      <<"RUNNING", "BLOCKED">>,
      <<"REPORT_READY", "EVIDENCE_READY">>, <<"REPORT_READY", "FAILED">>,
      <<"EVIDENCE_READY", "REVIEWING">>, <<"EVIDENCE_READY", "FAILED">>,
      <<"REVIEWING", "APPROVED">>, <<"REVIEWING", "REVISION_REQUIRED">>,
      <<"REVIEWING", "BLOCKED">>,
      <<"REVISION_REQUIRED", "READY">>,
      <<"BLOCKED", "HUMAN_REQUIRED">>,
      <<"FAILED", "HUMAN_REQUIRED">>, <<"FAILED", "READY">>,
      <<"HUMAN_REQUIRED", "DRAFT">>, <<"HUMAN_REQUIRED", "CANCELLED">> }

CanTransition(from, to) == <<from, to>> \in AllowedTransitions

\* The states that occupy the one execution lane of a Pair.
ActiveLane == { "DISPATCHED", "RUNNING", "REVIEWING" }
=============================================================================
