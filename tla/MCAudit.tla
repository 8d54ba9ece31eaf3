------------------------------ MODULE MCAudit ------------------------------
(* Model values for AuditChain.                                            *)
EXTENDS AuditChain

CONSTANTS o1, e1, e2, e3

OneOp == {o1}
ThreeIDs == {e1, e2, e3}
=============================================================================
