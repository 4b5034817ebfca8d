---------------------------- MODULE MCAuditService ----------------------------
(***************************************************************************)
(* Instances of AuditService for TLC: four events, enough to fill a queue  *)
(* of one while both flushes are about to give one back; no row can hold   *)
(* the first.                                                              *)
(***************************************************************************)
EXTENDS AuditService

CONSTANTS e1, e2, e3, e4

MCEvents == {e1, e2, e3, e4}
MCUnwritable == {e1}
=============================================================================
