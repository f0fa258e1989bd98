--------------------------- MODULE MCAuditReaders ---------------------------
(***************************************************************************)
(* An instance of AuditReaders for TLC: two transactions of any kind the   *)
(* handlers have.                                                          *)
(***************************************************************************)
EXTENDS AuditReaders

CONSTANTS w1, w2
=============================================================================
