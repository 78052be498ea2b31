--------------------------- MODULE MCLedgerAudit ---------------------------
(* Instances of LedgerAudit for TLC. *)
EXTENDS LedgerAudit

CONSTANTS a, b
=============================================================================
