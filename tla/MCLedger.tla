------------------------------ MODULE MCLedger ------------------------------
(* Instances of Ledger for TLC: the processes are interchangeable. *)
EXTENDS Ledger, TLC

CONSTANTS a, b

Symmetry == Permutations(Procs)
=============================================================================
