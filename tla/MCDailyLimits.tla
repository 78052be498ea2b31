--------------------------- MODULE MCDailyLimits ---------------------------
(* Instances of DailyLimits for TLC: the processes are interchangeable. *)
EXTENDS DailyLimits, TLC

CONSTANTS a, b

Symmetry == Permutations(Procs)
=============================================================================
