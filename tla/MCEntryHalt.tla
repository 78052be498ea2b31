---------------------------- MODULE MCEntryHalt ----------------------------
(* Instances of EntryHalt for TLC: the pids are model values. *)
EXTENDS EntryHalt
CONSTANTS a, b
=============================================================================
