----------------------------- MODULE StateFile -----------------------------
(***************************************************************************)
(* The JSON state files of deadman/statefile.py: what a file may hold, the *)
(* writer seal, and the tests that a write, a delete and a start make.     *)
(* There is no lock: a cycle reads, decides, reads again to compare seals, *)
(* and replaces.  The modules that use a file make each of these a step.   *)
(*                                                                         *)
(* A pid is a member of Procs.  A process that is started again keeps its  *)
(* pid (a container) and gets a new start time, a natural number here.     *)
(***************************************************************************)
EXTENDS Naturals

CONSTANTS
  Procs,   \* pids of the processes that share the directory
  NoProc   \* no pid

ASSUME StateFileAssumption == NoProc \notin Procs

Seals  == [pid: Procs, born: Nat, seq: Nat]
NoSeal == [pid |-> NoProc, born |-> 0, seq |-> 0]

\* What StateFile.read answers about a file that holds data, none, or garbage.
Holding(seal, data) == [status |-> "OK", seal |-> seal, data |-> data]
Absent(none)        == [status |-> "ABSENT", seal |-> NoSeal, data |-> none]
Unreadable(none)    == [status |-> "UNREADABLE", seal |-> NoSeal, data |-> none]

\* Mutant: the seal that was read is not looked at again.
MayReplace_Blind(f, expected, force) == TRUE
\* The test before a replace or a remove: force, or the seal that was read is there still.
MayReplace(f, expected, force) == force \/ f.seal = expected

\* The seal a write of p puts on a file that now reads as f.
NextSeal(f, p, birth) == [pid |-> p, born |-> birth, seq |-> f.seal.seq + 1]

\* foreign_live_writer: the file belongs to another process that is alive.
ForeignLiveWriter(f, p, Alive) == f.status = "OK" /\ f.seal.pid # p /\ f.seal.pid \in Alive
=============================================================================
