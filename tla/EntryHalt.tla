----------------------------- MODULE EntryHalt -----------------------------
(***************************************************************************)
(* The persistent entry halt of deadman/entry_halt.py, shared by the       *)
(* processes that run on one directory.  Every access to the file is a     *)
(* step: set() reads it twice, compares the seal and replaces it; clear()  *)
(* reads it twice, compares and removes it; a seal that changed in between *)
(* turns either into a forced write of a manual halt.  The replace and the *)
(* removal may fail: the exception ends the call and the file stays.       *)
(*                                                                         *)
(* Of the record only auto_clear is kept: the code never writes one that   *)
(* is not active.  The ledger entries about the halt are left out.  A file *)
(* is damaged only while nobody has it in hand (a power cut, an editor).   *)
(***************************************************************************)
EXTENDS StateFile

CONSTANTS
  Clears,      \* the values of only_auto_clear with which clear() is called
  MaxCalls,    \* bound: calls of set(), clear() and startup_check()
  MaxCrashes,  \* bound: processes that die and are started again
  MaxDamages   \* bound: times the file becomes unreadable

ASSUME EntryHaltAssumption ==
  /\ Clears \subseteq BOOLEAN
  /\ {MaxCalls, MaxCrashes, MaxDamages} \subseteq Nat

VARIABLES
  file,       \* entry_halt.json as StateFile.read answers; its data is the halt it means
  pc,         \* where each process is
  call,       \* the locals of its call
  birth,      \* WriterIdentity.started_at of each process
  raced,      \* history: what happened to the file under the last call of each process
  calls, crashes, damages

vars == <<file, pc, call, birth, raced, calls, crashes, damages>>

\* What active() makes of the file.  One that nobody can read is a manual halt.
Halts   == {"none", "auto", "manual"}
Files   == [status: {"ABSENT", "OK", "UNREADABLE"}, seal: Seals \cup {NoSeal}, data: Halts]
NoFile  == Absent("none")
Damaged == Unreadable("manual")
Active(f) == f.data # "none"
Manual(f) == f.data = "manual"

PCs    == {"down", "idle", "set_active", "clear_active", "write", "delete", "replace", "remove"}
Call   == [halt: Halts, only: BOOLEAN, read: Files, force: BOOLEAN, next: Seals \cup {NoSeal}]
NoCall == [halt |-> "none", only |-> FALSE, read |-> NoFile, force |-> FALSE, next |-> NoSeal]

-----------------------------------------------------------------------------

Goto(p, l) == pc' = [pc EXCEPT ![p] = l]

\* The file changes.  Whoever has compared seals and not written yet is overtaken.  Where the
\* sequence of seals is rewound, whoever is in a call may meet a seal a second time.
FileBecomes(f, rewinds) ==
  /\ file' = f
  /\ raced' = [q \in Procs |->
       raced[q] \cup (IF pc[q] \in {"replace", "remove"} THEN {"overtaken"} ELSE {})
                \cup (IF rewinds /\ pc[q] \notin {"idle", "down"} THEN {"rewound"} ELSE {})]

Begin(p) ==
  /\ pc[p] = "idle"
  /\ calls < MaxCalls /\ calls' = calls + 1
  /\ raced' = [raced EXCEPT ![p] = {}]

\* set(): r = self.file.read()
SetRead(p, h) ==
  /\ Begin(p)
  /\ call' = [call EXCEPT ![p] = [NoCall EXCEPT !.halt = h, !.read = file]]
  /\ Goto(p, "set_active")
  /\ UNCHANGED <<file, birth, crashes, damages>>

\* Mutant: what is on file is not asked.
SetActive_AsAsked(p) ==
  /\ pc[p] = "set_active"
  /\ Goto(p, "write")
  /\ UNCHANGED <<file, call, birth, raced, calls, crashes, damages>>

\* set(): cur = self.active(), and what the record will say.
SetActive(p) ==
  /\ pc[p] = "set_active"
  /\ call' = [call EXCEPT ![p].halt = IF Manual(file) THEN "manual" ELSE @]
  /\ Goto(p, "write")
  /\ UNCHANGED <<file, birth, raced, calls, crashes, damages>>

\* A seal that changed: the halt is written by force, as a manual one.
Escalate(p) ==
  /\ call' = [call EXCEPT ![p].force = TRUE, ![p].halt = "manual"]
  /\ Goto(p, "write")

\* Mutant: a conflict is left to the next call.
Write_GivesUp(p) ==
  /\ pc[p] = "write"
  /\ IF MayReplace(file, call[p].read.seal, call[p].force)
     THEN /\ call' = [call EXCEPT ![p].next = NextSeal(file, p, birth[p])]
          /\ Goto(p, "replace")
     ELSE /\ call' = [call EXCEPT ![p] = NoCall]
          /\ Goto(p, "idle")
  /\ raced' = [raced EXCEPT ![p] = @ \ {"overtaken"}]
  /\ UNCHANGED <<file, birth, calls, crashes, damages>>

\* StateFile.write, up to the replace: the seal is compared, the next one computed.
Write(p) ==
  /\ pc[p] = "write"
  /\ IF MayReplace(file, call[p].read.seal, call[p].force)
     THEN /\ call' = [call EXCEPT ![p].next = NextSeal(file, p, birth[p])]
          /\ Goto(p, "replace")
     ELSE Escalate(p)
  /\ raced' = [raced EXCEPT ![p] = @ \ {"overtaken"}]
  /\ UNCHANGED <<file, birth, calls, crashes, damages>>

\* os.replace.  One that was overtaken puts an earlier number on the file.
Replace(p) ==
  /\ pc[p] = "replace"
  /\ FileBecomes(Holding(call[p].next, call[p].halt), "overtaken" \in raced[p])
  /\ Goto(p, "idle")
  /\ call' = [call EXCEPT ![p] = NoCall]
  /\ UNCHANGED <<birth, calls, crashes, damages>>

\* clear(): r = self.file.read()
ClearRead(p, only) ==
  /\ Begin(p)
  /\ call' = [call EXCEPT ![p] = [NoCall EXCEPT !.only = only, !.read = file]]
  /\ Goto(p, "clear_active")
  /\ UNCHANGED <<file, birth, crashes, damages>>

\* clear(): cur = self.active().  Nothing there, unreadable, or manual: nothing is cleared.
ClearActive(p) ==
  /\ pc[p] = "clear_active"
  /\ LET clearable == /\ Active(file)
                      /\ call[p].read.status # "UNREADABLE"
                      /\ call[p].only => ~Manual(file)
     IN Goto(p, IF clearable THEN "delete" ELSE "idle")
  /\ UNCHANGED <<file, call, birth, raced, calls, crashes, damages>>

\* StateFile.delete, up to the remove.  A file that is gone is cleared.
Delete(p) ==
  /\ pc[p] = "delete"
  /\ \/ file.status = "ABSENT" /\ Goto(p, "idle") /\ UNCHANGED call
     \/ /\ file.status # "ABSENT" /\ MayReplace(file, call[p].read.seal, FALSE)
        /\ Goto(p, "remove") /\ UNCHANGED call
     \/ /\ file.status # "ABSENT" /\ ~MayReplace(file, call[p].read.seal, FALSE)
        /\ Escalate(p)
  /\ raced' = [raced EXCEPT ![p] = @ \ {"overtaken"}]
  /\ UNCHANGED <<file, birth, calls, crashes, damages>>

\* os.remove; a file that is gone already is no error.
Remove(p) ==
  /\ pc[p] = "remove"
  /\ FileBecomes(NoFile, TRUE)
  /\ Goto(p, "idle")
  /\ UNCHANGED <<call, birth, calls, crashes, damages>>

\* The temporary file, os.replace or os.remove raises OSError: nothing is written, and the call
\* ends with the exception.
Fails(p) ==
  /\ pc[p] \in {"replace", "remove"}
  /\ Goto(p, "idle")
  /\ call' = [call EXCEPT ![p] = NoCall]
  /\ raced' = [raced EXCEPT ![p] = @ \cup {"failed"}]
  /\ UNCHANGED <<file, birth, calls, crashes, damages>>

\* startup_check(): the file of another live process is a manual halt.
StartupCheck(p) ==
  /\ Begin(p)
  /\ IF ForeignLiveWriter(file, p, {q \in Procs : pc[q] # "down"})
     THEN /\ call' = [call EXCEPT ![p] = [NoCall EXCEPT !.force = TRUE, !.halt = "manual"]]
          /\ Goto(p, "write")
     ELSE UNCHANGED <<pc, call>>
  /\ UNCHANGED <<file, birth, crashes, damages>>

-----------------------------------------------------------------------------

\* A process dies, in a call or between two.
Crash(p) ==
  /\ pc[p] # "down"
  /\ crashes < MaxCrashes
  /\ crashes' = crashes + 1
  /\ Goto(p, "down")
  /\ call' = [call EXCEPT ![p] = NoCall]
  /\ UNCHANGED <<file, birth, raced, calls, damages>>

\* It is started again: WriterIdentity.
Restart(p) ==
  /\ pc[p] = "down"
  /\ birth' = [birth EXCEPT ![p] = @ + 1]
  /\ Goto(p, "idle")
  /\ UNCHANGED <<file, call, raced, calls, crashes, damages>>

Damage ==
  /\ damages < MaxDamages
  /\ damages' = damages + 1
  /\ file.status = "OK" /\ \A p \in Procs : pc[p] \in {"idle", "down"}
  /\ FileBecomes(Damaged, TRUE)
  /\ UNCHANGED <<pc, call, birth, calls, crashes>>

\* A human deletes the file.
HumanDeletes ==
  /\ file.status # "ABSENT"
  /\ FileBecomes(NoFile, TRUE)
  /\ UNCHANGED <<pc, call, birth, calls, crashes, damages>>

Init ==
  /\ file = NoFile
  /\ pc = [p \in Procs |-> "idle"]
  /\ call = [p \in Procs |-> NoCall]
  /\ birth = [p \in Procs |-> 0]
  /\ raced = [p \in Procs |-> {}]
  /\ calls = 0 /\ crashes = 0 /\ damages = 0

\* The rest of a call that has begun.
Proceed(p) ==
  SetActive(p) \/ Write(p) \/ Replace(p) \/ ClearActive(p) \/ Delete(p) \/ Remove(p)

Next ==
  \/ \E p \in Procs :
       \/ \E h \in {"auto", "manual"} : SetRead(p, h)
       \/ \E only \in Clears : ClearRead(p, only)
       \/ StartupCheck(p)
       \/ Proceed(p) \/ Fails(p)
       \/ Crash(p) \/ Restart(p)
  \/ Damage \/ HumanDeletes

Spec == Init /\ [][Next]_vars

\* No call blocks: a thread that is in one goes on.
FairSpec == Spec /\ \A p \in Procs : WF_vars(Proceed(p))

-----------------------------------------------------------------------------
(* Properties *)

\* Every variable has its type; call[p].next is a seal where it is about to be written.
TypeOK ==
  /\ file \in Files
  /\ pc \in [Procs -> PCs]
  /\ call \in [Procs -> Call]
  /\ \A p \in Procs : pc[p] = "replace" => call[p].next \in Seals
  /\ birth \in [Procs -> Nat]
  /\ raced \in [Procs -> SUBSET {"overtaken", "rewound", "failed"}]
  /\ calls \in 0..MaxCalls /\ crashes \in 0..MaxCrashes /\ damages \in 0..MaxDamages

\* A human: deletes the file, or calls clear() without only_auto_clear.
ByHuman == HumanDeletes \/ \E p \in Procs : Remove(p) /\ ~call[p].only

\* A manual halt, or a file nobody can read, is weakened by a human only.  (entry_halt.py,
\* set: "A halt of too much is acceptable, one too few is not".)  One process keeps it,
\* whatever sets, clears, restarts and human deletions it goes through.
ManualHaltKept == [][Manual(file) /\ ~Manual(file') => ByHuman]_vars

\* Another process can take a manual halt away in two ways only: it compared the seals before
\* that halt was written, or the sequence of seals was rewound during its call, by a removal or
\* by a replace that was itself overtaken, so that it met the seal it had read on another file.
LostOnlyToRaces ==
  [][Manual(file) /\ ~Manual(file') =>
       \/ ByHuman
       \/ \E p \in Procs : (Replace(p) \/ Remove(p)) /\ raced[p] \cap {"overtaken", "rewound"} # {}]_vars

\* set() gets its record on disk, whoever it meets there, unless its process dies or it raises.
SetIsWritten ==
  \A p \in Procs :
    pc[p] = "set_active" ~> (file.seal.pid = p \/ pc[p] = "down" \/ "failed" \in raced[p])

-----------------------------------------------------------------------------
(* What the documents say, and the code does not always do *)

\* statefile.py: the seal on disk is compared before replacing, and "a different seal means
\* another writer got in between: we do NOT write".  If that were so, the only way to lose a
\* manual halt would be the time between the comparison and the replace.
LostOnlyInTheWindow ==
  [][Manual(file) /\ ~Manual(file') =>
       \/ ByHuman
       \/ \E p \in Procs : (Replace(p) \/ Remove(p)) /\ "overtaken" \in raced[p]]_vars
=============================================================================
