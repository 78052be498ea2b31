-------------------------- MODULE EntryHaltProofs --------------------------
(***************************************************************************)
(* Theorems about EntryHalt: its types, that a single process never takes  *)
(* a manual halt away, and the two ways in which one of several may, for   *)
(* any number of processes, calls, crashes, damages and human deletions.   *)
(***************************************************************************)
EXTENDS EntryHalt, TLAPS

\* What a call has decided still suits the file when it acts on it: it writes an auto-clear
\* record, or removes the file on behalf of a reconciliation, only where no manual halt is.
Decided(p) ==
  /\ pc[p] \in {"set_active", "write", "replace"} => call[p].halt \in {"auto", "manual"}
  /\ pc[p] \in {"write", "replace"} /\ call[p].halt = "auto" => ~Manual(file)
  /\ pc[p] \in {"delete", "remove"} /\ call[p].only => ~Manual(file)

IInv == TypeOK /\ \A p \in Procs : Decided(p)

\* The seal of a write is a seal, whatever the file holds.
LEMMA NextSealType ==
  ASSUME NEW f \in Files, NEW p \in Procs, NEW n \in Nat
  PROVE  NextSeal(f, p, n) \in Seals
<1>1. f.seal.seq \in Nat
  BY DEF Files, Seals, NoSeal
<1> QED BY <1>1 DEF NextSeal, Seals

\* An escalation keeps the types of a call.
LEMMA EscalateType ==
  ASSUME TypeOK, NEW p \in Procs, Escalate(p)
  PROVE  /\ call' \in [Procs -> Call] /\ pc' \in [Procs -> PCs]
         /\ \A q \in Procs : pc'[q] = "replace" => call'[q].next \in Seals
<1>1. [call[p] EXCEPT !.force = TRUE, !.halt = "manual"] \in Call
  BY DEF TypeOK, Call, Halts
<1>2. call' = [call EXCEPT ![p] = [call[p] EXCEPT !.force = TRUE, !.halt = "manual"]]
  BY DEF TypeOK, Escalate
<1>3. call' \in [Procs -> Call] /\ pc' \in [Procs -> PCs]
  BY <1>1, <1>2 DEF TypeOK, Escalate, Goto, PCs
<1>4. ASSUME NEW q \in Procs, pc'[q] = "replace"
      PROVE  call'[q].next \in Seals
  <2>1. q # p /\ pc[q] = "replace"
    BY <1>4 DEF TypeOK, Escalate, Goto
  <2> QED BY <1>2, <2>1 DEF TypeOK
<1> QED BY <1>3, <1>4

\* Every step of a call that is under way keeps the types.
LEMMA ProceedType ==
  ASSUME TypeOK, NEW p \in Procs, Proceed(p)
  PROVE  TypeOK'
<1> USE DEF TypeOK, Call, Halts
<1>1. NoCall \in Call
  BY DEF NoCall, NoFile, Absent, Files, Halts, Call
<1>2. CASE SetActive(p)
  BY <1>2 DEF SetActive, Goto, PCs
<1>3. CASE Write(p)
  <2>1. NextSeal(file, p, birth[p]) \in Seals
    BY NextSealType
  <2>2. raced' \in [Procs -> SUBSET {"overtaken", "rewound", "failed"}]
    BY <1>3 DEF Write
  <2>5. UNCHANGED <<file, birth, calls, crashes, damages>>
    BY <1>3 DEF Write
  <2>3. CASE Escalate(p)
    BY <2>2, <2>3, <2>5, EscalateType
  <2>4. CASE call' = [call EXCEPT ![p].next = NextSeal(file, p, birth[p])] /\ Goto(p, "replace")
    BY <1>3, <2>1, <2>2, <2>4 DEF Write, Goto, PCs
  <2> QED BY <1>3, <2>3, <2>4 DEF Write
<1>4. CASE Replace(p)
  <2>1. file' \in Files
    BY <1>4 DEF Replace, FileBecomes, Holding, Files
  <2>2. raced' \in [Procs -> SUBSET {"overtaken", "rewound", "failed"}]
    BY <1>4 DEF Replace, FileBecomes
  <2> QED BY <1>1, <1>4, <2>1, <2>2 DEF Replace, Goto, PCs
<1>5. CASE ClearActive(p)
  BY <1>5 DEF ClearActive, Goto, PCs
<1>6. CASE Delete(p)
  <2>1. raced' \in [Procs -> SUBSET {"overtaken", "rewound", "failed"}]
    BY <1>6 DEF Delete
  <2>4. UNCHANGED <<file, birth, calls, crashes, damages>>
    BY <1>6 DEF Delete
  <2>2. CASE Escalate(p)
    BY <2>1, <2>2, <2>4, EscalateType
  <2>3. CASE UNCHANGED call /\ (Goto(p, "idle") \/ Goto(p, "remove"))
    BY <1>6, <2>1, <2>3 DEF Delete, Goto, PCs
  <2> QED BY <1>6, <2>2, <2>3 DEF Delete
<1>7. CASE Remove(p)
  <2>1. file' \in Files
    BY <1>7 DEF Remove, FileBecomes, NoFile, Absent, Files
  <2>2. raced' \in [Procs -> SUBSET {"overtaken", "rewound", "failed"}]
    BY <1>7 DEF Remove, FileBecomes
  <2> QED BY <1>7, <2>1, <2>2 DEF Remove, Goto, PCs
<1> QED BY <1>2, <1>3, <1>4, <1>5, <1>6, <1>7 DEF Proceed

\* Every other step keeps the types.
LEMMA OtherType ==
  ASSUME TypeOK,
         \/ \E p \in Procs : \/ \E h \in {"auto", "manual"} : SetRead(p, h)
                             \/ \E only \in Clears : ClearRead(p, only)
                             \/ StartupCheck(p) \/ Fails(p) \/ Crash(p) \/ Restart(p)
         \/ Damage \/ HumanDeletes \/ UNCHANGED vars
  PROVE  TypeOK'
<1> USE DEF TypeOK, Call, Halts
<1>1. NoCall \in Call
  BY DEF NoCall, NoFile, Absent, Files, Halts, Call
<1>2. ASSUME NEW p \in Procs, Begin(p)
      PROVE  /\ calls' \in 0..MaxCalls
             /\ raced' \in [Procs -> SUBSET {"overtaken", "rewound", "failed"}]
  BY <1>2, EntryHaltAssumption DEF Begin
<1>3. ASSUME NEW p \in Procs, NEW h \in {"auto", "manual"}, SetRead(p, h)
      PROVE  TypeOK'
  <2>1. [NoCall EXCEPT !.halt = h, !.read = file] \in Call
    BY <1>1
  <2>2. call' \in [Procs -> Call] /\ pc' \in [Procs -> PCs]
    BY <1>3, <2>1 DEF SetRead, Goto, PCs
  <2>3. \A q \in Procs : pc'[q] = "replace" => call'[q].next \in Seals
    BY <1>3, <2>1 DEF SetRead, Goto
  <2> QED BY <1>2, <1>3, <2>2, <2>3 DEF SetRead
<1>4. ASSUME NEW p \in Procs, NEW only \in Clears, ClearRead(p, only)
      PROVE  TypeOK'
  <2>1. [NoCall EXCEPT !.only = only, !.read = file] \in Call
    BY <1>1, EntryHaltAssumption
  <2>2. call' \in [Procs -> Call] /\ pc' \in [Procs -> PCs]
    BY <1>4, <2>1 DEF ClearRead, Goto, PCs
  <2>3. \A q \in Procs : pc'[q] = "replace" => call'[q].next \in Seals
    BY <1>4, <2>1 DEF ClearRead, Goto
  <2> QED BY <1>2, <1>4, <2>2, <2>3 DEF ClearRead
<1>5. ASSUME NEW p \in Procs, StartupCheck(p)
      PROVE  TypeOK'
  <2>1. [NoCall EXCEPT !.force = TRUE, !.halt = "manual"] \in Call
    BY <1>1
  <2>2. CASE /\ call' = [call EXCEPT ![p] = [NoCall EXCEPT !.force = TRUE, !.halt = "manual"]]
             /\ Goto(p, "write")
    <3>1. call' \in [Procs -> Call] /\ pc' \in [Procs -> PCs]
      BY <2>1, <2>2 DEF Goto, PCs
    <3>2. \A q \in Procs : pc'[q] = "replace" => call'[q].next \in Seals
      BY <2>1, <2>2 DEF Goto
    <3> QED BY <1>2, <1>5, <3>1, <3>2 DEF StartupCheck
  <2>3. CASE UNCHANGED <<pc, call>>
    BY <1>2, <1>5, <2>3 DEF StartupCheck
  <2> QED BY <1>5, <2>2, <2>3 DEF StartupCheck
<1>9. ASSUME NEW p \in Procs, Crash(p) \/ Restart(p)
      PROVE  TypeOK'
  <2>1. crashes' \in 0..MaxCrashes
    BY <1>9, EntryHaltAssumption DEF Crash, Restart
  <2>2. CASE Crash(p)
    BY <1>1, <2>1, <2>2 DEF Crash, Goto, PCs
  <2>3. CASE Restart(p)
    BY <2>1, <2>3 DEF Restart, Goto, PCs
  <2> QED BY <1>9, <2>2, <2>3
<1>10. ASSUME NEW p \in Procs, Fails(p)
       PROVE  TypeOK'
  <2>1. call' \in [Procs -> Call] /\ pc' \in [Procs -> PCs]
    BY <1>1, <1>10 DEF Fails, Goto, PCs
  <2>2. \A q \in Procs : pc'[q] = "replace" => call'[q].next \in Seals
    BY <1>10 DEF Fails, Goto
  <2>3. raced' \in [Procs -> SUBSET {"overtaken", "rewound", "failed"}]
    BY <1>10 DEF Fails
  <2> QED BY <1>10, <2>1, <2>2, <2>3 DEF Fails
<1>6. CASE Damage
  <2>1. file' \in Files
    BY <1>6 DEF Damage, FileBecomes, Damaged, Unreadable, Files
  <2>2. raced' \in [Procs -> SUBSET {"overtaken", "rewound", "failed"}]
    BY <1>6 DEF Damage, FileBecomes
  <2> QED BY <1>6, <2>1, <2>2, EntryHaltAssumption DEF Damage
<1>7. CASE HumanDeletes
  <2>1. file' \in Files
    BY <1>7 DEF HumanDeletes, FileBecomes, NoFile, Absent, Files
  <2>2. raced' \in [Procs -> SUBSET {"overtaken", "rewound", "failed"}]
    BY <1>7 DEF HumanDeletes, FileBecomes
  <2> QED BY <1>7, <2>1, <2>2 DEF HumanDeletes
<1>8. CASE UNCHANGED vars
  BY <1>8 DEF vars
<1> QED BY <1>3, <1>4, <1>5, <1>6, <1>7, <1>8, <1>9, <1>10

\* TypeOK holds in every state, for any number of processes.
THEOREM TypeCorrect == Spec => []TypeOK
<1>1. Init => TypeOK
  BY EntryHaltAssumption
     DEF Init, TypeOK, Files, NoFile, Absent, Halts, PCs, Call, NoCall
<1>2. TypeOK /\ [Next]_vars => TypeOK'
  BY ProceedType, OtherType DEF Next
<1> QED BY <1>1, <1>2, PTL DEF Spec

\* With one process, what a call has decided still holds when the next step is taken.
LEMMA DecidedKept ==
  ASSUME IInv, [Next]_vars, \A p, q \in Procs : p = q
  PROVE  \A p \in Procs : Decided(p)'
<1> SUFFICES ASSUME NEW p \in Procs PROVE Decided(p)'
  OBVIOUS
<1>1. \A q \in Procs : q = p
  OBVIOUS
<1>2. pc \in [Procs -> PCs] /\ DOMAIN call = Procs /\ Decided(p)
  BY DEF IInv, TypeOK
<1>3. CASE SetActive(p)
  BY <1>2, <1>3 DEF SetActive, Goto, Decided, IInv, TypeOK, Call
<1>4. CASE Write(p)
  BY <1>2, <1>4 DEF Write, Escalate, Goto, Decided, IInv, TypeOK, Call
<1>5. CASE Replace(p)
  BY <1>2, <1>5 DEF Replace, Goto, Decided
<1>6. CASE ClearActive(p)
  BY <1>2, <1>6 DEF ClearActive, Goto, Decided
<1>7. CASE Delete(p)
  <2>1. CASE Escalate(p)
    BY <1>2, <2>1 DEF Escalate, Goto, Decided, IInv, TypeOK, Call
  <2>2. CASE UNCHANGED <<call, file>> /\ (Goto(p, "idle") \/ Goto(p, "remove"))
    BY <1>2, <1>7, <2>2 DEF Delete, Goto, Decided, Manual
  <2> QED BY <1>7, <2>1, <2>2 DEF Delete
<1>8. CASE Remove(p)
  BY <1>2, <1>8 DEF Remove, Goto, Decided
<1>9. CASE \/ \E h \in {"auto", "manual"} : SetRead(p, h)
           \/ \E only \in Clears : ClearRead(p, only)
  <2>1. CASE \E h \in {"auto", "manual"} : SetRead(p, h)
    BY <1>2, <2>1 DEF SetRead, Goto, Decided, NoCall
  <2>2. CASE \E only \in Clears : ClearRead(p, only)
    BY <1>2, <2>2 DEF ClearRead, Goto, Decided
  <2> QED BY <1>9, <2>1, <2>2
<1>10. CASE StartupCheck(p)
  <2>1. CASE UNCHANGED <<pc, call>>
    BY <1>2, <1>10, <2>1 DEF StartupCheck, Decided, Manual
  <2>2. CASE /\ call' = [call EXCEPT ![p] = [NoCall EXCEPT !.force = TRUE, !.halt = "manual"]]
             /\ Goto(p, "write")
    BY <1>2, <2>2 DEF NoCall, Goto, Decided
  <2> QED BY <1>10, <2>1, <2>2 DEF StartupCheck
<1>11. CASE Fails(p) \/ Crash(p) \/ Restart(p)
  BY <1>2, <1>11 DEF Fails, Crash, Restart, Goto, Decided
<1>12. CASE Damage
  BY <1>2, <1>12 DEF Damage, Decided
<1>13. CASE HumanDeletes
  BY <1>2, <1>13 DEF HumanDeletes, FileBecomes, NoFile, Absent, Manual, Decided
<1>14. CASE UNCHANGED vars
  BY <1>2, <1>14 DEF vars, Decided, Manual
<1> QED
  BY <1>1, <1>3, <1>4, <1>5, <1>6, <1>7, <1>8, <1>9, <1>10, <1>11, <1>12, <1>13, <1>14 DEF Next, Proceed

\* With one process, a manual halt is lost to a human only.
LEMMA ManualHaltStep ==
  ASSUME IInv, [Next]_vars, Manual(file), ~Manual(file'), \A p, q \in Procs : p = q
  PROVE  ByHuman
<1>1. ASSUME NEW p \in Procs, Replace(p)
      PROVE  FALSE
  <2>1. call[p].halt = "manual"
    BY <1>1 DEF Replace, IInv, Decided
  <2>2. file' = Holding(call[p].next, "manual")
    BY <1>1, <2>1 DEF Replace, FileBecomes
  <2> QED BY <2>2 DEF Holding, Manual
<1>2. ASSUME NEW p \in Procs, Remove(p)
      PROVE  ByHuman
  <2>1. ~call[p].only
    BY <1>2 DEF Remove, IInv, Decided
  <2> QED BY <1>2, <2>1 DEF ByHuman
<1>3. file' # file
  OBVIOUS
<1>4. ASSUME NEW p \in Procs,
             \/ \E h \in {"auto", "manual"} : SetRead(p, h)
             \/ \E only \in Clears : ClearRead(p, only)
             \/ StartupCheck(p) \/ SetActive(p) \/ Write(p) \/ ClearActive(p) \/ Delete(p)
             \/ Fails(p) \/ Crash(p) \/ Restart(p)
      PROVE  FALSE
  BY <1>3, <1>4 DEF SetRead, ClearRead, StartupCheck, SetActive, Write, ClearActive, Delete, Fails, Crash, Restart
<1>5. CASE Damage
  BY <1>5 DEF Damage, FileBecomes, Damaged, Unreadable, Manual
<1>6. CASE HumanDeletes
  BY <1>6 DEF ByHuman
<1>7. CASE UNCHANGED vars
  BY <1>3, <1>7 DEF vars
<1> QED BY <1>1, <1>2, <1>4, <1>5, <1>6, <1>7 DEF Next, Proceed

\* A single process keeps every manual halt until a human lifts it.
THEOREM OneWriterKeepsManualHalts ==
  ASSUME \A p, q \in Procs : p = q
  PROVE  Spec => ManualHaltKept
<1>1. Init => IInv
  <2>1. Init => TypeOK
    BY EntryHaltAssumption DEF Init, TypeOK, Files, NoFile, Absent, Halts, PCs, Call, NoCall
  <2> QED BY <2>1 DEF Init, IInv, Decided
<1>2. IInv /\ [Next]_vars => IInv'
  BY DecidedKept, ProceedType, OtherType DEF IInv, Next
<1>3. IInv /\ [Next]_vars => [Manual(file) /\ ~Manual(file') => ByHuman]_vars
  BY ManualHaltStep
<1> QED BY <1>1, <1>2, <1>3, PTL DEF Spec, ManualHaltKept

-----------------------------------------------------------------------------
(* Any number of processes *)

\* A call that still goes by the seal it read, and under which no sequence was rewound.
GoesBySeal(p) == pc[p] \notin {"idle", "down"} /\ ~call[p].force /\ "rewound" \notin raced[p]

\* The file has the number that p read, and then it is the file that p read, or a later one.
Ordered(p) ==
  GoesBySeal(p) =>
    /\ call[p].read.seal.seq <= file.seal.seq
    /\ call[p].read.seal.seq = file.seal.seq => call[p].read = file

\* What p decided to do to a halt, it decided knowing the file it read, or the file has moved on.
Informed(p) ==
  /\ pc[p] \in {"set_active", "write", "replace"} => call[p].halt \in {"auto", "manual"}
  /\ pc[p] \in {"clear_active", "delete", "remove"} => ~call[p].force
  /\ call[p].force => call[p].halt = "manual"
  /\ GoesBySeal(p) /\ (\/ pc[p] \in {"write", "replace"} /\ call[p].halt = "auto"
                       \/ pc[p] \in {"delete", "remove"} /\ call[p].only) =>
       call[p].read.seal.seq < file.seal.seq \/ ~Manual(call[p].read)

\* Nothing has come between the comparison of seals and now, unless p was overtaken.
Compared(p) ==
  "overtaken" \notin raced[p] =>
    /\ pc[p] = "replace" => call[p].next.seq = file.seal.seq + 1
    /\ pc[p] \in {"replace", "remove"} /\ ~call[p].force => file.seal = call[p].read.seal

Safe(p) == Ordered(p) /\ Informed(p) /\ Compared(p)
SInv == TypeOK /\ \A p \in Procs : Safe(p)

\* The sequence number of every file is a number.
LEMMA SeqNat ==
  ASSUME NEW f \in Files
  PROVE  f.seal.seq \in Nat
BY DEF Files, Seals, NoSeal

\* Who has no part in a step that leaves the file alone is as safe as before.
LEMMA QuietSafe ==
  ASSUME NEW p \in Procs, Safe(p), file' = file,
         pc'[p] = pc[p], call'[p] = call[p], raced'[p] = raced[p]
  PROVE  Safe(p)'
BY DEF Safe, Ordered, Informed, Compared, GoesBySeal, Manual

\* Who has no part in a change of the file is safe if the number grows, or the rewind is marked.
LEMMA WitnessSafe ==
  ASSUME TypeOK, NEW p \in Procs, Safe(p), NEW f \in Files, NEW rewinds \in BOOLEAN,
         FileBecomes(f, rewinds), rewinds \/ f.seal.seq > file.seal.seq,
         pc'[p] = pc[p], call'[p] = call[p]
  PROVE  Safe(p)'
<1>1. file' = f /\ raced'[p] = raced[p]
        \cup (IF pc[p] \in {"replace", "remove"} THEN {"overtaken"} ELSE {})
        \cup (IF rewinds /\ pc[p] \notin {"idle", "down"} THEN {"rewound"} ELSE {})
  BY DEF FileBecomes
<1>2. f.seal.seq \in Nat /\ file.seal.seq \in Nat /\ call[p].read.seal.seq \in Nat
  BY SeqNat DEF TypeOK, Call
<1>3. ASSUME GoesBySeal(p)'
      PROVE  GoesBySeal(p) /\ f.seal.seq > file.seal.seq
  BY <1>1, <1>3 DEF GoesBySeal
<1>4. Ordered(p)'
  BY <1>1, <1>2, <1>3 DEF Safe, Ordered
<1>5. Informed(p)'
  <2>1. ASSUME GoesBySeal(p)'
        PROVE  call[p].read.seal.seq < file'.seal.seq
    BY <1>1, <1>2, <1>3, <2>1 DEF Safe, Ordered
  <2> QED BY <2>1 DEF Safe, Informed, Manual
<1>6. Compared(p)'
  BY <1>1 DEF Safe, Compared
<1> QED BY <1>4, <1>5, <1>6 DEF Safe

\* Between calls, and in a forced one before its comparison, there is nothing to keep.
LEMMA IdleSafe ==
  ASSUME NEW p \in Procs, pc'[p] \in {"idle", "down"}, call'[p].force => call'[p].halt = "manual"
  PROVE  Safe(p)'
BY DEF Safe, Ordered, Informed, Compared, GoesBySeal
LEMMA ForcedSafe ==
  ASSUME NEW p \in Procs, pc'[p] = "write", call'[p].force, call'[p].halt = "manual"
  PROVE  Safe(p)'
BY DEF Safe, Ordered, Informed, Compared, GoesBySeal

\* The caller is safe after a step of its own call.
LEMMA ProceedSafe ==
  ASSUME TypeOK, NEW p \in Procs, Safe(p), Proceed(p)
  PROVE  Safe(p)'
<1>1. pc \in [Procs -> PCs] /\ DOMAIN call = Procs /\ DOMAIN raced = Procs /\ call[p] \in Call
  BY DEF TypeOK
<1>2. file.seal.seq \in Nat /\ call[p].read.seal.seq \in Nat
  BY SeqNat DEF TypeOK, Call
<1>3. CASE SetActive(p)
  <2>1. call'[p] = [call[p] EXCEPT !.halt = IF Manual(file) THEN "manual" ELSE call[p].halt]
    BY <1>1, <1>3 DEF SetActive
  <2>2. /\ call'[p].read = call[p].read /\ call'[p].force = call[p].force
        /\ call'[p].halt = IF Manual(file) THEN "manual" ELSE call[p].halt
    BY <1>1, <2>1 DEF Call
  <2>3. pc[p] = "set_active" /\ pc'[p] = "write" /\ file' = file /\ raced' = raced
    BY <1>1, <1>3 DEF SetActive, Goto
  <2>4. Ordered(p)'
    BY <2>2, <2>3 DEF Safe, Ordered, GoesBySeal
  <2>5. Informed(p)'
    <3>1. ASSUME GoesBySeal(p)', call'[p].halt = "auto"
          PROVE  call[p].read.seal.seq < file.seal.seq \/ ~Manual(call[p].read)
      BY <1>2, <2>2, <2>3, <3>1 DEF Safe, Ordered, GoesBySeal
    <3> QED BY <2>2, <2>3, <3>1 DEF Safe, Informed
  <2>6. Compared(p)'
    BY <2>3 DEF Compared
  <2> QED BY <2>4, <2>5, <2>6 DEF Safe
<1>4. CASE Write(p)
  <2>1. CASE MayReplace(file, call[p].read.seal, call[p].force)
    <3>1. call'[p] = [call[p] EXCEPT !.next = NextSeal(file, p, birth[p])]
      BY <1>1, <1>4, <2>1 DEF Write
    <3>2. /\ call'[p].read = call[p].read /\ call'[p].force = call[p].force
          /\ call'[p].halt = call[p].halt /\ call'[p].next = NextSeal(file, p, birth[p])
      BY <1>1, <3>1 DEF Call
    <3>3. /\ pc[p] = "write" /\ pc'[p] = "replace" /\ file' = file
          /\ raced'[p] = raced[p] \ {"overtaken"}
      BY <1>1, <1>4, <2>1 DEF Write, Goto
    <3>4. Ordered(p)' /\ Informed(p)'
      BY <3>2, <3>3 DEF Safe, Ordered, Informed, GoesBySeal, Manual
    <3>5. Compared(p)'
      BY <2>1, <3>2, <3>3 DEF Compared, MayReplace, NextSeal
    <3> QED BY <3>4, <3>5 DEF Safe
  <2>2. CASE Escalate(p)
    BY <1>1, <2>2, ForcedSafe DEF Escalate, Goto, Call
  <2> QED BY <1>4, <2>1, <2>2 DEF Write
<1>5. CASE Replace(p)
  BY <1>1, <1>5, IdleSafe DEF Replace, Goto, NoCall
<1>6. CASE ClearActive(p)
  <2>1. pc[p] = "clear_active" /\ file' = file /\ call' = call /\ raced' = raced
    BY <1>6 DEF ClearActive
  <2>2. CASE pc'[p] = "idle"
    BY <2>1, <2>2, IdleSafe DEF Safe, Informed
  <2>3. CASE pc'[p] = "delete" /\ (call[p].only => ~Manual(file))
    <3>1. Ordered(p)'
      BY <2>1, <2>3 DEF Safe, Ordered, GoesBySeal
    <3>2. Informed(p)'
      BY <1>2, <2>1, <2>3 DEF Safe, Ordered, Informed, GoesBySeal
    <3> QED BY <2>3, <3>1, <3>2 DEF Safe, Compared
  <2> QED BY <1>1, <1>6, <2>2, <2>3 DEF ClearActive, Goto
<1>7. CASE Delete(p)
  <2>1. CASE UNCHANGED call /\ Goto(p, "idle")
    BY <1>1, <2>1, IdleSafe DEF Goto, Safe, Informed
  <2>2. CASE /\ MayReplace(file, call[p].read.seal, FALSE)
             /\ UNCHANGED call /\ Goto(p, "remove")
    <3>1. /\ pc[p] = "delete" /\ pc'[p] = "remove" /\ file' = file
          /\ raced'[p] = raced[p] \ {"overtaken"}
      BY <1>1, <1>7, <2>2 DEF Delete, Goto
    <3>2. Ordered(p)' /\ Informed(p)'
      BY <2>2, <3>1 DEF Safe, Ordered, Informed, GoesBySeal, Manual
    <3> QED BY <2>2, <3>1, <3>2 DEF Safe, Compared, MayReplace
  <2>3. CASE Escalate(p)
    BY <1>1, <2>3, ForcedSafe DEF Escalate, Goto, Call
  <2> QED BY <1>7, <2>1, <2>2, <2>3 DEF Delete
<1>8. CASE Remove(p)
  BY <1>1, <1>8, IdleSafe DEF Remove, Goto, Safe, Informed
<1> QED BY <1>3, <1>4, <1>5, <1>6, <1>7, <1>8 DEF Proceed

\* A process that begins a call, dies or is started again is safe.
LEMMA BeginSafe ==
  ASSUME TypeOK, NEW p \in Procs, Safe(p),
         \/ \E h \in {"auto", "manual"} : SetRead(p, h)
         \/ \E only \in Clears : ClearRead(p, only)
         \/ StartupCheck(p) \/ Fails(p) \/ Crash(p) \/ Restart(p)
  PROVE  Safe(p)'
<1>1. pc \in [Procs -> PCs] /\ DOMAIN call = Procs /\ DOMAIN raced = Procs /\ call[p] \in Call
  BY DEF TypeOK
<1>2. file.seal.seq \in Nat
  BY SeqNat DEF TypeOK
<1>3. ASSUME NEW h \in {"auto", "manual"}, SetRead(p, h)
      PROVE  Safe(p)'
  <2>1. call'[p] = [NoCall EXCEPT !.halt = h, !.read = file] /\ pc'[p] = "set_active" /\ file' = file
    BY <1>1, <1>3 DEF SetRead, Goto
  <2>2. call'[p].read = file /\ call'[p].halt = h /\ ~call'[p].force
    BY <2>1 DEF NoCall
  <2> QED BY <1>2, <2>1, <2>2 DEF Safe, Ordered, Informed, Compared
<1>4. ASSUME NEW only \in Clears, ClearRead(p, only)
      PROVE  Safe(p)'
  <2>1. /\ call'[p] = [NoCall EXCEPT !.only = only, !.read = file]
        /\ pc'[p] = "clear_active" /\ file' = file
    BY <1>1, <1>4 DEF ClearRead, Goto
  <2>2. call'[p].read = file /\ ~call'[p].force
    BY <2>1 DEF NoCall
  <2> QED BY <1>2, <2>1, <2>2 DEF Safe, Ordered, Informed, Compared
<1>5. CASE StartupCheck(p)
  <2>1. CASE /\ call' = [call EXCEPT ![p] = [NoCall EXCEPT !.force = TRUE, !.halt = "manual"]]
             /\ Goto(p, "write")
    BY <1>1, <2>1, ForcedSafe DEF NoCall, Goto
  <2>2. CASE UNCHANGED <<pc, call>>
    BY <1>5, <2>2, IdleSafe DEF StartupCheck, Begin, Safe, Informed
  <2> QED BY <1>5, <2>1, <2>2 DEF StartupCheck
<1>6. CASE Fails(p) \/ Crash(p)
  BY <1>1, <1>6, IdleSafe DEF Fails, Crash, Goto, NoCall
<1>7. CASE Restart(p)
  BY <1>1, <1>7, IdleSafe DEF Restart, Goto, Safe, Informed
<1> QED BY <1>3, <1>4, <1>5, <1>6, <1>7

\* Whatever one process does, the others stay safe.
LEMMA OthersSafe ==
  ASSUME SInv, NEW p \in Procs, NEW q \in Procs, p # q,
         \/ Proceed(q)
         \/ \E h \in {"auto", "manual"} : SetRead(q, h)
         \/ \E only \in Clears : ClearRead(q, only)
         \/ StartupCheck(q) \/ Fails(q) \/ Crash(q) \/ Restart(q)
  PROVE  Safe(p)'
<1>1. TypeOK /\ Safe(p) /\ Safe(q)
  BY DEF SInv
<1>2. CASE Replace(q)
  <2>1. pc'[p] = pc[p] /\ call'[p] = call[p]
    BY <1>1, <1>2 DEF Replace, Goto, TypeOK
  <2>2. call[q].next \in Seals /\ call[q].halt \in Halts
    BY <1>1, <1>2 DEF Replace, TypeOK, Call
  <2>3. Holding(call[q].next, call[q].halt) \in Files
    BY <2>2 DEF Holding, Files
  <2>4. \/ "overtaken" \in raced[q]
        \/ Holding(call[q].next, call[q].halt).seal.seq > file.seal.seq
    BY <1>1, <1>2, SeqNat DEF Replace, Safe, Compared, Holding, TypeOK
  <2>5. CASE "overtaken" \in raced[q]
    <3>1. FileBecomes(Holding(call[q].next, call[q].halt), TRUE)
      BY <1>2, <2>5 DEF Replace, FileBecomes
    <3> QED BY <1>1, <2>1, <2>3, <3>1, WitnessSafe
  <2>6. CASE "overtaken" \notin raced[q]
    <3>1. FileBecomes(Holding(call[q].next, call[q].halt), FALSE)
      BY <1>2, <2>6 DEF Replace, FileBecomes
    <3> QED BY <1>1, <2>1, <2>3, <2>4, <2>6, <3>1, WitnessSafe
  <2> QED BY <2>5, <2>6
<1>3. CASE Remove(q)
  <2>1. pc'[p] = pc[p] /\ call'[p] = call[p] /\ FileBecomes(NoFile, TRUE)
    BY <1>1, <1>3 DEF Remove, Goto, TypeOK
  <2>2. NoFile \in Files
    BY DEF NoFile, Absent, Files, Halts
  <2> QED BY <1>1, <2>1, <2>2, WitnessSafe
<1>4. CASE \/ SetActive(q) \/ Write(q) \/ ClearActive(q) \/ Delete(q)
           \/ \E h \in {"auto", "manual"} : SetRead(q, h)
           \/ \E only \in Clears : ClearRead(q, only)
           \/ StartupCheck(q) \/ Fails(q) \/ Crash(q) \/ Restart(q)
  <2>1. file' = file /\ pc'[p] = pc[p] /\ call'[p] = call[p] /\ raced'[p] = raced[p]
    BY <1>1, <1>4 DEF SetActive, Write, ClearActive, Delete, SetRead, ClearRead, StartupCheck,
                      Fails, Crash, Restart, Begin, Escalate, Goto, TypeOK
  <2> QED BY <1>1, <2>1, QuietSafe
<1> QED BY <1>2, <1>3, <1>4 DEF Proceed

\* SInv is inductive.
LEMMA SafeKept ==
  ASSUME SInv, [Next]_vars
  PROVE  SInv'
<1>1. TypeOK'
  BY ProceedType, OtherType DEF SInv, Next
<1> SUFFICES ASSUME NEW p \in Procs PROVE Safe(p)'
  BY <1>1 DEF SInv
<1>2. TypeOK /\ Safe(p)
  BY DEF SInv
<1>3. ASSUME NEW q \in Procs,
             \/ Proceed(q)
             \/ \E h \in {"auto", "manual"} : SetRead(q, h)
             \/ \E only \in Clears : ClearRead(q, only)
             \/ StartupCheck(q) \/ Fails(q) \/ Crash(q) \/ Restart(q)
      PROVE  Safe(p)'
  <2>1. CASE p = q
    BY <1>2, <1>3, <2>1, ProceedSafe, BeginSafe
  <2>2. CASE p # q
    BY <1>3, <2>2, OthersSafe
  <2> QED BY <2>1, <2>2
<1>4. CASE Damage
  <2>1. FileBecomes(Damaged, TRUE) /\ pc' = pc /\ call' = call
    BY <1>4 DEF Damage
  <2>2. Damaged \in Files
    BY DEF Damaged, Unreadable, Files, Halts
  <2> QED BY <1>2, <2>1, <2>2, WitnessSafe
<1>5. CASE HumanDeletes
  <2>1. FileBecomes(NoFile, TRUE) /\ pc' = pc /\ call' = call
    BY <1>5 DEF HumanDeletes
  <2>2. NoFile \in Files
    BY DEF NoFile, Absent, Files, Halts
  <2> QED BY <1>2, <2>1, <2>2, WitnessSafe
<1>6. CASE UNCHANGED vars
  BY <1>2, <1>6, QuietSafe DEF vars
<1> QED BY <1>3, <1>4, <1>5, <1>6 DEF Next

\* Who takes a manual halt away was overtaken, or met a rewound seal, or is a human.
LEMMA RacesStep ==
  ASSUME SInv, [Next]_vars, Manual(file), ~Manual(file')
  PROVE  \/ ByHuman
         \/ \E p \in Procs : (Replace(p) \/ Remove(p)) /\ raced[p] \cap {"overtaken", "rewound"} # {}
<1>1. ASSUME NEW p \in Procs, Replace(p), raced[p] \cap {"overtaken", "rewound"} = {}
      PROVE  FALSE
  <2>1. TypeOK /\ Safe(p) /\ pc[p] = "replace"
    BY <1>1 DEF SInv, Replace
  <2>2. call[p].halt = "auto" /\ ~call[p].force
    <3>1. file' = Holding(call[p].next, call[p].halt)
      BY <1>1 DEF Replace, FileBecomes
    <3> QED BY <2>1, <3>1 DEF Holding, Manual, Safe, Informed
  <2>3. GoesBySeal(p) /\ file.seal = call[p].read.seal
    BY <1>1, <2>1, <2>2 DEF GoesBySeal, Safe, Compared
  <2>4. file.seal.seq \in Nat
    BY <2>1, SeqNat DEF TypeOK
  <2> QED BY <2>1, <2>2, <2>3, <2>4 DEF Safe, Ordered, Informed
<1>2. ASSUME NEW p \in Procs, Remove(p), raced[p] \cap {"overtaken", "rewound"} = {}
      PROVE  ByHuman
  <2>1. TypeOK /\ Safe(p) /\ pc[p] = "remove"
    BY <1>2 DEF SInv, Remove
  <2>2. CASE ~call[p].only
    BY <1>2, <2>2 DEF ByHuman
  <2>3. CASE call[p].only
    <3>1. GoesBySeal(p) /\ file.seal = call[p].read.seal
      BY <1>2, <2>1 DEF GoesBySeal, Safe, Informed, Compared
    <3>2. file.seal.seq \in Nat
      BY <2>1, SeqNat DEF TypeOK
    <3> QED BY <2>1, <2>3, <3>1, <3>2 DEF Safe, Ordered, Informed
  <2> QED BY <2>2, <2>3
<1>3. file' # file
  OBVIOUS
<1>4. ASSUME NEW p \in Procs,
             \/ \E h \in {"auto", "manual"} : SetRead(p, h)
             \/ \E only \in Clears : ClearRead(p, only)
             \/ StartupCheck(p) \/ SetActive(p) \/ Write(p) \/ ClearActive(p) \/ Delete(p)
             \/ Fails(p) \/ Crash(p) \/ Restart(p)
      PROVE  FALSE
  BY <1>3, <1>4 DEF SetRead, ClearRead, StartupCheck, SetActive, Write, ClearActive, Delete, Fails, Crash, Restart
<1>5. CASE Damage
  BY <1>5 DEF Damage, FileBecomes, Damaged, Unreadable, Manual
<1>6. CASE HumanDeletes
  BY <1>6 DEF ByHuman
<1>7. CASE UNCHANGED vars
  BY <1>3, <1>7 DEF vars
<1> QED BY <1>1, <1>2, <1>4, <1>5, <1>6, <1>7 DEF Next, Proceed

\* However many processes there are, a manual halt is lost to a human or to one of the two races.
THEOREM HaltsAreLostToRacesOnly == Spec => LostOnlyToRaces
<1>1. Init => SInv
  <2>1. Init => TypeOK
    BY EntryHaltAssumption DEF Init, TypeOK, Files, NoFile, Absent, Halts, PCs, Call, NoCall
  <2>2. ASSUME Init, NEW p \in Procs
        PROVE  pc[p] = "idle" /\ call[p].force = FALSE
    BY <2>2 DEF Init, NoCall
  <2>3. ASSUME Init, NEW p \in Procs
        PROVE  Safe(p)
    BY <2>2, <2>3 DEF Safe, Ordered, Informed, Compared, GoesBySeal
  <2> QED BY <2>1, <2>3 DEF SInv
<1>2. SInv /\ [Next]_vars => SInv'
  BY SafeKept
<1>3. SInv /\ [Next]_vars =>
        [Manual(file) /\ ~Manual(file') =>
           \/ ByHuman
           \/ \E p \in Procs : (Replace(p) \/ Remove(p)) /\ raced[p] \cap {"overtaken", "rewound"} # {}]_vars
  BY RacesStep
<1> QED BY <1>1, <1>2, <1>3, PTL DEF Spec, LostOnlyToRaces
=============================================================================
