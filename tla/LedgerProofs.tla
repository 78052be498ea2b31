---------------------------- MODULE LedgerProofs ----------------------------
(***************************************************************************)
(* Theorems about Ledger, for every number of processes, crashes, failed   *)
(* writes and calls: its types, one chain, nothing lost, a disagreement    *)
(* that stays, and anchors that are entries.                               *)
(*                                                                         *)
(* Then about LedgerAudit: what verify() says of a ledger, for every       *)
(* number of writers, segments, calls, crashes, failed writes and          *)
(* accidents.  It never accuses a ledger that nothing happened to; what it *)
(* calls complete is the whole ledger, with nothing moved elsewhere and    *)
(* everything in it that a third party dated; and it finds what an         *)
(* accident altered, lost or swapped.                                      *)
(*                                                                         *)
(* The walk over the segments is a recursive function; what is said of its *)
(* end is proved step by step, with NatSetInduction.                       *)
(***************************************************************************)
EXTENDS LedgerAudit, FiniteSetTheorems, WellFoundedInduction, SequenceTheorems, TLAPS

-----------------------------------------------------------------------------
(* Types *)

\* The records that the actions write have their types.
LEMMA RecordTypes ==
  /\ Genesis \in Points /\ Torn \in Lines /\ NoJob \in Job /\ NoFile \in File
  /\ \A f \in BOOLEAN : Born(f) \in Mem /\ [Born(f) EXCEPT !.ever = TRUE] \in Mem
  /\ \A l \in Lines : PointOf(l) \in Points
<1>1. Genesis \in Points /\ <<>> \in Seq(Nat) /\ <<>> \in Seq(Lines)
  BY DEF Genesis, Points
<1>2. AnchorEvery \in Nat /\ StaleAfter \in Nat
  BY LedgerAssumption
<1>3. Torn \in Lines
  BY <1>1 DEF Torn, Lines
<1>4. NoJob \in Job
  BY <1>1 DEF NoJob, Job
<1>5. NoFile \in File
  BY <1>1 DEF NoFile, File
<1>6. \A f \in BOOLEAN : Born(f) \in Mem /\ [Born(f) EXCEPT !.ever = TRUE] \in Mem
  <2>1. \A f \in BOOLEAN : Born(f) \in Mem
    BY <1>2 DEF Born, Mem
  <2>2. \A m \in Mem : [m EXCEPT !.ever = TRUE] \in Mem
    BY Zenon DEF Mem
  <2> QED BY <2>1, <2>2
<1>7. \A l \in Lines : PointOf(l) \in Points
  BY DEF PointOf, Points, Lines
<1> QED BY <1>1, <1>3, <1>4, <1>5, <1>6, <1>7

\* So do their updates.
LEMMA UpdateTypes ==
  /\ \A j \in Job, k \in Kinds : [j EXCEPT !.kind = k] \in Job /\ [j EXCEPT !.kind = k].kind = k
                                 /\ [j EXCEPT !.kind = k].of = j.of
                                 /\ [j EXCEPT !.kind = k].tip = j.tip
  /\ \A j \in Job, t \in Points : [j EXCEPT !.tip = t] \in Job /\ [j EXCEPT !.tip = t].kind = j.kind
                                  /\ [j EXCEPT !.tip = t].tip = t /\ [j EXCEPT !.tip = t].of = j.of
  /\ \A t \in Points : [NoJob EXCEPT !.of = t] \in Job /\ [NoJob EXCEPT !.of = t].of = t
  /\ \A m \in Mem, n \in 0..AnchorEvery : [m EXCEPT !.since = n] \in Mem
  /\ \A m \in Mem, n \in 0..StaleAfter : [m EXCEPT !.failures = n] \in Mem
  /\ \A m \in Mem, b \in BOOLEAN : [m EXCEPT !.flagged = b] \in Mem
<1>1. NoJob \in Job
  BY RecordTypes
<1>2. \A j \in Job, k \in Kinds : [j EXCEPT !.kind = k] \in Job /\ [j EXCEPT !.kind = k].kind = k
                                 /\ [j EXCEPT !.kind = k].of = j.of
                                 /\ [j EXCEPT !.kind = k].tip = j.tip
  BY DEF Job
<1>3. \A j \in Job, t \in Points : [j EXCEPT !.tip = t] \in Job /\ [j EXCEPT !.tip = t].kind = j.kind
                                  /\ [j EXCEPT !.tip = t].tip = t /\ [j EXCEPT !.tip = t].of = j.of
  BY DEF Job
<1>4. \A t \in Points : [NoJob EXCEPT !.of = t] \in Job /\ [NoJob EXCEPT !.of = t].of = t
  BY <1>1 DEF Job
<1>6. \A m \in Mem, n \in 0..AnchorEvery : [m EXCEPT !.since = n] \in Mem
  BY Zenon DEF Mem
<1>7. \A m \in Mem, n \in 0..StaleAfter : [m EXCEPT !.failures = n] \in Mem
  BY Zenon DEF Mem
<1>8. \A m \in Mem, b \in BOOLEAN : [m EXCEPT !.flagged = b] \in Mem
  BY Zenon DEF Mem
<1> QED BY <1>2, <1>3, <1>4, <1>6, <1>7, <1>8

\* So does the update that rotate() makes.
LEMMA SegmentType ==
  ASSUME NEW j \in Job, NEW t \in Points, NEW n \in Nat, NEW h \in Seq(Nat)
  PROVE  /\ [j EXCEPT !.of = t, !.seg = n, !.sha = h] \in Job
         /\ [j EXCEPT !.of = t, !.seg = n, !.sha = h].kind = j.kind
         /\ [j EXCEPT !.of = t, !.seg = n, !.sha = h].tip = j.tip
BY DEF Job

\* The digest of a file is a sequence of hashes, and its last line a line.
LEMMA DigestType ==
  ASSUME NEW lines \in Seq(Lines)
  PROVE  /\ Digest(lines) \in Seq(Nat)
         /\ lines # <<>> => lines[Len(lines)] \in Lines
<1>0. \A i \in DOMAIN lines : lines[i] \in Lines
  OBVIOUS
<1>1. \A i \in DOMAIN lines : lines[i] \in Lines /\ lines[i].body \in Nat
  <2>1. \A l \in Lines : l.body \in Nat
    BY DEF Lines
  <2> QED BY <1>0, <2>1
<1>2. DOMAIN lines = 1..Len(lines) /\ Len(lines) \in Nat
  OBVIOUS
<1>3. Digest(lines) = [i \in 1..Len(lines) |-> lines[i].body]
  BY <1>2 DEF Digest
<1>4. Digest(lines) \in Seq(Nat)
  BY <1>1, <1>2, <1>3
<1> QED BY <1>1, <1>2, <1>4

\* What _read_tip_unlocked returns is a point, and the tail where there is one.
LEMMA ReadTipType ==
  ASSUME TypeOK
  PROVE  /\ ReadTip \in Points
         /\ ~Empty => Tail_ \in Lines
         /\ TipAgrees /\ ReadTip # Genesis => ~Empty /\ Tail_.kind # "TORN" /\ ReadTip = PointOf(Tail_)
<1>1. active.lines \in Seq(Lines) /\ tip \in Points
  BY DEF TypeOK, File
<1>2. ~Empty => Tail_ \in Lines
  BY <1>1, DigestType DEF Empty, Tail_
<1> QED BY <1>1, <1>2, RecordTypes DEF ReadTip, TipAgrees

\* The entry of a call is a line.
LEMMA LineType ==
  ASSUME TypeOK, NEW p \in Procs, pc[p] = "line"
  PROVE  /\ LineOf(p) \in Lines /\ LineOf(p).kind = job[p].kind /\ LineOf(p).kind # "TORN"
         /\ LineOf(p).seq = job[p].tip.seq + 1 /\ LineOf(p).prev = job[p].tip.hash
         /\ LineOf(p).of = job[p].of
<1>1. job[p] \in Job /\ job[p].kind \in Kinds /\ minted + 1 \in Nat
  BY DEF TypeOK
<1>2. job[p].tip.seq + 1 \in Nat /\ job[p].tip.hash \in Nat
  BY <1>1 DEF Job, Points
<1>3. "TORN" \notin Kinds
  BY LedgerAssumption DEF Kinds, AnchorKinds
<1> QED BY <1>1, <1>2, <1>3 DEF LineOf, Lines, Job

\* A step of p to l with the locals j keeps the types of pc and job.
LEMMA MoveType ==
  ASSUME TypeOK, NEW p \in Procs, NEW l \in PCs, NEW j \in Job,
         l \in {"enter", "rename", "line", "tip"} => j.kind \in Kinds,
         pc' = [pc EXCEPT ![p] = l],
         (job' = job /\ j = job[p]) \/ job' = [job EXCEPT ![p] = j]
  PROVE  /\ pc' \in [Procs -> PCs]
         /\ job' \in [Procs -> Job]
         /\ \A q \in Procs : pc'[q] \in {"enter", "rename", "line", "tip"} => job'[q].kind \in Kinds
BY DEF TypeOK

\* Where there is a last line, whole.
WholeTail == ~Empty /\ Tail_.kind # "TORN"

\* The lock is held from the tip that was read to the tip that is written, and the tail of the
\* file is whole in between.
Held ==
  /\ \A p \in Procs : lock = p <=> pc[p] \in {"rename", "line", "tip"}
  /\ \A p \in Procs : pc[p] \in {"rename", "tip"} => WholeTail
  /\ \A p \in Procs : pc[p] = "line" => Empty \/ WholeTail
  /\ \A p \in Procs : pc[p] = "rename" => job[p].kind = "LEDGER_ROTATED"

LEMMA TypeStep ==
  ASSUME TypeOK, Held, [Next]_vars
  PROVE  TypeOK'
<1>0. /\ {"LEDGER_ROTATED", "ANCHOR_FAILED", "ANCHOR_PUBLISHED", "ANCHOR_RECOVERED", "ANCHOR_STALE"} \subseteq Kinds
      /\ Notes \subseteq Kinds /\ NoJob \in Job
  BY RecordTypes DEF Kinds, AnchorKinds
<1>k. ASSUME NEW p \in Procs, NEW k \in Kinds, Does(p, k)
      PROVE  /\ pc' \in [Procs -> PCs] /\ job' \in [Procs -> Job]
             /\ \A q \in Procs : pc'[q] \in {"enter", "rename", "line", "tip"} => job'[q].kind \in Kinds
  <2>1. job[p] \in Job
    BY DEF TypeOK
  <2> DEFINE j == [job[p] EXCEPT !.kind = k]
  <2>2. j \in Job /\ j.kind = k
    BY <2>1, UpdateTypes
  <2>3. job' = [job EXCEPT ![p] = j] /\ pc' = [pc EXCEPT ![p] = "enter"] /\ "enter" \in PCs
    BY <1>k DEF Does, Goto, PCs
  <2> QED BY <2>2, <2>3, MoveType
<1>g. ASSUME NEW p \in Procs, NEW l \in PCs, Goto(p, l), UNCHANGED job,
             l \in {"enter", "rename", "line", "tip"} => job[p].kind \in Kinds
      PROVE  /\ pc' \in [Procs -> PCs] /\ job' \in [Procs -> Job]
             /\ \A q \in Procs : pc'[q] \in {"enter", "rename", "line", "tip"} => job'[q].kind \in Kinds
  <2>1. job[p] \in Job /\ pc' = [pc EXCEPT ![p] = l]
    BY <1>g DEF TypeOK, Goto
  <2> QED BY <1>g, <2>1, MoveType
<1>r. ASSUME NEW p \in Procs, NEW l \in {"idle", "down"}, Goto(p, l), job' = [job EXCEPT ![p] = NoJob]
      PROVE  /\ pc' \in [Procs -> PCs] /\ job' \in [Procs -> Job]
             /\ \A q \in Procs : pc'[q] \in {"enter", "rename", "line", "tip"} => job'[q].kind \in Kinds
  <2>1. l \in PCs /\ pc' = [pc EXCEPT ![p] = l]
    BY <1>r DEF PCs, Goto
  <2> QED BY <1>0, <1>r, <2>1, MoveType
<1>f. Fault => faults' \in 0..MaxFaults
  BY LedgerAssumption DEF Fault, TypeOK
<1>1. ASSUME NEW p \in Procs, NEW kind \in Notes \cup {"LEDGER_ROTATED"}, Call(p, kind) PROVE TypeOK'
  <2>1. kind \in Kinds
    BY <1>0
  <2>2. calls' \in 0..MaxCalls
    BY <1>1, LedgerAssumption DEF Call, TypeOK
  <2> QED BY <1>1, <1>k, <2>1, <2>2 DEF Call, TypeOK, disk
<1>2. ASSUME NEW p \in Procs, CallAnchor(p) PROVE TypeOK'
  <2>2. calls' \in 0..MaxCalls
    BY <1>2, LedgerAssumption DEF CallAnchor, TypeOK
  <2>3. "anchor" \in PCs
    BY DEF PCs
  <2> QED BY <1>2, <1>g, <2>2, <2>3 DEF CallAnchor, TypeOK, disk
<1>3. ASSUME NEW p \in Procs, Enter(p) PROVE TypeOK'
  <2>1. ReadTip \in Points /\ job[p] \in Job /\ job[p].kind \in Kinds
    BY <1>3, ReadTipType DEF TypeOK, Enter
  <2> DEFINE j == [job[p] EXCEPT !.tip = ReadTip]
  <2>2. j \in Job /\ j.kind = job[p].kind
    BY <2>1, UpdateTypes
  <2>3. UNCHANGED <<disk, mem, published, minted, bare, calls, crashes, faults>>
        /\ lock' \in Procs \cup {NoProc}
    BY <1>3 DEF Enter, TypeOK
  <2>4. CASE Raises(p)
    BY <1>r, <2>3, <2>4 DEF Raises, TypeOK, disk
  <2>5. CASE job' = [job EXCEPT ![p] = j]
             /\ pc' = [pc EXCEPT ![p] = IF job[p].kind = "LEDGER_ROTATED" THEN "rename" ELSE "line"]
    <3>1. (IF job[p].kind = "LEDGER_ROTATED" THEN "rename" ELSE "line") \in PCs
      BY DEF PCs
    <3>2. /\ pc' \in [Procs -> PCs] /\ job' \in [Procs -> Job]
          /\ \A q \in Procs : pc'[q] \in {"enter", "rename", "line", "tip"} => job'[q].kind \in Kinds
      BY <2>1, <2>2, <2>5, <3>1, MoveType
    <3> QED BY <2>3, <3>2 DEF TypeOK, disk
  <2> QED BY <1>3, <2>4, <2>5 DEF Enter, Goto
<1>4. ASSUME NEW p \in Procs, Rename(p) PROVE TypeOK'
  <2>1. active.lines \in Seq(Lines) /\ job[p] \in Job /\ job[p].kind \in Kinds
    BY <1>4 DEF Rename, TypeOK, File
  <2>2. Digest(active.lines) \in Seq(Nat) /\ job[p].tip \in Points
    BY <2>1, DigestType DEF Job
  <2>3. PICK n \in Segments :
          /\ closed' = [closed EXCEPT ![n] = active.lines]
          /\ job' = [job EXCEPT ![p] = [job[p] EXCEPT !.of = job[p].tip, !.seg = n,
                                                     !.sha = Digest(active.lines)]]
    BY <1>4 DEF Rename
  <2>4. n \in Nat
    BY DEF Segments
  <2> DEFINE j == [job[p] EXCEPT !.of = job[p].tip, !.seg = n, !.sha = Digest(active.lines)]
  <2>5. j \in Job /\ j.kind \in Kinds
    <3> DEFINE t == job[p].tip
               h == Digest(active.lines)
    <3>1. t \in Points /\ h \in Seq(Nat)
      BY <2>2
    <3> HIDE DEF t, h
    <3>2. [job[p] EXCEPT !.of = t, !.seg = n, !.sha = h] \in Job
          /\ [job[p] EXCEPT !.of = t, !.seg = n, !.sha = h].kind = job[p].kind
      BY <2>1, <2>4, <3>1 DEF Job
    <3> USE DEF t, h
    <3> QED BY <2>1, <3>2
  <2>6. /\ pc' \in [Procs -> PCs] /\ job' \in [Procs -> Job]
        /\ \A q \in Procs : pc'[q] \in {"enter", "rename", "line", "tip"} => job'[q].kind \in Kinds
    <3>1. pc' = [pc EXCEPT ![p] = "line"] /\ "line" \in PCs
      BY <1>4 DEF Rename, Goto, PCs
    <3>2. job' = [job EXCEPT ![p] = j]
      BY <2>3
    <3> HIDE DEF j
    <3> QED BY <2>5, <3>1, <3>2, MoveType
  <2>7. closed' \in [Segments -> Seq(Lines)]
    BY <2>1, <2>3 DEF TypeOK
  <2>8. active' \in File /\ bare' \in BOOLEAN
    BY <1>4, RecordTypes DEF Rename
  <2> QED BY <1>4, <2>6, <2>7, <2>8 DEF Rename, TypeOK
<1>5. ASSUME NEW p \in Procs, WriteLine(p) PROVE TypeOK'
  <2>1. active.lines \in Seq(Lines) /\ LineOf(p) \in Lines
    BY <1>5, LineType DEF WriteLine, TypeOK, File
  <2>2. Append(active.lines, LineOf(p)) \in Seq(Lines)
    BY <2>1
  <2>3. active' \in File
    BY <1>5, <2>2 DEF WriteLine, With, File
  <2>4. "tip" \in PCs /\ job[p].kind \in Kinds
    BY <1>5 DEF WriteLine, TypeOK, PCs
  <2> QED BY <1>5, <1>g, <2>3, <2>4 DEF WriteLine, TypeOK
<1>6. ASSUME NEW p \in Procs, NEW late \in BOOLEAN, WriteTip(p, late) PROVE TypeOK'
  <2>1. tip' \in Points
    BY <1>6, ReadTipType, RecordTypes DEF WriteTip, Held, WholeTail
  <2>2. mem' \in [Procs -> Mem]
    <3>1. mem[p] \in Mem /\ mem[p].since \in 0..AnchorEvery
      BY DEF TypeOK, Mem
    <3>2. AtMost(mem[p].since + 1, AnchorEvery) \in 0..AnchorEvery
      BY <3>1, LedgerAssumption DEF AtMost
    <3>3. [mem[p] EXCEPT !.since = AtMost(mem[p].since + 1, AnchorEvery)] \in Mem
      BY <3>1, <3>2, UpdateTypes
    <3>4. mem' = [mem EXCEPT ![p] = [mem[p] EXCEPT !.since = AtMost(mem[p].since + 1, AnchorEvery)]]
      BY <1>6 DEF WriteTip
    <3> QED BY <3>3, <3>4 DEF TypeOK
  <2>3. /\ pc' \in [Procs -> PCs] /\ job' \in [Procs -> Job]
        /\ \A q \in Procs : pc'[q] \in {"enter", "rename", "line", "tip"} => job'[q].kind \in Kinds
    <3>1. AfterEntry(p, late) \in {"idle", "anchor", "unflag", "flag"}
      BY DEF AfterEntry
    <3>2. CASE AfterEntry(p, late) = "idle"
      BY <1>6, <1>r, <3>2 DEF WriteTip
    <3>3. CASE AfterEntry(p, late) # "idle"
      <4>1. AfterEntry(p, late) \in PCs
        BY <3>1 DEF PCs
      <4> QED BY <1>6, <1>g, <3>1, <3>3, <4>1 DEF WriteTip
    <3> QED BY <3>2, <3>3
  <2> QED BY <1>6, <2>1, <2>2, <2>3 DEF WriteTip, TypeOK
<1>7. ASSUME NEW p \in Procs, AnchorRead(p) PROVE TypeOK'
  <2>1. UNCHANGED <<disk, lock, mem, published, minted, bare, calls, crashes, faults>>
    BY <1>7 DEF AnchorRead
  <2>2. CASE Raises(p)
    BY <1>r, <2>1, <2>2 DEF Raises, TypeOK, disk
  <2>3. CASE job' = [job EXCEPT ![p] = [NoJob EXCEPT !.of = ReadTip]] /\ Goto(p, "segment")
    <3> DEFINE j == [NoJob EXCEPT !.of = ReadTip]
    <3>1. j \in Job
      BY ReadTipType, UpdateTypes
    <3>2. pc' = [pc EXCEPT ![p] = "segment"] /\ "segment" \in PCs /\ job' = [job EXCEPT ![p] = j]
      BY <2>3 DEF Goto, PCs
    <3> HIDE DEF j
    <3>3. /\ pc' \in [Procs -> PCs] /\ job' \in [Procs -> Job]
          /\ \A q \in Procs : pc'[q] \in {"enter", "rename", "line", "tip"} => job'[q].kind \in Kinds
      BY <3>1, <3>2, MoveType
    <3> QED BY <2>1, <3>3 DEF TypeOK, disk
  <2> QED BY <1>7, <2>2, <2>3 DEF AnchorRead
<1>8. ASSUME NEW p \in Procs, AnchorSegment(p) PROVE TypeOK'
  <2>1. "publish" \in PCs
    BY DEF PCs
  <2> QED BY <1>8, <1>g, <1>r, <2>1 DEF AnchorSegment, Raises, TypeOK, disk
<1>9. ASSUME NEW p \in Procs, PublishDone(p) PROVE TypeOK'
  <2>1. "record" \in PCs /\ job[p].of \in Points
    BY DEF PCs, TypeOK, Job
  <2> QED BY <1>9, <1>g, <2>1 DEF PublishDone, TypeOK, disk
<1>10. ASSUME NEW p \in Procs, PublishFails(p) PROVE TypeOK'
  <2>1. job[p].of \in Points
    BY DEF TypeOK, Job
  <2>2. mem' \in [Procs -> Mem]
    <3>1. mem[p] \in Mem /\ mem[p].failures \in 0..StaleAfter
      BY DEF TypeOK, Mem
    <3>2. AtMost(mem[p].failures + 1, StaleAfter) \in 0..StaleAfter
      BY <3>1, LedgerAssumption DEF AtMost
    <3>3. [mem[p] EXCEPT !.failures = AtMost(mem[p].failures + 1, StaleAfter)] \in Mem
      BY <3>1, <3>2, UpdateTypes
    <3>4. mem' = [mem EXCEPT ![p] = [mem[p] EXCEPT !.failures = AtMost(mem[p].failures + 1, StaleAfter)]]
      BY <1>10 DEF PublishFails
    <3> QED BY <3>3, <3>4 DEF TypeOK
  <2>3. published' \subseteq Points
    BY <1>10, <2>1 DEF PublishFails, TypeOK
  <2> QED BY <1>0, <1>10, <1>k, <2>2, <2>3 DEF PublishFails, TypeOK, disk
<1>11. ASSUME NEW p \in Procs, Record(p) PROVE TypeOK'
  <2>1. anchors' \subseteq Points
    BY <1>11 DEF Record, TypeOK, Job
  <2>2. mem' \in [Procs -> Mem]
    <3>1. mem[p].flagged \in BOOLEAN
      BY DEF TypeOK, Mem
    <3>2. mem' = [mem EXCEPT ![p] = [Born(mem[p].flagged) EXCEPT !.ever = TRUE]]
      BY <1>11 DEF Record
    <3> QED BY <3>1, <3>2, RecordTypes DEF TypeOK
  <2> QED BY <1>0, <1>11, <1>k, <2>1, <2>2 DEF Record, TypeOK
<1>12. ASSUME NEW p \in Procs, Unflag(p) PROVE TypeOK'
  <2>1. flag' \in BOOLEAN /\ faults' \in 0..MaxFaults
    BY <1>12, <1>f DEF Unflag, TypeOK
  <2>2. mem' \in [Procs -> Mem]
    <3>1. [mem[p] EXCEPT !.flagged = FALSE] \in Mem
      BY UpdateTypes DEF TypeOK
    <3>2. mem' = [mem EXCEPT ![p] = [mem[p] EXCEPT !.flagged = FALSE]]
      BY <1>12 DEF Unflag
    <3> QED BY <3>1, <3>2 DEF TypeOK
  <2> QED BY <1>0, <1>12, <1>k, <2>1, <2>2 DEF Unflag, TypeOK
<1>13. ASSUME NEW p \in Procs, Flag(p) PROVE TypeOK'
  <2>1. flag' \in BOOLEAN /\ faults' \in 0..MaxFaults
    BY <1>13, <1>f DEF Flag, TypeOK
  <2>2. mem' \in [Procs -> Mem]
    <3>1. [mem[p] EXCEPT !.flagged = TRUE] \in Mem
      BY UpdateTypes DEF TypeOK
    <3>2. mem' = [mem EXCEPT ![p] = [mem[p] EXCEPT !.flagged = TRUE]]
      BY <1>13 DEF Flag
    <3> QED BY <3>1, <3>2 DEF TypeOK
  <2> DEFINE j == [NoJob EXCEPT !.kind = "ANCHOR_STALE"]
  <2>3. j \in Job /\ j.kind \in Kinds
    <3>1. "ANCHOR_STALE" \in Kinds
      BY <1>0
    <3> QED BY <1>0, <3>1, UpdateTypes
  <2>4. pc' = [pc EXCEPT ![p] = "enter"] /\ "enter" \in PCs /\ job' = [job EXCEPT ![p] = j]
    BY <1>13 DEF Flag, Goto, PCs
  <2> HIDE DEF j
  <2>5. /\ pc' \in [Procs -> PCs] /\ job' \in [Procs -> Job]
        /\ \A q \in Procs : pc'[q] \in {"enter", "rename", "line", "tip"} => job'[q].kind \in Kinds
    BY <2>3, <2>4, MoveType
  <2> QED BY <1>13, <2>1, <2>2, <2>5 DEF Flag, TypeOK
<1>14. ASSUME NEW p \in Procs, WriteLineFails(p) PROVE TypeOK'
  <2>1. active.lines \in Seq(Lines) /\ LineOf(p) \in Lines /\ Torn \in Lines
    BY <1>14, LineType, RecordTypes DEF WriteLineFails, TypeOK, File
  <2>2. \A l \in Lines : With(l) => active' \in File
    <3>1. \A l \in Lines : Append(active.lines, l) \in Seq(Lines)
      BY <2>1
    <3> QED BY <3>1 DEF With, File
  <2>3. [active EXCEPT !.here = TRUE] \in File
    BY DEF TypeOK, File
  <2>4. active' \in File /\ minted' \in Nat
    <3>1. active \in File /\ minted \in Nat /\ minted + 1 \in Nat
      BY DEF TypeOK
    <3> QED BY <1>14, <2>1, <2>2, <2>3, <3>1 DEF WriteLineFails
  <2> QED BY <1>14, <1>f, <1>r, <2>4 DEF WriteLineFails, Raises, TypeOK
<1>15. ASSUME NEW p \in Procs, Fails(p) PROVE TypeOK'
  BY <1>15, <1>f, <1>r DEF Fails, Raises, TypeOK, disk
<1>16. ASSUME NEW p \in Procs, Crash(p) PROVE TypeOK'
  <2>1. crashes' \in 0..MaxCrashes
    BY <1>16, LedgerAssumption DEF Crash, TypeOK
  <2> QED BY <1>16, <1>r, <2>1 DEF Crash, TypeOK, disk
<1>17. ASSUME NEW p \in Procs, Restart(p) PROVE TypeOK'
  <2>1. Born(flag) \in Mem /\ "idle" \in PCs
    BY RecordTypes DEF TypeOK, PCs
  <2> QED BY <1>17, <1>g, <2>1 DEF Restart, TypeOK, disk
<1>18. CASE UNCHANGED vars
  BY <1>18 DEF vars, disk, TypeOK
<1> QED BY <1>1, <1>2, <1>3, <1>4, <1>5, <1>6, <1>7, <1>8, <1>9, <1>10, <1>11, <1>12, <1>13,
           <1>14, <1>15, <1>16, <1>17, <1>18 DEF Next, Proceed

-----------------------------------------------------------------------------
(* The lock *)

Holding == {"rename", "line", "tip"}

\* A step of p outside of the lock.
LEMMA HeldOutside ==
  ASSUME TypeOK, Held, NEW p \in Procs, NEW l, pc[p] \notin Holding, l \notin Holding,
         UNCHANGED <<active, lock>>, Goto(p, l), \A q \in Procs \ {p} : job'[q] = job[q]
  PROVE  Held'
<1>1. pc'[p] = l /\ \A q \in Procs \ {p} : pc'[q] = pc[q]
  BY DEF Goto, TypeOK
<1>2. WholeTail' = WholeTail /\ Empty' = Empty
  BY DEF WholeTail, Empty, Tail_
<1> QED BY <1>1, <1>2 DEF Held, Holding

\* p lets the lock go.
LEMMA HeldRelease ==
  ASSUME TypeOK, Held, NEW p \in Procs, NEW l, pc[p] \in Holding, l \notin Holding,
         lock' = NoProc, Goto(p, l)
  PROVE  Held'
<1>1. pc'[p] = l /\ \A q \in Procs \ {p} : pc'[q] = pc[q]
  BY DEF Goto, TypeOK
<1>2. \A q \in Procs \ {p} : pc[q] \notin Holding
  BY DEF Held, Holding
<1>3. NoProc \notin Procs
  BY LedgerAssumption
<1> QED BY <1>1, <1>2, <1>3 DEF Held, Holding

\* p takes it, or goes on with it.
LEMMA HeldInside ==
  ASSUME TypeOK, Held, NEW p \in Procs, NEW l \in Holding, lock \in {p, NoProc},
         lock' = p, Goto(p, l),
         l \in {"rename", "tip"} => WholeTail', l = "line" => (Empty \/ WholeTail)',
         l = "rename" => job'[p].kind = "LEDGER_ROTATED"
  PROVE  Held'
<1>1. pc'[p] = l /\ \A q \in Procs \ {p} : pc'[q] = pc[q]
  BY DEF Goto, TypeOK
<1>3. NoProc \notin Procs
  BY LedgerAssumption
<1>2. \A q \in Procs \ {p} : pc[q] \notin Holding
  BY <1>3 DEF Held, Holding
<1> QED BY <1>1, <1>2 DEF Held, Holding

\* The line that is added is the tail.
LEMMA TailAdded ==
  ASSUME TypeOK, NEW l \in Lines, With(l)
  PROVE  /\ active'.lines = Append(active.lines, l) /\ ~Empty' /\ Tail_' = l
<1>1. active.lines \in Seq(Lines)
  BY DEF TypeOK, File
<1>2. active'.lines = Append(active.lines, l)
  BY DEF With
<1>3. /\ Append(active.lines, l) \in Seq(Lines) /\ Len(Append(active.lines, l)) = Len(active.lines) + 1
      /\ Append(active.lines, l)[Len(active.lines) + 1] = l /\ Append(active.lines, l) # <<>>
  BY <1>1
<1> QED BY <1>2, <1>3 DEF Empty, Tail_

LEMMA HeldStep ==
  ASSUME TypeOK, Held, [Next]_vars
  PROVE  Held'
<1> USE DEF Holding
<1>l. \A p \in Procs : pc[p] \in Holding <=> lock = p
  BY DEF Held
<1>j. ASSUME NEW p \in Procs, NEW j, job' = [job EXCEPT ![p] = j]
      PROVE  \A q \in Procs \ {p} : job'[q] = job[q]
  BY <1>j DEF TypeOK
<1>d. ASSUME NEW p \in Procs, NEW k, Does(p, k)
      PROVE  Goto(p, "enter") /\ \A q \in Procs \ {p} : job'[q] = job[q]
  BY <1>d DEF Does, TypeOK
<1>r. ASSUME NEW p \in Procs, Raises(p)
      PROVE  Goto(p, "idle") /\ \A q \in Procs \ {p} : job'[q] = job[q]
  BY <1>r, <1>j DEF Raises
<1>1. ASSUME NEW p \in Procs, NEW kind \in Notes \cup {"LEDGER_ROTATED"}, Call(p, kind) PROVE Held'
  BY <1>1, <1>d, HeldOutside DEF Call, disk
<1>2. ASSUME NEW p \in Procs, CallAnchor(p) PROVE Held'
  BY <1>2, HeldOutside DEF CallAnchor, disk
<1>3. ASSUME NEW p \in Procs, Enter(p) PROVE Held'
  <2>1. pc[p] = "enter" /\ lock = NoProc /\ UNCHANGED active
    BY <1>3 DEF Enter, LockFree, disk
  <2>2. CASE Raises(p) /\ UNCHANGED lock
    BY <1>r, <2>1, <2>2, HeldOutside
  <2>3. CASE /\ TipAgrees /\ (job[p].kind = "LEDGER_ROTATED" => ReadTip # Genesis)
             /\ lock' = p /\ job' = [job EXCEPT ![p].tip = ReadTip]
             /\ Goto(p, IF job[p].kind = "LEDGER_ROTATED" THEN "rename" ELSE "line")
    <3>1. job'[p].kind = job[p].kind
      BY <2>3 DEF TypeOK, Job
    <3>2. WholeTail' = WholeTail /\ Empty' = Empty
      BY <2>1 DEF WholeTail, Empty, Tail_
    <3>3. Empty \/ WholeTail
      BY <2>3 DEF TipAgrees, WholeTail
    <3>4. CASE job[p].kind = "LEDGER_ROTATED"
      <4>1. WholeTail
        BY <2>3, <3>4, ReadTipType DEF WholeTail
      <4> QED BY <2>1, <2>3, <3>1, <3>2, <3>4, <4>1, HeldInside
    <3>5. CASE job[p].kind # "LEDGER_ROTATED"
      BY <2>1, <2>3, <3>2, <3>3, <3>5, HeldInside
    <3> QED BY <3>4, <3>5
  <2> QED BY <1>3, <2>2, <2>3 DEF Enter
<1>4. ASSUME NEW p \in Procs, Rename(p) PROVE Held'
  <2>1. lock = p /\ lock' = p /\ Goto(p, "line")
    BY <1>4, <1>l DEF Rename
  <2>2. Empty'
    BY <1>4 DEF Rename, NoFile, Empty
  <2> QED BY <2>1, <2>2, HeldInside
<1>5. ASSUME NEW p \in Procs, WriteLine(p) PROVE Held'
  <2>1. lock = p /\ lock' = p /\ Goto(p, "tip")
    BY <1>5, <1>l DEF WriteLine
  <2>2. WholeTail'
    BY <1>5, LineType, TailAdded DEF WriteLine, WholeTail
  <2> QED BY <2>1, <2>2, HeldInside
<1>6. ASSUME NEW p \in Procs, NEW late \in BOOLEAN, WriteTip(p, late) PROVE Held'
  <2>1. AfterEntry(p, late) \notin Holding
    BY DEF AfterEntry
  <2> QED BY <1>6, <2>1, HeldRelease DEF WriteTip
<1>7. ASSUME NEW p \in Procs, AnchorRead(p) PROVE Held'
  <2>1. pc[p] = "anchor" /\ UNCHANGED <<active, lock>>
    BY <1>7 DEF AnchorRead, disk
  <2>2. CASE Raises(p)
    BY <1>r, <2>1, <2>2, HeldOutside
  <2>3. CASE job' = [job EXCEPT ![p] = [NoJob EXCEPT !.of = ReadTip]] /\ Goto(p, "segment")
    BY <1>j, <2>1, <2>3, HeldOutside
  <2> QED BY <1>7, <2>2, <2>3 DEF AnchorRead
<1>8. ASSUME NEW p \in Procs, AnchorSegment(p) PROVE Held'
  <2>1. pc[p] = "segment" /\ UNCHANGED <<active, lock>>
    BY <1>8 DEF AnchorSegment, disk
  <2>2. CASE Raises(p)
    BY <1>r, <2>1, <2>2, HeldOutside
  <2>3. CASE Goto(p, "publish") /\ UNCHANGED job
    BY <2>1, <2>3, HeldOutside
  <2> QED BY <1>8, <2>2, <2>3 DEF AnchorSegment
<1>9. ASSUME NEW p \in Procs, PublishDone(p) PROVE Held'
  BY <1>9, HeldOutside DEF PublishDone, disk
<1>10. ASSUME NEW p \in Procs, PublishFails(p) PROVE Held'
  BY <1>10, <1>d, HeldOutside DEF PublishFails, disk
<1>11. ASSUME NEW p \in Procs, Record(p) PROVE Held'
  BY <1>11, <1>d, HeldOutside DEF Record
<1>12. ASSUME NEW p \in Procs, Unflag(p) PROVE Held'
  BY <1>12, <1>d, HeldOutside DEF Unflag
<1>13. ASSUME NEW p \in Procs, Flag(p) PROVE Held'
  BY <1>13, <1>j, HeldOutside DEF Flag
<1>14. ASSUME NEW p \in Procs, WriteLineFails(p) PROVE Held'
  BY <1>14, <1>r, HeldRelease DEF WriteLineFails
<1>15. ASSUME NEW p \in Procs, Fails(p) PROVE Held'
  <2>1. Goto(p, "idle") /\ (\A q \in Procs \ {p} : job'[q] = job[q]) /\ UNCHANGED active
    BY <1>15, <1>r DEF Fails, disk
  <2>2. CASE pc[p] = "record"
    BY <1>15, <1>l, <2>1, <2>2, HeldOutside DEF Fails
  <2>3. CASE pc[p] \in {"rename", "tip"}
    BY <1>15, <1>l, <2>1, <2>3, HeldRelease DEF Fails
  <2> QED BY <1>15, <2>2, <2>3 DEF Fails
<1>16. ASSUME NEW p \in Procs, Crash(p) PROVE Held'
  <2>1. Goto(p, "down") /\ (\A q \in Procs \ {p} : job'[q] = job[q]) /\ UNCHANGED active
    BY <1>16, <1>j DEF Crash, disk
  <2>2. CASE pc[p] \notin Holding
    BY <1>16, <1>l, <2>1, <2>2, HeldOutside DEF Crash
  <2>3. CASE pc[p] \in Holding
    BY <1>16, <1>l, <2>1, <2>3, HeldRelease DEF Crash
  <2> QED BY <2>2, <2>3
<1>17. ASSUME NEW p \in Procs, Restart(p) PROVE Held'
  BY <1>17, HeldOutside DEF Restart, disk
<1>18. CASE UNCHANGED vars
  <2>1. WholeTail' = WholeTail /\ Empty' = Empty
    BY <1>18 DEF WholeTail, Empty, Tail_, vars, disk
  <2> QED BY <1>18, <2>1 DEF vars, disk, Held
<1> QED BY <1>1, <1>2, <1>3, <1>4, <1>5, <1>6, <1>7, <1>8, <1>9, <1>10, <1>11, <1>12, <1>13,
           <1>14, <1>15, <1>16, <1>17, <1>18 DEF Next, Proceed

LEMMA TypeInit == Init => TypeOK /\ Held
<1>1. Genesis \in Points /\ NoJob \in Job /\ NoFile \in File
  BY RecordTypes
<1>2. Born(FALSE) \in Mem
  <2>1. FALSE \in BOOLEAN
    OBVIOUS
  <2> QED BY <2>1, RecordTypes, Zenon
<1>3. <<>> \in Seq(Lines)
  OBVIOUS
<1>4. ASSUME Init PROVE TypeOK
  <2>1. active \in File /\ tip \in Points /\ closed \in [Segments -> Seq(Lines)]
    BY <1>1, <1>3, <1>4 DEF Init
  <2>2. pc \in [Procs -> PCs] /\ job \in [Procs -> Job] /\ mem \in [Procs -> Mem]
    BY <1>1, <1>2, <1>4 DEF Init, PCs
  <2>3. \A p \in Procs : pc[p] \notin {"enter", "rename", "line", "tip"}
    BY <1>4 DEF Init
  <2>4. calls \in 0..MaxCalls /\ crashes \in 0..MaxCrashes /\ faults \in 0..MaxFaults /\ minted \in Nat
    BY <1>4, LedgerAssumption DEF Init
  <2>5. anchors \subseteq Points /\ published \subseteq Points
    BY <1>4 DEF Init
  <2>6. flag \in BOOLEAN /\ bare \in BOOLEAN /\ lock \in Procs \cup {NoProc}
    BY <1>4 DEF Init
  <2> QED BY <2>1, <2>2, <2>3, <2>4, <2>5, <2>6 DEF TypeOK
<1>5. Init => Held
  BY LedgerAssumption DEF Init, Held
<1> QED BY <1>4, <1>5

\* Every variable keeps its type, and the lock is held by whoever is between the tip that was
\* read and the tip that is written.
THEOREM TypeCorrect == Spec => [](TypeOK /\ Held)
BY TypeInit, TypeStep, HeldStep, PTL DEF Spec

\* "Disagreement is an integrity error, never silently healed": once a call leaves a tip file that
\* is not the tail, no process gets to add, rotate or repair anything.
THEOREM DisagreementIsNotHealed == Spec => DisagreementStays
<1>1. ASSUME TypeOK, Held, Next, lock = NoProc, Disagree
      PROVE  UNCHANGED <<active, closed, tip, lock>>
  <2>1. ~TipAgrees
    BY <1>1 DEF Disagree, TipAgrees
  <2>2. \A p \in Procs : pc[p] \notin Holding
    BY <1>1, LedgerAssumption DEF Held, Holding
  <2> QED BY <1>1, <2>1, <2>2 DEF Next, Proceed, Call, CallAnchor, Enter, Rename, WriteLine, WriteTip,
       AnchorRead, AnchorSegment, PublishDone, PublishFails, Record, Flag, Unflag, WriteLineFails,
       Fails, Crash, Restart, disk, Holding
<1>2. TypeOK /\ Held /\ [Next]_vars
        => [lock = NoProc /\ Disagree => UNCHANGED <<active, closed, tip, lock>>]_vars
  BY <1>1
<1> QED BY <1>2, TypeCorrect, PTL DEF Spec, DisagreementStays

-----------------------------------------------------------------------------
(* The entries *)

\* A line that is added is one more entry, unless it is torn.
LEMMA EntriesInAppend ==
  ASSUME NEW lines \in Seq(Lines), NEW l \in Lines
  PROVE  EntriesIn(Append(lines, l)) = EntriesIn(lines) \cup (IF l.kind = "TORN" THEN {} ELSE {l})
<1> DEFINE more == Append(lines, l)
<1>1. /\ more \in Seq(Lines) /\ Len(lines) \in Nat /\ Len(more) = Len(lines) + 1
      /\ \A i \in 1..Len(lines) : more[i] = lines[i]
      /\ more[Len(lines) + 1] = l
  OBVIOUS
<1>2. DOMAIN more = 1..(Len(lines) + 1) /\ DOMAIN lines = 1..Len(lines)
  BY <1>1
<1> HIDE DEF more
<1>3. ASSUME NEW e \in EntriesIn(more)
      PROVE  e \in EntriesIn(lines) \cup (IF l.kind = "TORN" THEN {} ELSE {l})
  <2>1. PICK i \in 1..(Len(lines) + 1) : e = more[i] /\ more[i].kind # "TORN"
    BY <1>2, <1>3 DEF EntriesIn
  <2>2. CASE i \in 1..Len(lines)
    BY <1>1, <1>2, <2>1, <2>2 DEF EntriesIn
  <2>3. CASE i = Len(lines) + 1
    BY <1>1, <2>1, <2>3
  <2> QED BY <1>1, <2>2, <2>3
<1>4. ASSUME NEW e \in EntriesIn(lines) PROVE e \in EntriesIn(more)
  <2>1. PICK i \in 1..Len(lines) : e = lines[i] /\ lines[i].kind # "TORN"
    BY <1>2, <1>4 DEF EntriesIn
  <2>2. i \in 1..(Len(lines) + 1) /\ more[i] = e
    BY <1>1, <2>1
  <2> QED BY <1>2, <2>1, <2>2 DEF EntriesIn
<1>5. l.kind # "TORN" => l \in EntriesIn(more)
  <2>1. Len(lines) + 1 \in DOMAIN more
    BY <1>1, <1>2
  <2> QED BY <1>1, <2>1 DEF EntriesIn
<1> QED BY <1>3, <1>4, <1>5 DEF more

\* An entry is a line that is not torn, and a whole tail is one.
LEMMA EntriesType ==
  ASSUME TypeOK
  PROVE  /\ \A e \in Entries : e \in Lines /\ e.kind # "TORN" /\ e.seq \in Nat
         /\ WholeTail => Tail_ \in Entries
<1>1. ASSUME NEW lines \in Seq(Lines)
      PROVE  /\ \A e \in EntriesIn(lines) : e \in Lines /\ e.kind # "TORN"
             /\ lines # <<>> /\ lines[Len(lines)].kind # "TORN" => lines[Len(lines)] \in EntriesIn(lines)
  <2>1. DOMAIN lines = 1..Len(lines) /\ \A i \in DOMAIN lines : lines[i] \in Lines
    OBVIOUS
  <2>2. lines # <<>> => Len(lines) \in 1..Len(lines)
    OBVIOUS
  <2> QED BY <2>1, <2>2 DEF EntriesIn
<1>2. active.lines \in Seq(Lines) /\ \A n \in Segments : closed[n] \in Seq(Lines)
  BY DEF TypeOK, File
<1>3. \A l \in Lines : l.seq \in Nat
  BY DEF Lines
<1>4. \A e \in Entries : e \in Lines /\ e.kind # "TORN"
  BY <1>1, <1>2 DEF Entries
<1>5. WholeTail => Tail_ \in Entries
  BY <1>1, <1>2 DEF Entries, WholeTail, Empty, Tail_
<1> QED BY <1>3, <1>4, <1>5

\* With a line more in the active file there is an entry more, or none.
LEMMA EntryAdded ==
  ASSUME TypeOK, NEW l \in Lines, With(l), UNCHANGED closed
  PROVE  Entries' = Entries \cup (IF l.kind = "TORN" THEN {} ELSE {l})
<1>1. active.lines \in Seq(Lines) /\ active'.lines = Append(active.lines, l)
  BY TailAdded DEF TypeOK, File
<1>2. EntriesIn(active'.lines) = EntriesIn(active.lines) \cup (IF l.kind = "TORN" THEN {} ELSE {l})
  BY <1>1, EntriesInAppend
<1> QED BY <1>2 DEF Entries

\* A rotation moves entries, it takes none away.
LEMMA EntriesMoved ==
  ASSUME TypeOK, NEW p \in Procs, Rename(p)
  PROVE  Entries' = Entries
<1>1. PICK n \in Segments : closed[n] = <<>> /\ closed' = [closed EXCEPT ![n] = active.lines]
  BY DEF Rename, NextSegment, FreeSegments
<1>2. closed'[n] = active.lines /\ \A m \in Segments \ {n} : closed'[m] = closed[m]
  BY <1>1 DEF TypeOK
<1>3. active'.lines = <<>>
  BY DEF Rename, NoFile
<1>4. EntriesIn(<<>>) = {}
  BY DEF EntriesIn
<1>5. \A e : e \in Entries' <=> e \in EntriesIn(<<>>) \/ \E m \in Segments : e \in EntriesIn(closed'[m])
  BY <1>3 DEF Entries
<1>6. \A e : e \in Entries <=> e \in EntriesIn(active.lines) \/ \E m \in Segments : e \in EntriesIn(closed[m])
  BY DEF Entries
<1>7. \A e : e \in Entries' <=> e \in Entries
  BY <1>1, <1>2, <1>4, <1>5, <1>6
<1> QED BY <1>7

\* What a step does to the entries: p adds one, or nothing changes.
LEMMA EntryStep ==
  ASSUME TypeOK, Held, [Next]_vars
  PROVE  \/ Entries' = Entries
         \/ \E p \in Procs :
              /\ pc[p] = "line" /\ With(LineOf(p)) /\ UNCHANGED <<closed, tip, anchors, published>>
              /\ (Goto(p, "tip") \/ Goto(p, "idle"))
              /\ Entries' = Entries \cup {LineOf(p)}
<1>0. UNCHANGED <<active, closed>> => Entries' = Entries
  BY DEF Entries
<1>1. ASSUME NEW p \in Procs, pc[p] = "line", With(LineOf(p)), UNCHANGED closed
      PROVE  Entries' = Entries \cup {LineOf(p)}
  BY <1>1, LineType, EntryAdded
<1>2. ASSUME NEW p \in Procs, WriteLineFails(p)
      PROVE  \/ Entries' = Entries
             \/ /\ pc[p] = "line" /\ With(LineOf(p)) /\ UNCHANGED <<closed, tip, anchors, published>>
                /\ Goto(p, "idle") /\ Entries' = Entries \cup {LineOf(p)}
  <2>1. pc[p] = "line" /\ Goto(p, "idle") /\ UNCHANGED <<closed, tip, anchors, published>>
    BY <1>2 DEF WriteLineFails, Raises
  <2>2. CASE UNCHANGED active
    BY <1>0, <2>1, <2>2
  <2>3. CASE active' = [active EXCEPT !.here = TRUE]
    <3>1. active'.lines = active.lines
      BY <2>3 DEF TypeOK, File
    <3> QED BY <2>1, <3>1 DEF Entries
  <2>4. CASE With(Torn)
    <3>1. Torn \in Lines /\ Torn.kind = "TORN"
      BY RecordTypes DEF Torn
    <3> QED BY <2>1, <2>4, <3>1, EntryAdded
  <2>5. CASE With(LineOf(p))
    BY <1>1, <2>1, <2>5
  <2> QED BY <1>2, <2>2, <2>3, <2>4, <2>5 DEF WriteLineFails
<1>3. ASSUME NEW p \in Procs, WriteLine(p)
      PROVE  /\ pc[p] = "line" /\ With(LineOf(p)) /\ UNCHANGED <<closed, tip, anchors, published>>
             /\ Goto(p, "tip") /\ Entries' = Entries \cup {LineOf(p)}
  BY <1>1, <1>3 DEF WriteLine
<1>4. ASSUME NEW p \in Procs, Rename(p) PROVE Entries' = Entries
  BY <1>4, EntriesMoved
<1>5. ASSUME ~(\E p \in Procs : WriteLineFails(p) \/ WriteLine(p) \/ Rename(p))
      PROVE  UNCHANGED <<active, closed>>
  BY <1>5 DEF Next, Proceed, Call, CallAnchor, Enter, WriteTip, AnchorRead, AnchorSegment, PublishDone,
       PublishFails, Record, Flag, Unflag, Fails, Crash, Restart, disk, vars
<1> QED BY <1>0, <1>2, <1>3, <1>4, <1>5

\* Nothing that was written is ever taken back or changed, across rotations too.
THEOREM WrittenStays == Spec => NothingIsLost
<1>1. TypeOK /\ Held /\ [Next]_vars => [Entries \subseteq Entries']_vars
  BY EntryStep
<1> QED BY <1>1, TypeCorrect, PTL DEF Spec, NothingIsLost

-----------------------------------------------------------------------------
(* One chain *)

\* t is the point of the last entry, or there is none.
Newest(t) ==
  IF Entries = {} THEN t = Genesis
  ELSE \E e \in Entries : t = PointOf(e) /\ \A f \in Entries : f.seq <= e.seq

\* The entries are one chain; the tail of the active file, where it is whole, is the last of them;
\* a ledger without a tip file has no closed segment; and whoever is about to write an entry has
\* the last one in hand.
Growing ==
  /\ Chained
  /\ \A e \in Entries : e.seq # 0
  /\ WholeTail => \A e \in Entries : e.seq <= Tail_.seq
  /\ tip.seq = 0 => \A n \in Segments : closed[n] = <<>>
  /\ \A p \in Procs : pc[p] \in {"rename", "line"} => Newest(job[p].tip)

\* A step that leaves the files alone, and at which nobody reads a tip.
LEMMA GrowingStays ==
  ASSUME Growing, UNCHANGED <<active, closed, tip>>,
         \A q \in Procs : pc'[q] \in {"rename", "line"} =>
                            pc[q] \in {"rename", "line"} /\ job'[q].tip = job[q].tip
  PROVE  Growing'
<1>1. Entries' = Entries /\ WholeTail' = WholeTail /\ Tail_' = Tail_
  BY DEF Entries, WholeTail, Empty, Tail_
<1>2. Chained' = Chained
  BY <1>1 DEF Chained
<1>3. \A t : Newest(t)' = Newest(t)
  BY <1>1 DEF Newest
<1> QED BY <1>1, <1>2, <1>3 DEF Growing

\* What the tip is read as is the last entry.
LEMMA ReadTipNewest ==
  ASSUME TypeOK, Growing, TipAgrees
  PROVE  Newest(ReadTip)
<1>1. CASE WholeTail
  <2>1. ReadTip = PointOf(Tail_)
    BY <1>1 DEF ReadTip, TipAgrees, WholeTail
  <2>2. Tail_ \in Entries /\ \A f \in Entries : f.seq <= Tail_.seq
    BY <1>1, EntriesType DEF Growing
  <2> QED BY <2>1, <2>2 DEF Newest
<1>2. CASE ~WholeTail
  <2>1. Empty /\ tip.seq = 0
    BY <1>2 DEF WholeTail, TipAgrees
  <2>2. EntriesIn(<<>>) = {}
    BY DEF EntriesIn
  <2>3. Entries = {}
    BY <2>1, <2>2 DEF Entries, Empty, Growing
  <2> QED BY <2>1, <2>3 DEF Newest, ReadTip
<1> QED BY <1>1, <1>2

\* An entry on the last one is the last one of one chain.
LEMMA ChainGrows ==
  ASSUME TypeOK, Growing, NEW l \in Lines, NEW t \in Points, Newest(t),
         l.seq = t.seq + 1, l.prev = t.hash, Entries' = Entries \cup {l}
  PROVE  /\ Chained' /\ \A e \in Entries' : e.seq # 0 /\ e.seq <= l.seq
<1>1. l.seq \in Nat /\ t.seq \in Nat /\ \A e \in Entries : e.seq \in Nat /\ e.seq # 0
  BY EntriesType DEF Lines, Points, Growing
<1>2. CASE Entries = {}
  <2>1. l.seq = 1 /\ l.prev = 0 /\ Entries' = {l}
    BY <1>2 DEF Newest, Genesis
  <2> QED BY <2>1 DEF Chained
<1>3. CASE Entries # {}
  <2>1. PICK last \in Entries : t = PointOf(last) /\ \A f \in Entries : f.seq <= last.seq
    BY <1>3 DEF Newest
  <2>2. t.seq = last.seq /\ t.hash = last.hash
    BY <2>1 DEF PointOf
  <2>3. \A e \in Entries : e.seq < l.seq
    BY <1>1, <2>1, <2>2
  <2>4. \A e, f \in Entries' : e.seq = f.seq => e = f
    BY <1>1, <2>3 DEF Growing, Chained
  <2>5. ASSUME NEW e \in Entries'
        PROVE  IF e.seq = 1 THEN e.prev = 0
               ELSE \E f \in Entries' : f.seq + 1 = e.seq /\ f.hash = e.prev
    <3>1. CASE e \in Entries
      BY <3>1 DEF Growing, Chained
    <3>2. CASE e = l
      BY <1>1, <2>1, <2>2, <3>2
    <3> QED BY <3>1, <3>2
  <2> QED BY <1>1, <2>3, <2>4, <2>5 DEF Chained
<1> QED BY <1>2, <1>3

LEMMA GrowingStep ==
  ASSUME TypeOK, Held, Growing, [Next]_vars, ~bare'
  PROVE  Growing'
<1>n. NoProc \notin Procs
  BY LedgerAssumption
<1>g. ASSUME NEW p \in Procs, NEW l, l \notin {"rename", "line"}, Goto(p, l),
             \A q \in Procs \ {p} : job'[q] = job[q]
      PROVE  \A q \in Procs : pc'[q] \in {"rename", "line"} =>
                                pc[q] \in {"rename", "line"} /\ job'[q].tip = job[q].tip
  BY <1>g DEF Goto, TypeOK
<1>j. ASSUME NEW p \in Procs, NEW j, job' = [job EXCEPT ![p] = j]
      PROVE  \A q \in Procs \ {p} : job'[q] = job[q]
  BY <1>j DEF TypeOK
<1>d. ASSUME NEW p \in Procs, NEW k, Does(p, k)
      PROVE  Goto(p, "enter") /\ \A q \in Procs \ {p} : job'[q] = job[q]
  BY <1>d DEF Does, TypeOK
<1>r. ASSUME NEW p \in Procs, Raises(p)
      PROVE  Goto(p, "idle") /\ \A q \in Procs \ {p} : job'[q] = job[q]
  BY <1>r, <1>j DEF Raises
\* Nobody else is under the lock.
<1>a. ASSUME NEW p \in Procs, pc[p] \in {"rename", "line", "tip"}
      PROVE  \A q \in Procs \ {p} : pc[q] \notin {"rename", "line"}
  BY <1>a, <1>n DEF Held
\* An entry is written.
<1>w. ASSUME NEW p \in Procs, pc[p] = "line", With(LineOf(p)), UNCHANGED <<closed, tip>>,
             NEW l \in {"tip", "idle"}, Goto(p, l)
      PROVE  Growing'
  <2>1. /\ LineOf(p) \in Lines /\ LineOf(p).kind # "TORN" /\ LineOf(p).seq = job[p].tip.seq + 1
        /\ LineOf(p).prev = job[p].tip.hash /\ job[p].tip \in Points
    BY <1>w, LineType DEF TypeOK, Job
  <2>2. Entries' = Entries \cup {LineOf(p)} /\ Tail_' = LineOf(p)
    BY <1>w, <2>1, EntryAdded, TailAdded
  <2>3. Chained' /\ \A e \in Entries' : e.seq # 0 /\ e.seq <= LineOf(p).seq
    BY <1>w, <2>1, <2>2, ChainGrows DEF Growing
  <2>4. \A q \in Procs : pc'[q] \notin {"rename", "line"}
    BY <1>a, <1>w DEF Goto, TypeOK
  <2> QED BY <1>w, <2>2, <2>3, <2>4 DEF Growing
<1>1. ASSUME NEW p \in Procs, NEW kind \in Notes \cup {"LEDGER_ROTATED"}, Call(p, kind) PROVE Growing'
  BY <1>1, <1>d, <1>g, GrowingStays DEF Call, disk
<1>2. ASSUME NEW p \in Procs, CallAnchor(p) PROVE Growing'
  BY <1>2, <1>g, GrowingStays DEF CallAnchor, disk
<1>3. ASSUME NEW p \in Procs, Enter(p) PROVE Growing'
  <2>1. UNCHANGED <<active, closed, tip>>
    BY <1>3 DEF Enter, disk
  <2>2. CASE Raises(p)
    BY <1>g, <1>r, <2>1, <2>2, GrowingStays
  <2>3. CASE TipAgrees /\ job' = [job EXCEPT ![p].tip = ReadTip]
             /\ Goto(p, IF job[p].kind = "LEDGER_ROTATED" THEN "rename" ELSE "line")
    <3>1. Newest(ReadTip)
      BY <2>3, ReadTipNewest
    <3>2. Entries' = Entries /\ WholeTail' = WholeTail /\ Tail_' = Tail_
      BY <2>1 DEF Entries, WholeTail, Empty, Tail_
    <3>3. Chained' = Chained
      BY <3>2 DEF Chained
    <3>4. \A t : Newest(t)' = Newest(t)
      BY <3>2 DEF Newest
    <3>5. job'[p].tip = ReadTip /\ \A q \in Procs \ {p} : job'[q] = job[q] /\ pc'[q] = pc[q]
      BY <2>3 DEF TypeOK, Job, Goto
    <3> QED BY <2>1, <3>1, <3>2, <3>3, <3>4, <3>5 DEF Growing
  <2> QED BY <1>3, <2>2, <2>3 DEF Enter
<1>4. ASSUME NEW p \in Procs, Rename(p) PROVE Growing'
  <2>1. Entries' = Entries /\ ~WholeTail'
    BY <1>4, EntriesMoved DEF Rename, NoFile, WholeTail, Empty
  <2>2. tip'.seq # 0
    BY <1>4 DEF Rename
  <2>3. PICK n \in Segments :
          job' = [job EXCEPT ![p] = [job[p] EXCEPT !.of = job[p].tip, !.seg = n,
                                                   !.sha = Digest(active.lines)]]
    BY <1>4 DEF Rename
  <2>4. job'[p].tip = job[p].tip
    BY <2>3 DEF TypeOK, Job
  <2>5. Newest(job[p].tip)' /\ Chained'
    <3>1. Newest(job[p].tip) /\ Chained
      BY <1>4 DEF Rename, Growing
    <3> QED BY <2>1, <2>4, <3>1 DEF Newest, Chained
  <2>6. \A q \in Procs \ {p} : pc'[q] \notin {"rename", "line"}
    BY <1>4, <1>a DEF Rename, Goto, TypeOK
  <2> QED BY <2>1, <2>2, <2>5, <2>6 DEF Growing
<1>5. ASSUME NEW p \in Procs, WriteLine(p) PROVE Growing'
  BY <1>5, <1>w DEF WriteLine
<1>6. ASSUME NEW p \in Procs, NEW late \in BOOLEAN, WriteTip(p, late) PROVE Growing'
  <2>1. /\ pc[p] = "tip" /\ UNCHANGED <<active, closed>> /\ tip' = PointOf(Tail_)
        /\ Goto(p, AfterEntry(p, late)) /\ AfterEntry(p, late) \notin {"rename", "line"}
    BY <1>6 DEF WriteTip, AfterEntry
  <2>2. Tail_ \in Entries
    BY <2>1, EntriesType DEF Held
  <2>3. tip'.seq # 0
    BY <2>1, <2>2 DEF Growing, PointOf
  <2>4. \A q \in Procs : pc'[q] \notin {"rename", "line"}
    BY <1>a, <2>1 DEF Goto, TypeOK
  <2>5. Entries' = Entries /\ WholeTail' = WholeTail /\ Tail_' = Tail_
    BY <2>1 DEF Entries, WholeTail, Empty, Tail_
  <2>6. Chained' = Chained
    BY <2>5 DEF Chained
  <2> QED BY <2>3, <2>4, <2>5, <2>6 DEF Growing
<1>7. ASSUME NEW p \in Procs, AnchorRead(p) PROVE Growing'
  <2>1. UNCHANGED <<active, closed, tip>>
    BY <1>7 DEF AnchorRead, disk
  <2>2. CASE Raises(p)
    BY <1>g, <1>r, <2>1, <2>2, GrowingStays
  <2>3. CASE job' = [job EXCEPT ![p] = [NoJob EXCEPT !.of = ReadTip]] /\ Goto(p, "segment")
    BY <1>g, <1>j, <2>1, <2>3, GrowingStays
  <2> QED BY <1>7, <2>2, <2>3 DEF AnchorRead
<1>8. ASSUME NEW p \in Procs, AnchorSegment(p) PROVE Growing'
  <2>1. UNCHANGED <<active, closed, tip>>
    BY <1>8 DEF AnchorSegment, disk
  <2>2. CASE Raises(p)
    BY <1>g, <1>r, <2>1, <2>2, GrowingStays
  <2>3. CASE Goto(p, "publish") /\ UNCHANGED job
    BY <1>g, <2>1, <2>3, GrowingStays
  <2> QED BY <1>8, <2>2, <2>3 DEF AnchorSegment
<1>9. ASSUME NEW p \in Procs, PublishDone(p) PROVE Growing'
  BY <1>9, <1>g, GrowingStays DEF PublishDone, disk
<1>10. ASSUME NEW p \in Procs, PublishFails(p) PROVE Growing'
  BY <1>10, <1>d, <1>g, GrowingStays DEF PublishFails, disk
<1>11. ASSUME NEW p \in Procs, Record(p) PROVE Growing'
  BY <1>11, <1>d, <1>g, GrowingStays DEF Record
<1>12. ASSUME NEW p \in Procs, Unflag(p) PROVE Growing'
  BY <1>12, <1>d, <1>g, GrowingStays DEF Unflag
<1>13. ASSUME NEW p \in Procs, Flag(p) PROVE Growing'
  BY <1>13, <1>j, <1>g, GrowingStays DEF Flag
<1>14. ASSUME NEW p \in Procs, WriteLineFails(p) PROVE Growing'
  <2>1. /\ pc[p] = "line" /\ UNCHANGED <<closed, tip>> /\ Raises(p) /\ Goto(p, "idle")
        /\ \A q \in Procs \ {p} : job'[q] = job[q]
    BY <1>14, <1>r DEF WriteLineFails
  <2>2. CASE UNCHANGED active
    BY <1>g, <2>1, <2>2, GrowingStays
  <2>3. CASE With(LineOf(p))
    BY <1>w, <2>1, <2>3
  <2>4. \A q \in Procs : pc'[q] \notin {"rename", "line"}
    BY <1>a, <2>1 DEF Goto, TypeOK
  <2>5. CASE active' = [active EXCEPT !.here = TRUE]
    <3>1. active'.lines = active.lines
      BY <2>5 DEF TypeOK, File
    <3>2. Entries' = Entries /\ WholeTail' = WholeTail /\ Tail_' = Tail_
      BY <2>1, <3>1 DEF Entries, WholeTail, Empty, Tail_
    <3>3. Chained' = Chained
      BY <3>2 DEF Chained
    <3> QED BY <2>1, <2>4, <3>2, <3>3 DEF Growing
  <2>6. CASE With(Torn)
    <3>1. Torn \in Lines /\ Torn.kind = "TORN"
      BY RecordTypes DEF Torn
    <3>2. Entries' = Entries /\ ~WholeTail'
      BY <2>1, <2>6, <3>1, EntryAdded, TailAdded DEF WholeTail
    <3>3. Chained' = Chained
      BY <3>2 DEF Chained
    <3> QED BY <2>1, <2>4, <3>2, <3>3 DEF Growing
  <2> QED BY <1>14, <2>2, <2>3, <2>5, <2>6 DEF WriteLineFails
<1>15. ASSUME NEW p \in Procs, Fails(p) PROVE Growing'
  BY <1>15, <1>g, <1>r, GrowingStays DEF Fails, disk
<1>16. ASSUME NEW p \in Procs, Crash(p) PROVE Growing'
  BY <1>16, <1>g, <1>j, GrowingStays DEF Crash, disk
<1>17. ASSUME NEW p \in Procs, Restart(p) PROVE Growing'
  BY <1>17, <1>g, GrowingStays DEF Restart, disk
<1>18. CASE UNCHANGED vars
  BY <1>18, GrowingStays DEF vars, disk
<1> QED BY <1>1, <1>2, <1>3, <1>4, <1>5, <1>6, <1>7, <1>8, <1>9, <1>10, <1>11, <1>12, <1>13,
           <1>14, <1>15, <1>16, <1>17, <1>18 DEF Next, Proceed

\* There is no way back from a rotation without a tip file.
LEMMA BareStays == TypeOK /\ [Next]_vars => (bare => bare')
BY DEF Next, Proceed, Call, CallAnchor, Enter, Rename, WriteLine, WriteTip, AnchorRead, AnchorSegment,
       PublishDone, PublishFails, Record, Flag, Unflag, WriteLineFails, Fails, Crash, Restart, vars

\* Whoever appends, rotates, fails or dies, the entries of all the segments are one chain, if no
\* ledger is rotated before its first chain_state.json is there.
THEOREM Chain == Spec => []OneChain
<1>1. Init => Growing
  <2>1. EntriesIn(<<>>) = {}
    BY DEF EntriesIn
  <2>2. Init => Entries = {}
    BY <2>1 DEF Init, Entries, NoFile
  <2> QED BY <2>2 DEF Init, Growing, Chained, WholeTail, Empty, NoFile
<1>2. TypeOK /\ Held /\ [Next]_vars /\ (~bare => Growing) => (~bare => Growing)'
  BY GrowingStep, BareStays
<1>3. (~bare => Growing) => OneChain
  BY DEF Growing, OneChain
<1> QED BY <1>1, <1>2, <1>3, TypeCorrect, PTL DEF Spec

-----------------------------------------------------------------------------
(* Anchors *)

Dated == {PointOf(e) : e \in Entries}

\* What is published, or about to be, is an entry; what is recorded was published; and an
\* ANCHOR_PUBLISHED, written or on its way, is about an anchor that is recorded.
Dating ==
  /\ anchors \subseteq published /\ published \subseteq Dated
  /\ \A e \in Entries : e.kind = "ANCHOR_PUBLISHED" => e.of \in anchors
  /\ \A p \in Procs : pc[p] \in {"segment", "publish", "record"} => job[p].of \in Dated
  /\ \A p \in Procs : pc[p] = "record" => job[p].of \in published
  /\ \A p \in Procs : pc[p] \in {"enter", "line"} /\ job[p].kind = "ANCHOR_PUBLISHED"
                       => job[p].of \in anchors

\* A step that writes no entry of an anchor: p goes to l with the locals j.
LEMMA DatingMove ==
  ASSUME TypeOK, Dating, Entries \subseteq Entries',
         \A e \in Entries' \ Entries : e.kind = "ANCHOR_PUBLISHED" => e.of \in anchors,
         NEW p \in Procs, NEW l, Goto(p, l), \A q \in Procs \ {p} : job'[q] = job[q],
         anchors \subseteq anchors', anchors' \subseteq published', published \subseteq published',
         published' \subseteq Dated,
         l \in {"segment", "publish", "record"} => job'[p].of \in Dated,
         l = "record" => job'[p].of \in published',
         l \in {"enter", "line"} /\ job'[p].kind = "ANCHOR_PUBLISHED" => job'[p].of \in anchors'
  PROVE  Dating'
<1>1. pc'[p] = l /\ \A q \in Procs \ {p} : pc'[q] = pc[q]
  BY DEF Goto, TypeOK
<1>2. Dated \subseteq Dated'
  BY DEF Dated
<1>3. \A e \in Entries' : e.kind = "ANCHOR_PUBLISHED" => e.of \in anchors'
  BY DEF Dating
<1>4. anchors' \subseteq published' /\ published' \subseteq Dated'
  BY <1>2
<1>5. \A q \in Procs : pc'[q] \in {"segment", "publish", "record"} => job'[q].of \in Dated'
  BY <1>1, <1>2 DEF Dating
<1>6. \A q \in Procs : pc'[q] = "record" => job'[q].of \in published'
  BY <1>1 DEF Dating
<1>7. \A q \in Procs : pc'[q] \in {"enter", "line"} /\ job'[q].kind = "ANCHOR_PUBLISHED"
                       => job'[q].of \in anchors'
  BY <1>1 DEF Dating
<1> QED BY <1>3, <1>4, <1>5, <1>6, <1>7 DEF Dating

\* An anchor is read as the point of an entry.
LEMMA ReadTipDated ==
  ASSUME TypeOK, TipAgrees, ReadTip # Genesis
  PROVE  ReadTip \in Dated
BY ReadTipType, EntriesType DEF WholeTail, Dated

LEMMA DatingStep ==
  ASSUME TypeOK, Held, Dating, [Next]_vars
  PROVE  Dating'
<1>0. Entries \subseteq Entries' /\ \A e \in Entries' \ Entries : e.kind = "ANCHOR_PUBLISHED" => e.of \in anchors
  <2>1. CASE Entries' = Entries
    BY <2>1
  <2>2. ASSUME NEW p \in Procs, pc[p] = "line", Entries' = Entries \cup {LineOf(p)}
        PROVE  \A e \in Entries' \ Entries : e.kind = "ANCHOR_PUBLISHED" => e.of \in anchors
    BY <2>2, LineType DEF Dating
  <2> QED BY <2>1, <2>2, EntryStep
<1>f. "ANCHOR_PUBLISHED" \notin Notes \cup {"LEDGER_ROTATED", "ANCHOR_FAILED", "ANCHOR_STALE", "ANCHOR_RECOVERED"}
  BY LedgerAssumption
<1>p. anchors \subseteq published /\ published \subseteq Dated
  BY DEF Dating
<1>j. ASSUME NEW p \in Procs, NEW j, job' = [job EXCEPT ![p] = j]
      PROVE  job'[p] = j /\ \A q \in Procs \ {p} : job'[q] = job[q]
  BY <1>j DEF TypeOK
<1>d. ASSUME NEW p \in Procs, NEW k \in Kinds, Does(p, k)
      PROVE  /\ Goto(p, "enter") /\ \A q \in Procs \ {p} : job'[q] = job[q]
             /\ job'[p].kind = k /\ job'[p].of = job[p].of
  <2>1. job' = [job EXCEPT ![p] = [job[p] EXCEPT !.kind = k]] /\ Goto(p, "enter") /\ job[p] \in Job
    BY <1>d DEF Does, TypeOK
  <2>2. job'[p] = [job[p] EXCEPT !.kind = k] /\ \A q \in Procs \ {p} : job'[q] = job[q]
    BY <1>j, <2>1
  <2>3. job'[p].kind = k /\ job'[p].of = job[p].of
    BY <2>1, <2>2 DEF Job
  <2> QED BY <2>1, <2>2, <2>3
<1>k. /\ Notes \subseteq Kinds
      /\ {"LEDGER_ROTATED", "ANCHOR_FAILED", "ANCHOR_PUBLISHED", "ANCHOR_RECOVERED"} \subseteq Kinds
  BY DEF Kinds, AnchorKinds
\* A step after which p is in no anchor and has no entry to write.
<1>q. ASSUME NEW p \in Procs, NEW l, l \notin {"segment", "publish", "record", "enter", "line"}, Goto(p, l),
             \A q \in Procs \ {p} : job'[q] = job[q], UNCHANGED <<anchors, published>>
      PROVE  Dating'
  BY <1>0, <1>p, <1>q, DatingMove
<1>r. ASSUME NEW p \in Procs, Raises(p), UNCHANGED <<anchors, published>> PROVE Dating'
  BY <1>j, <1>q, <1>r DEF Raises
<1>1. ASSUME NEW p \in Procs, NEW kind \in Notes \cup {"LEDGER_ROTATED"}, Call(p, kind) PROVE Dating'
  <2>1. kind # "ANCHOR_PUBLISHED" /\ kind \in Kinds
    BY <1>f, <1>k
  <2>2. Does(p, kind) /\ UNCHANGED <<anchors, published>>
    BY <1>1 DEF Call, disk
  <2>3. Goto(p, "enter") /\ (\A q \in Procs \ {p} : job'[q] = job[q]) /\ job'[p].kind = kind
    BY <1>d, <2>1, <2>2
  <2> QED BY <1>0, <1>p, <2>1, <2>2, <2>3, DatingMove
<1>2. ASSUME NEW p \in Procs, CallAnchor(p) PROVE Dating'
  BY <1>2, <1>q DEF CallAnchor, disk
<1>3. ASSUME NEW p \in Procs, Enter(p) PROVE Dating'
  <2>1. UNCHANGED <<anchors, published>> /\ pc[p] = "enter"
    BY <1>3 DEF Enter, disk
  <2>2. CASE Raises(p)
    BY <1>r, <2>1, <2>2
  <2>3. CASE /\ job' = [job EXCEPT ![p].tip = ReadTip]
             /\ Goto(p, IF job[p].kind = "LEDGER_ROTATED" THEN "rename" ELSE "line")
    <3>1. /\ job'[p].kind = job[p].kind /\ job'[p].of = job[p].of
          /\ \A q \in Procs \ {p} : job'[q] = job[q]
      BY <2>3 DEF TypeOK, Job
    <3>2. job[p].kind = "ANCHOR_PUBLISHED" => job[p].of \in anchors
      BY <2>1 DEF Dating
    <3>3. CASE job[p].kind = "LEDGER_ROTATED"
      BY <1>q, <2>1, <2>3, <3>1, <3>3
    <3>4. CASE job[p].kind # "LEDGER_ROTATED"
      BY <1>0, <1>p, <2>1, <2>3, <3>1, <3>2, <3>4, DatingMove
    <3> QED BY <3>3, <3>4
  <2> QED BY <1>3, <2>2, <2>3 DEF Enter
<1>4. ASSUME NEW p \in Procs, Rename(p) PROVE Dating'
  <2>1. Goto(p, "line") /\ UNCHANGED <<anchors, published>>
    BY <1>4 DEF Rename
  <2>2. PICK n \in Segments :
          job' = [job EXCEPT ![p] = [job[p] EXCEPT !.of = job[p].tip, !.seg = n,
                                                   !.sha = Digest(active.lines)]]
    BY <1>4 DEF Rename
  <2>3. job'[p].kind = job[p].kind /\ \A q \in Procs \ {p} : job'[q] = job[q]
    BY <2>2 DEF TypeOK, Job
  <2>4. job'[p].kind # "ANCHOR_PUBLISHED"
    BY <1>4, <1>f, <2>3 DEF Held, Rename
  <2> QED BY <1>0, <1>p, <2>1, <2>3, <2>4, DatingMove
<1>5. ASSUME NEW p \in Procs, WriteLine(p) PROVE Dating'
  BY <1>5, <1>q DEF WriteLine
<1>6. ASSUME NEW p \in Procs, NEW late \in BOOLEAN, WriteTip(p, late) PROVE Dating'
  <2>1. AfterEntry(p, late) \notin {"segment", "publish", "record", "enter", "line"}
    BY DEF AfterEntry
  <2>2. \A q \in Procs \ {p} : job'[q] = job[q]
    BY <1>6, <1>j DEF WriteTip
  <2> QED BY <1>6, <1>q, <2>1, <2>2 DEF WriteTip
<1>7. ASSUME NEW p \in Procs, AnchorRead(p) PROVE Dating'
  <2>1. UNCHANGED <<anchors, published>>
    BY <1>7 DEF AnchorRead, disk
  <2>2. CASE Raises(p)
    BY <1>r, <2>1, <2>2
  <2>3. CASE TipAgrees /\ ReadTip # Genesis
             /\ job' = [job EXCEPT ![p] = [NoJob EXCEPT !.of = ReadTip]] /\ Goto(p, "segment")
    <3>1. ReadTip \in Dated /\ ReadTip \in Points
      BY <2>3, ReadTipDated, ReadTipType
    <3>2. job'[p] = [NoJob EXCEPT !.of = ReadTip] /\ \A q \in Procs \ {p} : job'[q] = job[q]
      BY <1>j, <2>3
    <3>3. job'[p].of = ReadTip
      BY <3>1, <3>2, UpdateTypes
    <3> QED BY <1>0, <1>p, <2>1, <2>3, <3>1, <3>2, <3>3, DatingMove
  <2> QED BY <1>7, <2>2, <2>3 DEF AnchorRead
<1>8. ASSUME NEW p \in Procs, AnchorSegment(p) PROVE Dating'
  <2>1. UNCHANGED <<anchors, published>> /\ pc[p] = "segment"
    BY <1>8 DEF AnchorSegment, disk
  <2>2. CASE Raises(p)
    BY <1>r, <2>1, <2>2
  <2>3. CASE Goto(p, "publish") /\ UNCHANGED job
    <3>1. job'[p].of \in Dated
      BY <2>1, <2>3 DEF Dating
    <3> QED BY <1>0, <1>p, <2>1, <2>3, <3>1, DatingMove
  <2> QED BY <1>8, <2>2, <2>3 DEF AnchorSegment
<1>9. ASSUME NEW p \in Procs, PublishDone(p) PROVE Dating'
  <2>1. /\ pc[p] = "publish" /\ UNCHANGED <<anchors, job>> /\ Goto(p, "record")
        /\ published' = published \cup {job[p].of}
    BY <1>9 DEF PublishDone, disk
  <2>2. job[p].of \in Dated
    BY <2>1 DEF Dating
  <2> QED BY <1>0, <1>p, <2>1, <2>2, DatingMove
<1>10. ASSUME NEW p \in Procs, PublishFails(p) PROVE Dating'
  <2>1. /\ pc[p] = "publish" /\ UNCHANGED anchors /\ Does(p, "ANCHOR_FAILED")
        /\ \E got \in SUBSET {job[p].of} : published' = published \cup got
    BY <1>10 DEF PublishFails, disk
  <2>2. job[p].of \in Dated
    BY <2>1 DEF Dating
  <2>3. Goto(p, "enter") /\ (\A q \in Procs \ {p} : job'[q] = job[q]) /\ job'[p].kind = "ANCHOR_FAILED"
    BY <1>d, <1>k, <2>1
  <2> QED BY <1>0, <1>p, <2>1, <2>2, <2>3, DatingMove
<1>11. ASSUME NEW p \in Procs, Record(p) PROVE Dating'
  <2>1. /\ pc[p] = "record" /\ UNCHANGED published /\ Does(p, "ANCHOR_PUBLISHED")
        /\ anchors' = anchors \cup {job[p].of}
    BY <1>11 DEF Record
  <2>2. job[p].of \in published
    BY <2>1 DEF Dating
  <2>3. Goto(p, "enter") /\ (\A q \in Procs \ {p} : job'[q] = job[q]) /\ job'[p].of = job[p].of
    BY <1>d, <1>k, <2>1
  <2> QED BY <1>0, <1>p, <2>1, <2>2, <2>3, DatingMove
<1>12. ASSUME NEW p \in Procs, Unflag(p) PROVE Dating'
  <2>1. UNCHANGED <<anchors, published>> /\ Does(p, "ANCHOR_RECOVERED")
    BY <1>12 DEF Unflag
  <2>3. Goto(p, "enter") /\ (\A q \in Procs \ {p} : job'[q] = job[q]) /\ job'[p].kind = "ANCHOR_RECOVERED"
    BY <1>d, <1>k, <2>1
  <2> QED BY <1>0, <1>p, <2>1, <2>3, DatingMove
<1>13. ASSUME NEW p \in Procs, Flag(p) PROVE Dating'
  <2>1. /\ UNCHANGED <<anchors, published>> /\ Goto(p, "enter")
        /\ job' = [job EXCEPT ![p] = [NoJob EXCEPT !.kind = "ANCHOR_STALE"]]
    BY <1>13 DEF Flag
  <2>2. job'[p] = [NoJob EXCEPT !.kind = "ANCHOR_STALE"] /\ \A q \in Procs \ {p} : job'[q] = job[q]
    BY <1>j, <2>1
  <2>3. job'[p].kind = "ANCHOR_STALE"
    BY <2>2 DEF NoJob
  <2> QED BY <1>0, <1>p, <2>1, <2>2, <2>3, DatingMove
<1>14. ASSUME NEW p \in Procs, WriteLineFails(p) PROVE Dating'
  BY <1>14, <1>r DEF WriteLineFails
<1>15. ASSUME NEW p \in Procs, Fails(p) PROVE Dating'
  BY <1>15, <1>r DEF Fails, disk
<1>16. ASSUME NEW p \in Procs, Crash(p) PROVE Dating'
  BY <1>16, <1>j, <1>q DEF Crash, disk
<1>17. ASSUME NEW p \in Procs, Restart(p) PROVE Dating'
  BY <1>17, <1>q DEF Restart, disk
<1>18. CASE UNCHANGED vars
  <2>1. Entries' = Entries
    BY <1>18 DEF vars, disk, Entries
  <2> QED BY <1>18, <2>1 DEF vars, disk, Dating, Dated
<1> QED BY <1>1, <1>2, <1>3, <1>4, <1>5, <1>6, <1>7, <1>8, <1>9, <1>10, <1>11, <1>12, <1>13,
           <1>14, <1>15, <1>16, <1>17, <1>18 DEF Next, Proceed

\* What a third party dates is an entry of the ledger, and an entry that says so is right:
\* anchor() reads the tip under the lock, and lets the lock go before it publishes.
THEOREM AnchorsDateEntries == Spec => []AnchorsAreEntries
<1>1. Init => Dating
  <2>1. EntriesIn(<<>>) = {}
    BY DEF EntriesIn
  <2>2. Init => Entries = {}
    BY <2>1 DEF Init, Entries, NoFile
  <2> QED BY <2>2 DEF Init, Dating
<1>2. Dating => AnchorsAreEntries
  BY DEF Dating, Dated, AnchorsAreEntries
<1> QED BY <1>1, <1>2, DatingStep, TypeCorrect, PTL DEF Spec

-----------------------------------------------------------------------------
(* The walk *)

\* A set of numbers that has 0, and with every number the next, has them all.
LEMMA NatSetInduction ==
  ASSUME NEW S, 0 \in S, \A n \in Nat : n \in S => n + 1 \in S
  PROVE  Nat \subseteq S
<1> DEFINE T == Nat \ S
<1>1. SUFFICES ASSUME T # {} PROVE FALSE
  OBVIOUS
<1>2. T \subseteq Nat
  OBVIOUS
<1>3. PICK x \in T : \A y \in T : ~ (<<y, x>> \in OpToRel(<, Nat))
  BY <1>1, <1>2, WFMin, NatLessThanWellFounded, Zenon
<1>4. x \in Nat /\ x # 0 /\ x \notin S
  OBVIOUS
<1>5. x - 1 \in Nat /\ x - 1 + 1 = x
  BY <1>4
<1>6. x - 1 \notin S
  BY <1>4, <1>5
<1>7. <<x - 1, x>> \in OpToRel(<, Nat)
  <2>1. <<x - 1, x>> \in Nat \X Nat
    BY <1>4, <1>5
  <2>2. x - 1 < x
    BY <1>4
  <2> QED BY <2>1, <2>2 DEF OpToRel
<1> QED BY <1>3, <1>5, <1>6, <1>7

\* Where the walk starts, and where it goes from was.
Begin(file) ==
  [code |-> IF file.here THEN SegmentCode(file.lines) ELSE "SEGMENT_MISSING",
   at   |-> file.lines, seen |-> Seen(file.lines)]
After(was) ==
  LET rotated == was.at[1]
      lines   == closed[rotated.seg]
  IN IF was.code # "GOES_ON" THEN was
     ELSE [code |-> IF lines = <<>> THEN "SEGMENT_MISSING"
                    ELSE IF Fits(lines, rotated) THEN SegmentCode(lines)
                    ELSE "ROTATION_LINK_BROKEN",
           at   |-> lines, seen |-> was.seen \cup Seen(lines)]

\* w is the walk from file, in at most n steps.
Walks(w, file, n) == w = [k \in 0..n |-> IF k = 0 THEN Begin(file) ELSE After(w[k - 1])]

\* There is a walk of any length from a file.
LEMMA WalkExists ==
  ASSUME NEW file
  PROVE  \A n \in Nat : \E w : Walks(w, file, n)
<1> DEFINE P == {n \in Nat : \E w : Walks(w, file, n)}
<1>1. 0 \in P
  <2>1. PICK w : w = [k \in 0..0 |-> Begin(file)]
    OBVIOUS
  <2>2. Walks(w, file, 0)
    BY <2>1 DEF Walks
  <2> QED BY <2>2
<1>2. ASSUME NEW n \in Nat, n \in P PROVE n + 1 \in P
  <2>1. PICK w : Walks(w, file, n)
    BY <1>2
  <2>2. PICK v : v = [k \in 0..n + 1 |-> IF k = 0 THEN Begin(file) ELSE After(w[k - 1])]
    OBVIOUS
  <2>3. \A k \in 0..n : v[k] = w[k]
    BY <2>1, <2>2 DEF Walks
  <2>4. \A k \in 0..n + 1 : k # 0 => k - 1 \in 0..n
    OBVIOUS
  <2>5. \A k \in 0..n + 1 : v[k] = IF k = 0 THEN Begin(file) ELSE After(v[k - 1])
    BY <2>2, <2>3, <2>4
  <2>6. Walks(v, file, n + 1)
    BY <2>2, <2>5 DEF Walks
  <2>7. \E u : Walks(u, file, n + 1)
    BY <2>6
  <2>8. n + 1 \in Nat
    OBVIOUS
  <2> QED BY <2>7, <2>8
<1>3. Nat \subseteq P
  <2> HIDE DEF P
  <2> QED BY <1>1, <1>2, NatSetInduction
<1> QED BY <1>3

\* Walk is the end of such a walk.
LEMMA WalkIs ==
  ASSUME NEW file
  PROVE  \E w : Walks(w, file, MaxCalls) /\ Walk(file) = w[MaxCalls]
<1> DEFINE Eq(w) == w = [k \in 0..MaxCalls |->
        IF k = 0
        THEN [code |-> IF file.here THEN SegmentCode(file.lines) ELSE "SEGMENT_MISSING",
              at   |-> file.lines, seen |-> Seen(file.lines)]
        ELSE LET was     == w[k - 1]
                 rotated == was.at[1]
                 lines   == closed[rotated.seg]
             IN IF was.code # "GOES_ON" THEN was
                ELSE [code |-> IF lines = <<>> THEN "SEGMENT_MISSING"
                               ELSE IF Fits(lines, rotated) THEN SegmentCode(lines)
                               ELSE "ROTATION_LINK_BROKEN",
                      at   |-> lines, seen |-> was.seen \cup Seen(lines)]]
           c == CHOOSE w : Eq(w)
<1>1. \A w : Eq(w) <=> Walks(w, file, MaxCalls)
  BY DEF Walks, Begin, After
<1>2. Walk(file) = c[MaxCalls]
  BY DEF Walk
<1>3. Eq(c)
  <2> HIDE DEF Eq
  <2>1. \E w : Eq(w)
    BY <1>1, WalkExists, LedgerAssumption
  <2> QED BY <2>1
<1> QED
  <2> HIDE DEF Eq, c
  <2> QED BY <1>1, <1>2, <1>3

\* Walk step by step: it begins with the file, each step is After, and it ends at MaxCalls.
LEMMA WalkRuns ==
  ASSUME NEW file
  PROVE  \E w : /\ w[0] = Begin(file) /\ Walk(file) = w[MaxCalls]
                /\ \A k \in Nat : k < MaxCalls => w[k + 1] = After(w[k])
<1>0. MaxCalls \in Nat
  BY LedgerAssumption
<1>1. PICK w : Walks(w, file, MaxCalls) /\ Walk(file) = w[MaxCalls]
  BY WalkIs
<1>2. w[0] = Begin(file)
  BY <1>0, <1>1 DEF Walks
<1>3. ASSUME NEW k \in Nat, k < MaxCalls PROVE w[k + 1] = After(w[k])
  <2>1. k + 1 \in 0..MaxCalls /\ k + 1 # 0 /\ (k + 1) - 1 = k
    BY <1>0, <1>3
  <2>2. w[k + 1] = After(w[(k + 1) - 1])
    BY <1>1, <2>1 DEF Walks
  <2> QED BY <2>1, <2>2
<1> QED BY <1>1, <1>2, <1>3

\* A walk that does not go on has come to its end.
LEMMA WalkStops ==
  ASSUME NEW w, \A k \in Nat : k < MaxCalls => w[k + 1] = After(w[k])
  PROVE  \A k \in Nat : k <= MaxCalls /\ w[k].code # "GOES_ON" => w[MaxCalls] = w[k]
<1>0. MaxCalls \in Nat
  BY LedgerAssumption
<1> SUFFICES ASSUME NEW k \in Nat, k <= MaxCalls, w[k].code # "GOES_ON" PROVE w[MaxCalls] = w[k]
  OBVIOUS
<1> DEFINE P == {j \in Nat : k + j <= MaxCalls => w[k + j] = w[k]}
<1>1. 0 \in P
  OBVIOUS
<1>2. ASSUME NEW j \in Nat, j \in P PROVE j + 1 \in P
  <2> SUFFICES ASSUME k + (j + 1) <= MaxCalls PROVE w[k + (j + 1)] = w[k]
    OBVIOUS
  <2>1. k + j \in Nat /\ k + j < MaxCalls /\ k + (j + 1) = (k + j) + 1
    BY <1>0
  <2>2. w[k + j] = w[k]
    BY <1>0, <1>2, <2>1
  <2>3. w[(k + j) + 1] = After(w[k + j])
    BY <2>1
  <2> QED BY <2>1, <2>2, <2>3 DEF After
<1>3. Nat \subseteq P
  <2> HIDE DEF P
  <2> QED BY <1>1, <1>2, NatSetInduction
<1>4. MaxCalls - k \in P
  BY <1>0, <1>3
<1>5. k + (MaxCalls - k) = MaxCalls
  BY <1>0
<1> QED BY <1>0, <1>4, <1>5

-----------------------------------------------------------------------------
(* What a step of the ledger does to the files *)

AtFiles == {"rename", "line"}

\* The lines stay, and a tip may be written, or read by p.
Stays ==
  /\ active'.lines = active.lines /\ (active.here => active'.here)
  /\ UNCHANGED <<closed, minted, bare>>
  /\ tip' = tip \/ \E p \in Procs : pc[p] = "tip" /\ tip' = PointOf(Tail_)
  /\ \A q \in Procs : pc'[q] \in AtFiles =>
       \/ pc'[q] = pc[q] /\ job'[q] = job[q]
       \/ /\ lock = NoProc /\ TipAgrees /\ tip' = tip /\ job'[q].tip = ReadTip
          /\ pc'[q] = "rename" <=> job'[q].kind = "LEDGER_ROTATED"
          /\ pc'[q] = "rename" => ReadTip # Genesis
Leaves == \A q \in Procs : pc'[q] \notin AtFiles
Writes(p) ==
  /\ pc[p] = "line" /\ With(LineOf(p)) /\ minted' = minted + 1 /\ Leaves
  /\ UNCHANGED <<closed, tip, bare>>
  /\ pc'[p] = "tip" \/ faults' # 0
Tears(p) ==
  /\ pc[p] = "line" /\ With(Torn) /\ Leaves /\ faults' # 0
  /\ UNCHANGED <<closed, tip, minted, bare>>
Rotates(p, n) ==
  /\ pc[p] = "rename" /\ NextSegment(n)
  /\ closed' = [closed EXCEPT ![n] = active.lines] /\ active' = NoFile
  /\ job'[p].tip = job[p].tip /\ job'[p].kind = job[p].kind
  /\ job'[p].of = job[p].tip /\ job'[p].seg = n /\ job'[p].sha = Digest(active.lines)
  /\ pc'[p] = "line" /\ \A q \in Procs \ {p} : pc'[q] \notin AtFiles
  /\ UNCHANGED <<tip, minted>> /\ bare' = (bare \/ tip.seq = 0)

\* Every step of Ledger leaves the lines as they are, adds one, tears one or renames the file.
LEMMA FileStep ==
  ASSUME TypeOK, Held, [Next]_vars
  PROVE  \/ Stays
         \/ \E p \in Procs : Writes(p) \/ Tears(p) \/ \E n \in Segments : Rotates(p, n)
<1> DEFINE Goal == \/ Stays
                   \/ \E p \in Procs : Writes(p) \/ Tears(p) \/ \E n \in Segments : Rotates(p, n)
<1> SUFFICES Goal
  OBVIOUS
<1> USE DEF AtFiles
<1>n. NoProc \notin Procs /\ faults \in Nat
  BY LedgerAssumption DEF TypeOK
\* A step of p that neither writes nor reads a tip.
<1>g. ASSUME NEW p \in Procs, NEW l, l \notin AtFiles, Goto(p, l),
             \A q \in Procs \ {p} : job'[q] = job[q],
             UNCHANGED <<active, closed, tip, minted, bare>>
      PROVE  Goal
  <2>1. \A q \in Procs : pc'[q] \in AtFiles => pc'[q] = pc[q] /\ job'[q] = job[q]
    BY <1>g DEF Goto, TypeOK
  <2> QED BY <1>g, <2>1 DEF Stays
<1>j. ASSUME NEW p \in Procs, NEW j, job' = [job EXCEPT ![p] = j]
      PROVE  \A q \in Procs \ {p} : job'[q] = job[q]
  BY <1>j DEF TypeOK
<1>d. ASSUME NEW p \in Procs, NEW k, Does(p, k)
      PROVE  Goto(p, "enter") /\ \A q \in Procs \ {p} : job'[q] = job[q]
  BY <1>d DEF Does, TypeOK
<1>r. ASSUME NEW p \in Procs, Raises(p)
      PROVE  Goto(p, "idle") /\ \A q \in Procs \ {p} : job'[q] = job[q]
  BY <1>r, <1>j DEF Raises
\* Nobody else is under the lock.
<1>a. ASSUME NEW p \in Procs, pc[p] \in {"rename", "line", "tip"}
      PROVE  \A q \in Procs \ {p} : pc[q] \notin AtFiles
  BY <1>a, <1>n DEF Held
<1>o. ASSUME NEW p \in Procs, NEW l, pc[p] \in {"rename", "line", "tip"}, Goto(p, l)
      PROVE  pc'[p] = l /\ \A q \in Procs \ {p} : pc'[q] \notin AtFiles
  BY <1>a, <1>o DEF Goto, TypeOK
<1> HIDE DEF Goal
<1>1. ASSUME NEW p \in Procs, NEW kind \in Notes \cup {"LEDGER_ROTATED"}, Call(p, kind) PROVE Goal
  BY <1>1, <1>d, <1>g DEF Call, disk
<1>2. ASSUME NEW p \in Procs, CallAnchor(p) PROVE Goal
  BY <1>2, <1>g DEF CallAnchor, disk
<1>3. ASSUME NEW p \in Procs, Enter(p) PROVE Goal
  <2>1. UNCHANGED <<active, closed, tip, minted, bare>> /\ lock = NoProc
    BY <1>3 DEF Enter, disk, LockFree
  <2>2. CASE Raises(p)
    BY <1>g, <1>r, <2>1, <2>2
  <2>3. CASE /\ TipAgrees /\ (job[p].kind = "LEDGER_ROTATED" => ReadTip # Genesis)
             /\ job' = [job EXCEPT ![p].tip = ReadTip]
             /\ Goto(p, IF job[p].kind = "LEDGER_ROTATED" THEN "rename" ELSE "line")
    <3>1. /\ job'[p].tip = ReadTip /\ job'[p].kind = job[p].kind
          /\ \A q \in Procs \ {p} : job'[q] = job[q] /\ pc'[q] = pc[q]
          /\ pc'[p] = IF job[p].kind = "LEDGER_ROTATED" THEN "rename" ELSE "line"
      BY <2>3 DEF TypeOK, Job, Goto
    <3> QED BY <2>1, <2>3, <3>1 DEF Stays, Goal
  <2> QED BY <1>3, <2>2, <2>3 DEF Enter
<1>4. ASSUME NEW p \in Procs, Rename(p) PROVE Goal
  <2>1. PICK n \in Segments :
          /\ NextSegment(n) /\ closed' = [closed EXCEPT ![n] = active.lines]
          /\ job' = [job EXCEPT ![p] = [job[p] EXCEPT !.of = job[p].tip, !.seg = n,
                                                   !.sha = Digest(active.lines)]]
    BY <1>4 DEF Rename
  <2>2. PICK j : j = [job[p] EXCEPT !.of = job[p].tip, !.seg = n, !.sha = Digest(active.lines)]
    OBVIOUS
  <2>3. /\ j.tip = job[p].tip /\ j.kind = job[p].kind /\ j.of = job[p].tip /\ j.seg = n
        /\ j.sha = Digest(active.lines)
    <3>1. job[p] \in Job
      BY DEF TypeOK
    <3> QED BY <2>2, <3>1 DEF Job
  <2>4. job'[p] = j
    BY <2>1, <2>2 DEF TypeOK
  <2>5. pc[p] = "rename" /\ Goto(p, "line")
    BY <1>4 DEF Rename
  <2>6. Rotates(p, n)
    BY <1>4, <1>o, <2>1, <2>3, <2>4, <2>5 DEF Rename, Rotates
  <2> QED BY <2>6 DEF Goal
<1>w. ASSUME NEW p \in Procs, pc[p] = "line", NEW l \in {"tip", "idle"}, Goto(p, l)
      PROVE  Leaves /\ pc'[p] = l
  BY <1>o, <1>w DEF Leaves
<1>5. ASSUME NEW p \in Procs, WriteLine(p) PROVE Goal
  BY <1>5, <1>w DEF WriteLine, Writes, Goal
<1>6. ASSUME NEW p \in Procs, NEW late \in BOOLEAN, WriteTip(p, late) PROVE Goal
  <2>1. /\ pc[p] = "tip" /\ UNCHANGED <<active, closed, minted, bare>> /\ tip' = PointOf(Tail_)
        /\ Goto(p, AfterEntry(p, late)) /\ AfterEntry(p, late) \notin AtFiles
    BY <1>6 DEF WriteTip, AfterEntry
  <2>2. \A q \in Procs : pc'[q] \notin AtFiles
    BY <1>o, <2>1
  <2> QED BY <2>1, <2>2 DEF Stays, Goal
<1>7. ASSUME NEW p \in Procs, AnchorRead(p) PROVE Goal
  <2>1. UNCHANGED <<active, closed, tip, minted, bare>>
    BY <1>7 DEF AnchorRead, disk
  <2>2. CASE Raises(p)
    BY <1>g, <1>r, <2>1, <2>2
  <2>3. CASE job' = [job EXCEPT ![p] = [NoJob EXCEPT !.of = ReadTip]] /\ Goto(p, "segment")
    BY <1>g, <1>j, <2>1, <2>3
  <2> QED BY <1>7, <2>2, <2>3 DEF AnchorRead
<1>8. ASSUME NEW p \in Procs, AnchorSegment(p) PROVE Goal
  <2>1. UNCHANGED <<active, closed, tip, minted, bare>>
    BY <1>8 DEF AnchorSegment, disk
  <2>2. CASE Raises(p)
    BY <1>g, <1>r, <2>1, <2>2
  <2>3. CASE Goto(p, "publish") /\ UNCHANGED job
    BY <1>g, <2>1, <2>3
  <2> QED BY <1>8, <2>2, <2>3 DEF AnchorSegment
<1>9. ASSUME NEW p \in Procs, PublishDone(p) PROVE Goal
  BY <1>9, <1>g DEF PublishDone, disk
<1>10. ASSUME NEW p \in Procs, PublishFails(p) PROVE Goal
  BY <1>10, <1>d, <1>g DEF PublishFails, disk
<1>11. ASSUME NEW p \in Procs, Record(p) PROVE Goal
  BY <1>11, <1>d, <1>g DEF Record
<1>12. ASSUME NEW p \in Procs, Unflag(p) PROVE Goal
  BY <1>12, <1>d, <1>g DEF Unflag
<1>13. ASSUME NEW p \in Procs, Flag(p) PROVE Goal
  BY <1>13, <1>j, <1>g DEF Flag
<1>14. ASSUME NEW p \in Procs, WriteLineFails(p) PROVE Goal
  <2>1. /\ pc[p] = "line" /\ UNCHANGED <<closed, tip, bare>> /\ Raises(p) /\ Goto(p, "idle")
        /\ \A q \in Procs \ {p} : job'[q] = job[q]
    BY <1>14, <1>r DEF WriteLineFails
  <2>2. Leaves /\ faults' # 0
    BY <1>14, <1>n, <1>w, <2>1 DEF WriteLineFails, Fault
  <2>3. CASE UNCHANGED <<active, minted>>
    BY <1>g, <2>1, <2>3
  <2>4. CASE With(LineOf(p)) /\ minted' = minted + 1
    BY <2>1, <2>2, <2>4 DEF Writes, Goal
  <2>5. CASE active' = [active EXCEPT !.here = TRUE] /\ UNCHANGED minted
    <3>1. active'.lines = active.lines /\ active'.here
      BY <2>5 DEF TypeOK, File
    <3> QED BY <2>1, <2>2, <2>5, <3>1 DEF Stays, Leaves, Goal
  <2>6. CASE With(Torn) /\ UNCHANGED minted
    BY <2>1, <2>2, <2>6 DEF Tears, Goal
  <2> QED BY <1>14, <2>3, <2>4, <2>5, <2>6 DEF WriteLineFails
<1>15. ASSUME NEW p \in Procs, Fails(p) PROVE Goal
  BY <1>15, <1>g, <1>r DEF Fails, disk
<1>16. ASSUME NEW p \in Procs, Crash(p) PROVE Goal
  BY <1>16, <1>g, <1>j DEF Crash, disk
<1>17. ASSUME NEW p \in Procs, Restart(p) PROVE Goal
  BY <1>17, <1>g DEF Restart, disk
<1>18. CASE UNCHANGED vars
  BY <1>18 DEF vars, disk, Stays, Goal
<1> QED BY <1>1, <1>2, <1>3, <1>4, <1>5, <1>6, <1>7, <1>8, <1>9, <1>10, <1>11, <1>12, <1>13,
           <1>14, <1>15, <1>16, <1>17, <1>18 DEF Next, Proceed

-----------------------------------------------------------------------------
(* What happens to the files *)

\* A line that is another with another body at most, and a file that has no other lines than old.
Alike(l, k) == /\ l.kind = k.kind /\ l.seq = k.seq /\ l.prev = k.prev /\ l.hash = k.hash
               /\ l.of = k.of /\ l.seg = k.seg
From(new, old) == \A i \in DOMAIN new : \E j \in DOMAIN old : Alike(new[i], old[j])

\* What is left when one is taken away.
LEMMA RemoveAtIs ==
  ASSUME NEW S, NEW s \in Seq(S), NEW i \in DOMAIN s
  PROVE  /\ RemoveAt(s, i) \in Seq(S) /\ Len(RemoveAt(s, i)) = Len(s) - 1
         /\ \A j \in 1..Len(s) - 1 : RemoveAt(s, i)[j] = IF j < i THEN s[j] ELSE s[j + 1]
<1>0. Len(s) \in Nat /\ DOMAIN s = 1..Len(s) /\ i \in 1..Len(s) /\ \A j \in 1..Len(s) : s[j] \in S
  BY LenProperties, ElementOfSeq
<1> DEFINE t == SubSeq(s, 1, i - 1)
           u == SubSeq(s, i + 1, Len(s))
<1>1. t \in Seq(S) /\ Len(t) = i - 1 /\ \A j \in 1..i - 1 : t[j] = s[j]
  <2>1. \A j \in 1..i - 1 : s[j] \in S
    BY <1>0
  <2>2. 1 \in Int /\ i - 1 \in Int
    BY <1>0
  <2>3. /\ t \in Seq(S) /\ Len(t) = IF 1 <= i - 1 THEN (i - 1) - 1 + 1 ELSE 0
        /\ \A j \in 1..(i - 1) - 1 + 1 : t[j] = s[1 + j - 1]
    BY <2>1, <2>2, SubSeqProperties
  <2> HIDE DEF t
  <2>4. (i - 1) - 1 + 1 = i - 1 /\ \A j \in 1..i - 1 : 1 + j - 1 = j
    BY <1>0
  <2> QED BY <1>0, <2>3, <2>4
<1>2. u \in Seq(S) /\ Len(u) = Len(s) - i /\ \A j \in 1..Len(s) - i : u[j] = s[i + j]
  <2>1. \A j \in i + 1..Len(s) : s[j] \in S
    BY <1>0
  <2>2. i + 1 \in Int /\ Len(s) \in Int
    BY <1>0
  <2>3. /\ u \in Seq(S) /\ Len(u) = IF i + 1 <= Len(s) THEN Len(s) - (i + 1) + 1 ELSE 0
        /\ \A j \in 1..Len(s) - (i + 1) + 1 : u[j] = s[(i + 1) + j - 1]
    BY <2>1, <2>2, SubSeqProperties
  <2> HIDE DEF u
  <2>4. Len(s) - (i + 1) + 1 = Len(s) - i /\ \A j \in 1..Len(s) - i : (i + 1) + j - 1 = i + j
    BY <1>0
  <2> QED BY <1>0, <2>3, <2>4
<1>3. /\ t \o u \in Seq(S) /\ Len(t \o u) = Len(t) + Len(u)
      /\ \A j \in 1..Len(t) + Len(u) : (t \o u)[j] = IF j <= Len(t) THEN t[j] ELSE u[j - Len(t)]
  BY <1>1, <1>2, ConcatProperties
<1>4. RemoveAt(s, i) = t \o u
  BY DEF RemoveAt
<1> HIDE DEF t, u
<1>5. ASSUME NEW j \in 1..Len(s) - 1 PROVE RemoveAt(s, i)[j] = IF j < i THEN s[j] ELSE s[j + 1]
  <2>1. CASE j < i
    BY <1>0, <1>1, <1>2, <1>3, <1>4, <1>5, <2>1
  <2>2. CASE ~(j < i)
    <3>1. j - (i - 1) \in 1..Len(s) - i /\ i + (j - (i - 1)) = j + 1
      BY <1>0, <1>5, <2>2
    <3>2. u[j - (i - 1)] = s[j + 1]
      BY <1>2, <3>1
    <3> QED BY <1>0, <1>1, <1>2, <1>3, <1>4, <1>5, <2>2, <3>2
  <2> QED BY <2>1, <2>2
<1>6. RemoveAt(s, i) \in Seq(S) /\ Len(RemoveAt(s, i)) = Len(s) - 1
  <2>1. (i - 1) + (Len(s) - i) = Len(s) - 1
    BY <1>0
  <2> QED BY <1>1, <1>2, <1>3, <1>4, <2>1
<1> QED BY <1>5, <1>6

\* The first k of a file.
LEMMA PrefixIs ==
  ASSUME NEW S, NEW s \in Seq(S), NEW k \in 0..Len(s)
  PROVE  /\ SubSeq(s, 1, k) \in Seq(S) /\ Len(SubSeq(s, 1, k)) = k
         /\ \A j \in 1..k : SubSeq(s, 1, k)[j] = s[j]
<1>0. Len(s) \in Nat /\ k \in Nat /\ \A j \in 1..Len(s) : s[j] \in S
  BY LenProperties, ElementOfSeq
<1>1. \A j \in 1..k : s[j] \in S
  BY <1>0
<1>2. /\ SubSeq(s, 1, k) \in Seq(S) /\ Len(SubSeq(s, 1, k)) = IF 1 <= k THEN k - 1 + 1 ELSE 0
      /\ \A j \in 1..k - 1 + 1 : SubSeq(s, 1, k)[j] = s[1 + j - 1]
  <2>1. 1 \in Int /\ k \in Int
    BY <1>0
  <2> QED BY <1>1, <2>1, SubSeqProperties
<1>3. k - 1 + 1 = k /\ \A j \in 1..k : 1 + j - 1 = j
  BY <1>0
<1> QED BY <1>0, <1>2, <1>3

\* Line i of s is altered, lost, or swapped with the next.
Altered(t, s, i) ==
  Len(t) = Len(s) /\ \A j \in 1..Len(s) : t[j] = IF j = i THEN [s[i] EXCEPT !.body = 0] ELSE s[j]
Lost(t, s, i) ==
  Len(t) = Len(s) - 1 /\ \A j \in 1..Len(s) - 1 : t[j] = IF j < i THEN s[j] ELSE s[j + 1]
Swapped(t, s, i) ==
  /\ Len(t) = Len(s)
  /\ \A j \in 1..Len(s) : t[j] = IF j = i THEN s[i + 1] ELSE IF j = i + 1 THEN s[i] ELSE s[j]

\* What an accident makes of a file.
LEMMA AccidentIs ==
  ASSUME NEW s \in Seq(Lines), NEW x \in Accidents(s)
  PROVE  /\ x[2] \in Seq(Lines) /\ x[2] # <<>>
         /\ \E i \in 1..Len(s) :
              \/ x[1] = "altered" /\ Altered(x[2], s, i)
              \/ x[1] = "lost" /\ i < Len(s) /\ Lost(x[2], s, i)
              \/ x[1] = "tail" /\ i = Len(s) /\ Lost(x[2], s, i)
              \/ x[1] = "swapped" /\ i < Len(s) /\ Swapped(x[2], s, i)
<1>0. Len(s) \in Nat /\ DOMAIN s = 1..Len(s) /\ \A j \in 1..Len(s) : s[j] \in Lines
  BY LenProperties, ElementOfSeq
<1>e. \A t \in Seq(Lines) : Len(t) # 0 => t # <<>>
  OBVIOUS
<1> DEFINE Goal == /\ x[2] \in Seq(Lines) /\ x[2] # <<>>
                   /\ \E i \in 1..Len(s) :
                        \/ x[1] = "altered" /\ Altered(x[2], s, i)
                        \/ x[1] = "lost" /\ i < Len(s) /\ Lost(x[2], s, i)
                        \/ x[1] = "tail" /\ i = Len(s) /\ Lost(x[2], s, i)
                        \/ x[1] = "swapped" /\ i < Len(s) /\ Swapped(x[2], s, i)
<1> SUFFICES Goal
  OBVIOUS
<1>1. ASSUME NEW i \in DOMAIN s, x = <<"altered", [s EXCEPT ![i].body = 0]>> PROVE Goal
  <2>2. PICK l : l = [s[i] EXCEPT !.body = 0]
    OBVIOUS
  <2>3. x[1] = "altered" /\ x[2] = [s EXCEPT ![i] = l]
    BY <1>1, <2>2
  <2>4. l \in Lines
    <3>1. s[i] \in Lines
      BY <1>0
    <3> QED BY <2>2, <3>1 DEF Lines
  <2>5. /\ x[2] \in Seq(Lines) /\ Len(x[2]) = Len(s)
        /\ \A j \in 1..Len(s) : x[2][j] = IF j = i THEN l ELSE s[j]
    BY <1>0, <2>3, <2>4, ExceptSeq
  <2>6. Altered(x[2], s, i)
    BY <2>2, <2>5 DEF Altered
  <2> QED BY <1>0, <1>e, <2>3, <2>5, <2>6
<1>2. ASSUME NEW i \in DOMAIN s \ {Len(s)}, x = <<"lost", RemoveAt(s, i)>> PROVE Goal
  <2>1. x[2] \in Seq(Lines) /\ Len(x[2]) = Len(s) - 1 /\ Lost(x[2], s, i)
    BY <1>2, RemoveAtIs DEF Lost
  <2>2. i \in 1..Len(s) /\ i < Len(s) /\ Len(s) - 1 # 0
    BY <1>0
  <2> QED BY <1>2, <1>e, <2>1, <2>2
<1>3. ASSUME Len(s) \in DOMAIN s, Len(s) > 1, x = <<"tail", Front(s)>> PROVE Goal
  <2>1. /\ x[2] \in Seq(Lines) /\ Len(x[2]) = Len(s) - 1
        /\ \A j \in 1..Len(s) - 1 : x[2][j] = s[j]
    <3>1. Len(s) - 1 \in 0..Len(s)
      BY <1>0, <1>3
    <3> QED BY <1>3, <3>1, PrefixIs DEF Front
  <2>4. \A j \in 1..Len(s) - 1 : j < Len(s)
    BY <1>0
  <2>2. Lost(x[2], s, Len(s))
    BY <2>1, <2>4 DEF Lost
  <2>3. Len(s) \in 1..Len(s) /\ Len(s) - 1 # 0
    BY <1>0, <1>3
  <2> QED BY <1>3, <1>e, <2>1, <2>2, <2>3
<1>4. ASSUME NEW i \in DOMAIN s \ {Len(s)}, x = <<"swapped", [s EXCEPT ![i] = s[i + 1], ![i + 1] = s[i]]>>
      PROVE  Goal
  <2>2. i \in 1..Len(s) /\ i + 1 \in 1..Len(s) /\ i # i + 1 /\ i < Len(s)
    BY <1>0
  <2>3. PICK t : t = [s EXCEPT ![i] = s[i + 1]]
    OBVIOUS
  <2>4. t \in Seq(Lines) /\ Len(t) = Len(s) /\ \A j \in 1..Len(s) : t[j] = IF j = i THEN s[i + 1] ELSE s[j]
    BY <1>0, <2>2, <2>3, ExceptSeq
  <2>5. x[1] = "swapped" /\ x[2] = [t EXCEPT ![i + 1] = s[i]]
    BY <1>4, <2>3
  <2>6. /\ x[2] \in Seq(Lines) /\ Len(x[2]) = Len(t)
        /\ \A j \in 1..Len(t) : x[2][j] = IF j = i + 1 THEN s[i] ELSE t[j]
    <3>1. i + 1 \in 1..Len(t) /\ s[i] \in Lines
      BY <1>0, <2>2, <2>4
    <3> QED BY <2>4, <2>5, <3>1, ExceptSeq
  <2>7. \A j \in 1..Len(s) : x[2][j] = IF j = i THEN s[i + 1] ELSE IF j = i + 1 THEN s[i] ELSE s[j]
    BY <1>0, <2>2, <2>4, <2>6
  <2>8. Swapped(x[2], s, i) /\ Len(x[2]) = Len(s)
    BY <2>4, <2>6, <2>7 DEF Swapped
  <2>9. Len(s) # 0
    BY <2>2
  <2> QED BY <1>e, <2>2, <2>5, <2>6, <2>8, <2>9
<1> HIDE DEF Goal
<1> QED BY <1>1, <1>2, <1>3, <1>4 DEF Accidents

\* It has no other lines, but for their bodies.
LEMMA AccidentFrom ==
  ASSUME NEW s \in Seq(Lines), NEW x \in Accidents(s)
  PROVE  From(x[2], s)
<1>0. /\ Len(s) \in Nat /\ DOMAIN s = 1..Len(s) /\ x[2] \in Seq(Lines) /\ DOMAIN x[2] = 1..Len(x[2])
      /\ \A j \in 1..Len(s) : s[j] \in Lines
  BY LenProperties, ElementOfSeq, AccidentIs
<1>1. SUFFICES ASSUME NEW k \in 1..Len(x[2]) PROVE \E j \in 1..Len(s) : Alike(x[2][k], s[j])
  BY <1>0 DEF From
<1>2. PICK i \in 1..Len(s) :
        \/ Altered(x[2], s, i)
        \/ Lost(x[2], s, i)
        \/ i < Len(s) /\ Swapped(x[2], s, i)
  BY AccidentIs
<1>3. CASE Altered(x[2], s, i)
  <2>1. k \in 1..Len(s)
    BY <1>3 DEF Altered
  <2>2. x[2][k] = s[k] \/ x[2][k] = [s[k] EXCEPT !.body = 0]
    BY <1>3, <2>1 DEF Altered
  <2>3. s[k] \in Lines
    BY <1>0, <2>1
  <2>4. Alike(x[2][k], s[k])
    BY <2>2, <2>3 DEF Alike, Lines
  <2> QED BY <2>1, <2>4
<1>4. CASE Lost(x[2], s, i)
  <2>1. k \in 1..Len(s) - 1
    BY <1>4 DEF Lost
  <2>2. x[2][k] = s[k] \/ x[2][k] = s[k + 1]
    BY <1>4, <2>1 DEF Lost
  <2>3. k \in 1..Len(s) /\ k + 1 \in 1..Len(s)
    BY <1>0, <2>1
  <2> QED BY <2>2, <2>3 DEF Alike
<1>5. CASE i < Len(s) /\ Swapped(x[2], s, i)
  <2>1. k \in 1..Len(s)
    BY <1>5 DEF Swapped
  <2>2. x[2][k] = s[i + 1] \/ x[2][k] = s[i] \/ x[2][k] = s[k]
    BY <1>5, <2>1 DEF Swapped
  <2>3. i + 1 \in 1..Len(s)
    BY <1>0, <1>5
  <2> QED BY <2>1, <2>2, <2>3 DEF Alike
<1> QED BY <1>2, <1>3, <1>4, <1>5

-----------------------------------------------------------------------------
(* What an accident, an old copy put back and a move have in common *)

\* No process is in the files; no file gets an entry it did not have; and a tip that is put back is
\* the point of an entry.
Harms ==
  /\ lock = NoProc
  /\ active' \in File /\ closed' \in [Segments -> Seq(Lines)] /\ tip' \in Points
  /\ From(active'.lines, active.lines)
  /\ \A n \in Segments : From(closed'[n], closed[n])
  /\ tip' = tip \/ \E i \in DOMAIN active.lines : tip' = PointOf(active.lines[i])
  /\ UNCHANGED <<anchors, flag, lock, pc, job, mem, published, minted, bare, calls, crashes, faults>>

\* A file has no lines but its own.
LEMMA FromItself == \A s : From(s, s)
BY DEF From, Alike

\* An accident is a harm, and moves nothing.
LEMMA AccidentHarms == TypeOK /\ Accident => Harms /\ moved' = moved
<1> SUFFICES ASSUME TypeOK, Accident PROVE Harms /\ moved' = moved
  OBVIOUS
<1>0. /\ active.lines \in Seq(Lines) /\ active \in File /\ closed \in [Segments -> Seq(Lines)]
      /\ tip \in Points
  BY DEF TypeOK, File
<1>1. CASE UNCHANGED closed /\ \E x \in Accidents(active.lines) : active' = [active EXCEPT !.lines = x[2]]
  <2>1. PICK x \in Accidents(active.lines) : active' = [active EXCEPT !.lines = x[2]]
    BY <1>1
  <2>2. x[2] \in Seq(Lines) /\ From(x[2], active.lines)
    BY <1>0, AccidentIs, AccidentFrom
  <2>3. active'.lines = x[2] /\ active' \in File
    BY <1>0, <2>1, <2>2 DEF File
  <2>4. \A n \in Segments : From(closed'[n], closed[n])
    BY <1>1, FromItself
  <2> QED BY <1>0, <1>1, <2>2, <2>3, <2>4 DEF Accident, Harms
<1>2. CASE UNCHANGED active /\ \E n \in Segments : \E x \in Accidents(closed[n]) : closed' = [closed EXCEPT ![n] = x[2]]
  <2>1. PICK n \in Segments : \E x \in Accidents(closed[n]) : closed' = [closed EXCEPT ![n] = x[2]]
    BY <1>2
  <2>2. PICK x \in Accidents(closed[n]) : closed' = [closed EXCEPT ![n] = x[2]]
    BY <2>1
  <2>3. closed[n] \in Seq(Lines)
    BY <1>0
  <2>4. x[2] \in Seq(Lines) /\ From(x[2], closed[n])
    BY <2>3, AccidentIs, AccidentFrom
  <2>5. closed' \in [Segments -> Seq(Lines)]
    BY <1>0, <2>2, <2>4
  <2>6. \A m \in Segments : From(closed'[m], closed[m])
    BY <1>0, <2>2, <2>4, FromItself
  <2>7. From(active'.lines, active.lines) /\ active' \in File
    BY <1>0, <1>2, FromItself
  <2> QED BY <1>0, <2>5, <2>6, <2>7 DEF Accident, Harms
<1> QED BY <1>1, <1>2 DEF Accident

\* So is an old copy that is put back.
LEMMA RestoreHarms == TypeOK /\ Restore => Harms /\ moved' = moved
<1> SUFFICES ASSUME TypeOK, Restore PROVE Harms /\ moved' = moved
  OBVIOUS
<1>0. /\ active.lines \in Seq(Lines) /\ active \in File /\ closed \in [Segments -> Seq(Lines)]
      /\ Len(active.lines) \in Nat /\ DOMAIN active.lines = 1..Len(active.lines)
      /\ \A i \in DOMAIN active.lines : active.lines[i] \in Lines
  BY LenProperties, ElementOfSeq DEF TypeOK, File
<1>1. PICK k \in 1..(Len(active.lines) - 1) :
        /\ active' = [active EXCEPT !.lines = SubSeq(active.lines, 1, k)]
        /\ tip' = PointOf(active.lines[k])
  BY DEF Restore
<1>2. PICK t : t = SubSeq(active.lines, 1, k)
  OBVIOUS
<1>3. t \in Seq(Lines) /\ Len(t) = k /\ \A j \in 1..k : t[j] = active.lines[j]
  <2>1. k \in 0..Len(active.lines)
    BY <1>0
  <2> QED BY <1>0, <1>2, <2>1, PrefixIs
<1>4. active' \in File /\ active'.lines = t
  BY <1>0, <1>1, <1>2, <1>3 DEF File
<1>5. k \in DOMAIN active.lines /\ DOMAIN t = 1..k /\ \A j \in 1..k : j \in DOMAIN active.lines
  BY <1>0, <1>3, LenProperties
<1>6. From(t, active.lines)
  BY <1>3, <1>5 DEF From, Alike
<1>7. tip' \in Points
  <2>1. active.lines[k] \in Lines
    BY <1>0, <1>5
  <2> QED BY <1>1, <2>1 DEF PointOf, Points, Lines
<1>8. \A n \in Segments : From(closed'[n], closed[n])
  BY FromItself DEF Restore
<1> QED BY <1>0, <1>1, <1>4, <1>5, <1>6, <1>7, <1>8 DEF Restore, Harms

\* So is a closed segment that is moved elsewhere; the active file stays.
LEMMA ArchiveHarms ==
  ASSUME TypeOK, NEW n \in Segments, Archive(n)
  PROVE  /\ Harms /\ moved' = moved \cup {n} /\ closed[n] # <<>> /\ closed'[n] = <<>>
         /\ active' = active /\ tip' = tip
<1>1. closed \in [Segments -> Seq(Lines)] /\ <<>> \in Seq(Lines) /\ active \in File /\ tip \in Points
  BY EmptySeq DEF TypeOK
<1>2. closed' \in [Segments -> Seq(Lines)] /\ closed'[n] = <<>> /\ \A m \in Segments \ {n} : closed'[m] = closed[m]
  BY <1>1 DEF Archive
<1>3. From(<<>>, closed[n])
  BY DEF From
<1>4. \A m \in Segments : From(closed'[m], closed[m])
  BY <1>2, <1>3, FromItself
<1>5. From(active'.lines, active.lines)
  BY FromItself DEF Archive
<1> QED BY <1>1, <1>2, <1>4, <1>5 DEF Archive, Harms

\* A harm leaves types and lock as they are: nobody is under the lock.
LEMMA HarmStays == TypeOK /\ Held /\ Harms => TypeOK' /\ Held'
<1> SUFFICES ASSUME TypeOK, Held, Harms PROVE TypeOK' /\ Held'
  OBVIOUS
<1>1. TypeOK'
  BY DEF TypeOK, Harms
<1>2. NoProc \notin Procs
  BY LedgerAssumption
<1>3. \A p \in Procs : pc'[p] \notin {"rename", "line", "tip"} /\ lock' # p
  BY <1>2 DEF Held, Harms
<1> QED BY <1>1, <1>3 DEF Held

\* The entries after it, file by file, but for their bodies.
LEMMA HarmEntries ==
  ASSUME TypeOK, Harms
  PROVE  /\ \A e \in EntriesIn(active'.lines) : \E f \in EntriesIn(active.lines) : Alike(e, f)
         /\ \A n \in Segments : \A e \in EntriesIn(closed'[n]) : \E f \in EntriesIn(closed[n]) : Alike(e, f)
         /\ \A n \in Segments : closed'[n] # <<>> => closed[n] # <<>>
<1>1. ASSUME NEW s, NEW t, From(t, s)
      PROVE  \A e \in EntriesIn(t) : \E f \in EntriesIn(s) : Alike(e, f)
  BY <1>1 DEF From, EntriesIn, Alike
<1>2. ASSUME NEW s \in Seq(Lines), NEW t \in Seq(Lines), From(t, s), t # <<>> PROVE s # <<>>
  <2>1. Len(t) \in Nat \ {0} /\ DOMAIN t = 1..Len(t)
    BY <1>2, EmptySeq, LenProperties
  <2>2. 1 \in DOMAIN t
    BY <2>1
  <2>3. DOMAIN s # {}
    BY <1>2, <2>2 DEF From
  <2> QED BY <2>3
<1>3. \A n \in Segments : closed[n] \in Seq(Lines) /\ closed'[n] \in Seq(Lines)
  BY DEF TypeOK, Harms
<1> QED BY <1>1, <1>2, <1>3 DEF Harms

-----------------------------------------------------------------------------
(* The files, whatever happens to them *)

\* A write that raised is not forgotten.
LEMMA FaultsStay == TypeOK /\ [Next]_vars /\ faults' = 0 => faults = 0
<1> SUFFICES ASSUME TypeOK, [Next]_vars, faults' = 0 PROVE faults = 0
  OBVIOUS
<1>0. faults \in Nat
  BY LedgerAssumption DEF TypeOK
<1>1. ASSUME Fault PROVE FALSE
  BY <1>0, <1>1 DEF Fault
<1>2. ASSUME NEW p \in Procs, Proceed(p) PROVE faults' = faults
  BY <1>1, <1>2 DEF Proceed, Enter, Rename, WriteLine, WriteTip, AnchorRead, AnchorSegment, PublishDone,
     PublishFails, Record, Flag, Unflag
<1>3. CASE UNCHANGED vars
  BY <1>3 DEF vars
<1> QED BY <1>1, <1>2, <1>3 DEF Next, Call, CallAnchor, WriteLineFails, Fails, Crash, Restart

\* Entries of the active file come after those of closed ones.
Later(base) ==
  /\ base \in 0..minted
  /\ \A n \in Segments : \A e \in EntriesIn(closed[n]) : e.hash <= base
  /\ \A e \in EntriesIn(active.lines) : base < e.hash /\ e.hash <= minted

\* Entries have numbers; a rotation has the number of a segment; the active file is torn by a write
\* that raised; and who is to rename it has its tail in hand.
Files ==
  /\ \E base \in 0..minted : Later(base)
  /\ \A e \in EntriesIn(active.lines) : e.seq # 0 /\ (e.kind = "LEDGER_ROTATED" => e.seg \in Segments)
  /\ \A n \in Segments : \A e \in EntriesIn(closed[n]) :
       e.seq # 0 /\ (e.kind = "LEDGER_ROTATED" => e.seg \in Segments)
  /\ \A p \in Procs : pc[p] = "line" /\ job[p].kind = "LEDGER_ROTATED" => job[p].seg \in Segments
  /\ faults = 0 => \A i \in DOMAIN active.lines : active.lines[i].kind # "TORN"
  /\ \A p \in Procs : pc[p] = "rename" => TipAgrees /\ ReadTip # Genesis /\ job[p].tip = ReadTip

\* What a write and a rotation do to the entries, file by file.
LEMMA WritesEntry ==
  ASSUME TypeOK, NEW p \in Procs, Writes(p)
  PROVE  /\ EntriesIn(active'.lines) = EntriesIn(active.lines) \cup {LineOf(p)}
         /\ LineOf(p) \in Lines /\ LineOf(p).seq # 0 /\ LineOf(p).kind # "TORN"
         /\ minted \in Nat /\ minted' = minted + 1
         /\ active'.lines = Append(active.lines, LineOf(p)) /\ active.lines \in Seq(Lines)
<1>1. LineOf(p) \in Lines /\ LineOf(p).kind # "TORN"
  BY LineType DEF Writes
<1>2. active.lines \in Seq(Lines) /\ active'.lines = Append(active.lines, LineOf(p))
  BY <1>1, TailAdded DEF TypeOK, File, Writes
<1>3. EntriesIn(active'.lines) = EntriesIn(active.lines) \cup {LineOf(p)}
  BY <1>1, <1>2, EntriesInAppend
<1>4. LineOf(p).seq # 0
  <2>1. job[p].tip.seq \in Nat
    BY DEF TypeOK, Job, Points
  <2> QED BY <2>1 DEF LineOf
<1> QED BY <1>1, <1>2, <1>3, <1>4 DEF TypeOK, Writes

\* A torn line is no entry.
LEMMA TearsEntry ==
  ASSUME TypeOK, NEW p \in Procs, Tears(p)
  PROVE  EntriesIn(active'.lines) = EntriesIn(active.lines)
<1>1. Torn \in Lines /\ Torn.kind = "TORN"
  BY RecordTypes DEF Torn
<1>2. active.lines \in Seq(Lines) /\ active'.lines = Append(active.lines, Torn)
  BY <1>1, TailAdded DEF TypeOK, File, Tears
<1> QED BY <1>1, <1>2, EntriesInAppend

\* A rotation moves all the lines to a number that was free.
LEMMA RotatesEntries ==
  ASSUME TypeOK, NEW p \in Procs, NEW n \in Segments, Rotates(p, n)
  PROVE  /\ active'.lines = <<>> /\ EntriesIn(active'.lines) = {}
         /\ closed[n] = <<>> /\ closed'[n] = active.lines
         /\ \A m \in Segments \ {n} : closed'[m] = closed[m]
<1>1. closed' = [closed EXCEPT ![n] = active.lines] /\ closed[n] = <<>> /\ active' = NoFile
  BY DEF Rotates, NextSegment, FreeSegments
<1>2. closed'[n] = active.lines /\ \A m \in Segments \ {n} : closed'[m] = closed[m]
  BY <1>1 DEF TypeOK
<1>3. active'.lines = <<>> /\ EntriesIn(<<>>) = {}
  BY <1>1 DEF NoFile, EntriesIn
<1> QED BY <1>1, <1>2, <1>3

\* The tail, where a process is to rename the file, is an entry of it.
LEMMA TailIsEntry ==
  ASSUME TypeOK, WholeTail
  PROVE  Tail_ \in EntriesIn(active.lines) /\ Len(active.lines) \in DOMAIN active.lines
<1>1. active.lines \in Seq(Lines) /\ active.lines # <<>> /\ Tail_.kind # "TORN"
  BY DEF TypeOK, File, WholeTail, Empty
<1>2. Len(active.lines) \in Nat \ {0} /\ DOMAIN active.lines = 1..Len(active.lines)
  BY <1>1, EmptySeq, LenProperties
<1>3. Len(active.lines) \in DOMAIN active.lines
  BY <1>2
<1> QED BY <1>1, <1>3 DEF EntriesIn, Tail_

\* A step of Ledger adds entries on top of the closed ones only.
LEMMA LaterStep ==
  ASSUME TypeOK, Held, Files, [Next]_vars
  PROVE  \E base \in 0..minted' : Later(base)'
<1> DEFINE Goal == \E base \in 0..minted' : Later(base)'
<1> SUFFICES Goal
  OBVIOUS
<1>0. PICK base \in 0..minted : Later(base)
  BY DEF Files
<1>1. minted \in Nat
  BY DEF TypeOK
<1>2. CASE Stays
  <2>1. Later(base)'
    BY <1>0, <1>2 DEF Stays, Later
  <2>2. base \in 0..minted'
    BY <1>2 DEF Stays
  <2> QED BY <2>1, <2>2
<1>3. ASSUME NEW p \in Procs, Writes(p) PROVE Goal
  <2>1. EntriesIn(active'.lines) = EntriesIn(active.lines) \cup {LineOf(p)} /\ minted' = minted + 1
    BY <1>3, WritesEntry
  <2>2. LineOf(p).hash = minted + 1
    BY DEF LineOf
  <2>3. base \in 0..minted' /\ base < minted + 1 /\ \A k \in Nat : k <= minted => k <= minted'
    BY <1>1, <2>1
  <2>4. \A e \in EntriesIn(active.lines) : e \in Lines /\ e.hash \in Nat
    <3>1. \A e \in EntriesIn(active.lines) : e \in Lines
      BY EntriesType DEF Entries
    <3> QED BY <3>1 DEF Lines
  <2>5. \A e \in EntriesIn(active'.lines) : base < e.hash /\ e.hash <= minted'
    BY <1>0, <1>1, <2>1, <2>2, <2>3, <2>4 DEF Later
  <2>6. Later(base)'
    BY <1>0, <1>3, <2>3, <2>5 DEF Later, Writes
  <2> QED BY <2>3, <2>6
<1>4. ASSUME NEW p \in Procs, Tears(p) PROVE Goal
  <2>1. EntriesIn(active'.lines) = EntriesIn(active.lines)
    BY <1>4, TearsEntry
  <2>2. Later(base)' /\ base \in 0..minted'
    BY <1>0, <1>4, <2>1 DEF Later, Tears
  <2> QED BY <2>2
<1>5. ASSUME NEW p \in Procs, NEW n \in Segments, Rotates(p, n) PROVE Goal
  <2>1. /\ EntriesIn(active'.lines) = {} /\ closed'[n] = active.lines
        /\ \A m \in Segments \ {n} : closed'[m] = closed[m]
    BY <1>5, RotatesEntries
  <2>2. minted' = minted /\ minted' \in 0..minted'
    BY <1>1, <1>5 DEF Rotates
  <2>3. ASSUME NEW m \in Segments, NEW e \in EntriesIn(closed'[m]) PROVE e.hash <= minted'
    <3>1. CASE m = n
      BY <1>0, <2>1, <2>2, <2>3, <3>1 DEF Later
    <3>2. CASE m # n
      <4>1. e \in EntriesIn(closed[m])
        BY <2>1, <2>3, <3>2
      <4>2. e.hash <= base /\ e.hash \in Nat
        <5>1. e \in Lines
          BY <4>1, EntriesType DEF Entries
        <5> QED BY <1>0, <4>1, <5>1 DEF Later, Lines
      <4> QED BY <1>0, <1>1, <2>2, <4>2
    <3> QED BY <3>1, <3>2
  <2>4. PICK k : k = minted
    OBVIOUS
  <2>5. Later(k)' /\ k \in 0..minted'
    BY <2>1, <2>2, <2>3, <2>4 DEF Later
  <2> QED BY <2>5
<1> HIDE DEF Goal
<1> QED BY <1>2, <1>3, <1>4, <1>5, FileStep

\* A step of Ledger keeps what is known of the files.
LEMMA FilesStep ==
  ASSUME TypeOK, Held, Files, [Next]_vars
  PROVE  Files'
<1> DEFINE Goal == Files'
           Rest == /\ \A e \in EntriesIn(active'.lines) : e.seq # 0 /\ (e.kind = "LEDGER_ROTATED" => e.seg \in Segments)
                   /\ \A n \in Segments : \A e \in EntriesIn(closed'[n]) :
                        e.seq # 0 /\ (e.kind = "LEDGER_ROTATED" => e.seg \in Segments)
                   /\ \A p \in Procs : pc'[p] = "line" /\ job'[p].kind = "LEDGER_ROTATED" => job'[p].seg \in Segments
                   /\ faults' = 0 => \A i \in DOMAIN active'.lines : active'.lines[i].kind # "TORN"
                   /\ \A p \in Procs : pc'[p] = "rename" => TipAgrees' /\ ReadTip' # Genesis /\ job'[p].tip = ReadTip'
<1> SUFFICES Goal
  OBVIOUS
<1>0. Rest => Goal
  BY LaterStep DEF Files
<1>f. faults' = 0 => faults = 0
  BY FaultsStay
<1>n. NoProc \notin Procs
  BY LedgerAssumption
<1>1. CASE Stays
  <2>1. UNCHANGED <<active.lines, closed>>
    BY <1>1 DEF Stays
  <2>2. ASSUME NEW q \in Procs, pc'[q] = "line", job'[q].kind = "LEDGER_ROTATED" PROVE job'[q].seg \in Segments
    <3>1. pc'[q] = pc[q] /\ job'[q] = job[q]
      BY <1>1, <2>2 DEF Stays, AtFiles
    <3> QED BY <2>2, <3>1 DEF Files
  <2>3. ASSUME NEW q \in Procs, pc'[q] = "rename"
        PROVE  TipAgrees' /\ ReadTip' # Genesis /\ job'[q].tip = ReadTip'
    <3>0. q # NoProc
      BY <1>n
    <3>1. tip' = tip
      <4>1. CASE pc[q] = "rename"
        <5>1. \A p \in Procs : pc[p] # "tip"
          BY <4>1 DEF Held
        <5> QED BY <1>1, <5>1 DEF Stays
      <4>2. CASE lock = NoProc /\ tip' = tip
        BY <4>2
      <4> QED BY <1>1, <2>3, <4>1, <4>2 DEF Stays, AtFiles
    <3>2. TipAgrees' = TipAgrees /\ ReadTip' = ReadTip
      BY <2>1, <3>1 DEF TipAgrees, ReadTip, Empty, Tail_
    <3>3. TipAgrees /\ ReadTip # Genesis /\ job'[q].tip = ReadTip
      BY <1>1, <2>3 DEF Stays, AtFiles, Files
    <3> QED BY <3>2, <3>3
  <2>4. Rest
    BY <1>f, <2>1, <2>2, <2>3 DEF Files
  <2> QED BY <1>0, <2>4
<1>2. ASSUME NEW p \in Procs, Writes(p) PROVE Goal
  <2>1. /\ EntriesIn(active'.lines) = EntriesIn(active.lines) \cup {LineOf(p)} /\ closed' = closed
        /\ LineOf(p).seq # 0 /\ \A q \in Procs : pc'[q] \notin {"rename", "line"}
    BY <1>2, WritesEntry DEF Writes, Leaves, AtFiles
  <2>2. LineOf(p).kind = "LEDGER_ROTATED" => LineOf(p).seg \in Segments
    BY <1>2 DEF LineOf, Files, Writes
  <2>3. faults = 0 => \A i \in DOMAIN active'.lines : active'.lines[i].kind # "TORN"
    <3>0. PICK l : l = LineOf(p)
      OBVIOUS
    <3>1. l \in Lines /\ l.kind # "TORN" /\ active'.lines = Append(active.lines, l) /\ active.lines \in Seq(Lines)
      BY <1>2, <3>0, WritesEntry
    <3>2. /\ active'.lines \in Seq(Lines) /\ Len(active'.lines) = Len(active.lines) + 1
          /\ \A i \in 1..Len(active.lines) : active'.lines[i] = active.lines[i]
          /\ active'.lines[Len(active.lines) + 1] = l
      BY <3>1, AppendProperties
    <3>3. /\ DOMAIN active'.lines = 1..Len(active.lines) + 1 /\ Len(active.lines) \in Nat
          /\ DOMAIN active.lines = 1..Len(active.lines)
      BY <3>1, <3>2, LenProperties
    <3> QED BY <3>1, <3>2, <3>3 DEF Files
  <2>4. Rest
    <3>1. \A e \in EntriesIn(active'.lines) : e.seq # 0 /\ (e.kind = "LEDGER_ROTATED" => e.seg \in Segments)
      BY <2>1, <2>2 DEF Files
    <3>2. \A n \in Segments : \A e \in EntriesIn(closed'[n]) :
             e.seq # 0 /\ (e.kind = "LEDGER_ROTATED" => e.seg \in Segments)
      BY <2>1 DEF Files
    <3> QED BY <1>f, <2>1, <2>3, <3>1, <3>2
  <2> QED BY <1>0, <2>4
<1>3. ASSUME NEW p \in Procs, Tears(p) PROVE Goal
  <2>1. /\ EntriesIn(active'.lines) = EntriesIn(active.lines) /\ closed' = closed /\ faults' # 0
        /\ \A q \in Procs : pc'[q] \notin {"rename", "line"}
    BY <1>3, TearsEntry DEF Tears, Leaves, AtFiles
  <2>2. Rest
    BY <2>1 DEF Files
  <2> QED BY <1>0, <2>2
<1>4. ASSUME NEW p \in Procs, NEW n \in Segments, Rotates(p, n) PROVE Goal
  <2>1. /\ EntriesIn(active'.lines) = {} /\ closed'[n] = active.lines /\ active'.lines = <<>>
        /\ \A m \in Segments \ {n} : closed'[m] = closed[m]
    BY <1>4, RotatesEntries
  <2>2. \A q \in Procs : pc'[q] # "rename" /\ (pc'[q] = "line" => q = p)
    BY <1>4 DEF Rotates, AtFiles
  <2>3. \A m \in Segments : \A e \in EntriesIn(closed'[m]) :
             e.seq # 0 /\ (e.kind = "LEDGER_ROTATED" => e.seg \in Segments)
    BY <2>1 DEF Files
  <2>4. \A q \in Procs : pc'[q] = "line" => job'[q].seg \in Segments
    BY <1>4, <2>2 DEF Rotates
  <2>5. \A i \in DOMAIN active'.lines : active'.lines[i].kind # "TORN"
    BY <2>1
  <2>6. Rest
    BY <2>1, <2>2, <2>3, <2>4, <2>5
  <2> QED BY <1>0, <2>6
<1> HIDE DEF Goal
<1> QED BY <1>1, <1>2, <1>3, <1>4, FileStep

\* A harm keeps what is known of the files: it takes lines away or changes bodies.
LEMMA FilesHarm == TypeOK /\ Held /\ Files /\ Harms => Files'
<1> SUFFICES ASSUME TypeOK, Held, Files, Harms PROVE Files'
  OBVIOUS
<1>0. minted' = minted /\ faults' = faults
  BY DEF Harms
<1>1. /\ \A e \in EntriesIn(active'.lines) : \E f \in EntriesIn(active.lines) : Alike(e, f)
      /\ \A n \in Segments : \A e \in EntriesIn(closed'[n]) : \E f \in EntriesIn(closed[n]) : Alike(e, f)
  BY HarmEntries
<1>2. \A p \in Procs : pc'[p] \notin {"rename", "line"}
  <2>1. NoProc \notin Procs
    BY LedgerAssumption
  <2> QED BY <2>1 DEF Held, Harms
<1>3. \E base \in 0..minted' : Later(base)'
  <2>1. PICK base \in 0..minted : Later(base)
    BY DEF Files
  <2>2. Later(base)'
    BY <1>0, <1>1, <2>1 DEF Later, Alike
  <2> QED BY <1>0, <2>2
<1>4. \A e \in EntriesIn(active'.lines) : e.seq # 0 /\ (e.kind = "LEDGER_ROTATED" => e.seg \in Segments)
  BY <1>1 DEF Files, Alike
<1>5. \A n \in Segments : \A e \in EntriesIn(closed'[n]) :
        e.seq # 0 /\ (e.kind = "LEDGER_ROTATED" => e.seg \in Segments)
  BY <1>1 DEF Files, Alike
<1>6. faults' = 0 => \A i \in DOMAIN active'.lines : active'.lines[i].kind # "TORN"
  BY <1>0 DEF Files, Harms, From, Alike
<1> QED BY <1>2, <1>3, <1>4, <1>5, <1>6 DEF Files

-----------------------------------------------------------------------------
(* What lies before a segment and what after it *)

Below(s, lo) == \A e \in EntriesIn(s) : e.hash < lo
Above(s, lo, hi) == \A e \in EntriesIn(s) : hi < e.hash /\ lo <= e.prev

\* The hashes lo..hi, of segment n or of one that was moved elsewhere, cut the ledger in two: the
\* active file and whoever writes next are above them, and what is above is not linked to what
\* is below.
Cut(n, lo, hi) ==
  /\ lo \in Nat \ {0} /\ hi \in Nat /\ lo <= hi /\ hi <= minted
  /\ \A m \in Segments \ {n} : Below(closed[m], lo) \/ Above(closed[m], lo, hi)
  /\ Above(active.lines, lo, hi)
  /\ tip.seq # 0 /\ lo <= tip.hash
  /\ \A p \in Procs : pc[p] \in {"rename", "line"} => lo <= job[p].tip.hash

Cuts ==
  ~bare => /\ \A n \in Segments : closed[n] # <<>> => \E lo, hi \in Nat : Cut(n, lo, hi)
           /\ moved # {} => \E lo, hi \in Nat : Cut(0, lo, hi)

\* The entries of every file have their types.
LEMMA EntryTypes ==
  ASSUME TypeOK
  PROVE  /\ \A e \in EntriesIn(active.lines) : e \in Lines /\ e.hash \in Nat /\ e.prev \in Nat
         /\ \A n \in Segments : \A e \in EntriesIn(closed[n]) : e \in Lines /\ e.hash \in Nat /\ e.prev \in Nat
         /\ minted \in Nat
<1>1. \A e \in Entries : e \in Lines
  BY EntriesType
<1>2. \A l \in Lines : l.hash \in Nat /\ l.prev \in Nat
  BY DEF Lines
<1> QED BY <1>1, <1>2 DEF Entries, TypeOK

\* A step of Ledger leaves the ledger cut: what is written is on top.
LEMMA CutStep ==
  ASSUME TypeOK, Held, Files, [Next]_vars, NEW n, NEW lo, NEW hi, Cut(n, lo, hi),
         n \in Segments => closed[n] # <<>>
  PROVE  Cut(n, lo, hi)'
<1> DEFINE Goal == Cut(n, lo, hi)'
<1> SUFFICES Goal
  OBVIOUS
<1>0. lo \in Nat /\ hi \in Nat /\ lo <= hi /\ hi <= minted /\ minted \in Nat
  BY DEF Cut, TypeOK
<1>t. WholeTail => Tail_.seq # 0 /\ lo <= Tail_.hash
  <2>1. WholeTail => Tail_ \in EntriesIn(active.lines)
    BY TailIsEntry
  <2> QED BY <1>0, <2>1, EntryTypes DEF Cut, Above, Files
<1>1. CASE Stays
  <2>1. UNCHANGED <<active.lines, closed, minted>>
    BY <1>1 DEF Stays
  <2>2. tip'.seq # 0 /\ lo <= tip'.hash
    <3>1. CASE tip' = tip
      BY <3>1 DEF Cut
    <3>2. ASSUME NEW p \in Procs, pc[p] = "tip", tip' = PointOf(Tail_) PROVE tip'.seq # 0 /\ lo <= tip'.hash
      BY <1>t, <3>2 DEF Held, PointOf
    <3> QED BY <1>1, <3>1, <3>2 DEF Stays
  <2>3. ASSUME NEW q \in Procs, pc'[q] \in {"rename", "line"} PROVE lo <= job'[q].tip.hash
    <3>1. CASE pc'[q] = pc[q] /\ job'[q] = job[q]
      BY <2>3, <3>1 DEF Cut
    <3>2. CASE job'[q].tip = ReadTip
      BY <3>2 DEF Cut, ReadTip
    <3> QED BY <1>1, <2>3, <3>1, <3>2 DEF Stays, AtFiles
  <2> QED BY <2>1, <2>2, <2>3 DEF Cut
<1>2. ASSUME NEW p \in Procs, Writes(p) PROVE Goal
  <2>1. /\ EntriesIn(active'.lines) = EntriesIn(active.lines) \cup {LineOf(p)}
        /\ UNCHANGED <<closed, tip>> /\ minted' = minted + 1
        /\ pc[p] = "line" /\ \A q \in Procs : pc'[q] \notin {"rename", "line"}
    BY <1>2, WritesEntry DEF Writes, Leaves, AtFiles
  <2>2. hi < LineOf(p).hash /\ lo <= LineOf(p).prev
    BY <1>0, <2>1 DEF LineOf, Cut
  <2>3. Above(active'.lines, lo, hi)
    BY <2>1, <2>2 DEF Cut, Above
  <2>4. hi <= minted'
    BY <1>0, <2>1
  <2> QED BY <2>1, <2>3, <2>4 DEF Cut
<1>3. ASSUME NEW p \in Procs, Tears(p) PROVE Goal
  <2>1. /\ EntriesIn(active'.lines) = EntriesIn(active.lines) /\ UNCHANGED <<closed, tip, minted>>
        /\ \A q \in Procs : pc'[q] \notin {"rename", "line"}
    BY <1>3, TearsEntry DEF Tears, Leaves, AtFiles
  <2>2. Above(active'.lines, lo, hi)
    BY <2>1 DEF Cut, Above
  <2> QED BY <2>1, <2>2 DEF Cut
<1>4. ASSUME NEW p \in Procs, NEW k \in Segments, Rotates(p, k) PROVE Goal
  <2>1. /\ EntriesIn(active'.lines) = {} /\ closed'[k] = active.lines /\ closed[k] = <<>>
        /\ \A m \in Segments \ {k} : closed'[m] = closed[m]
    BY <1>4, RotatesEntries
  <2>2. /\ pc[p] = "rename" /\ job'[p].tip = job[p].tip /\ UNCHANGED <<tip, minted>>
        /\ \A q \in Procs : pc'[q] \in {"rename", "line"} => q = p
    BY <1>4 DEF Rotates, AtFiles
  <2>3. \A m \in Segments \ {n} : Below(closed'[m], lo) \/ Above(closed'[m], lo, hi)
    <3>1. Above(closed'[k], lo, hi)
      BY <2>1 DEF Cut
    <3> QED BY <2>1, <3>1 DEF Cut
  <2>4. Above(active'.lines, lo, hi)
    BY <2>1 DEF Above
  <2>5. \A q \in Procs : pc'[q] \in {"rename", "line"} => lo <= job'[q].tip.hash
    BY <2>2 DEF Cut
  <2> QED BY <2>2, <2>3, <2>4, <2>5 DEF Cut
<1> HIDE DEF Goal
<1> QED BY <1>1, <1>2, <1>3, <1>4, FileStep

\* A rotation cuts the ledger.
LEMMA RotationCuts ==
  ASSUME TypeOK, Held, Files, NEW p \in Procs, NEW n \in Segments, Rotates(p, n), ~bare'
  PROVE  \E lo, hi \in Nat : Cut(n, lo, hi)'
<1>0. minted \in Nat /\ minted' = minted /\ tip' = tip /\ tip.seq # 0 /\ pc[p] = "rename"
  BY DEF TypeOK, Rotates
<1>1. PICK base \in 0..minted : Later(base)
  BY DEF Files
<1>2. WholeTail /\ TipAgrees /\ job[p].tip = ReadTip
  BY <1>0 DEF Held, Files
<1>3. Tail_ \in EntriesIn(active.lines) /\ tip.hash = Tail_.hash /\ ReadTip = tip
  BY <1>0, <1>2, TailIsEntry DEF TipAgrees, ReadTip, PointOf
<1>4. base < tip.hash /\ tip.hash <= minted /\ tip.hash \in Nat /\ base \in Nat
  BY <1>0, <1>1, <1>3, EntryTypes DEF Later
<1>5. PICK lo \in Nat, hi \in Nat : lo = base + 1 /\ hi = minted
  BY <1>0, <1>1
<1>6. lo \in Nat \ {0} /\ lo <= hi /\ hi <= minted' /\ lo <= tip.hash
  BY <1>0, <1>1, <1>4, <1>5
<1>7. /\ EntriesIn(active'.lines) = {}
      /\ \A m \in Segments \ {n} : closed'[m] = closed[m]
  BY RotatesEntries
<1>8. \A m \in Segments \ {n} : Below(closed'[m], lo)
  <2>1. \A m \in Segments : \A e \in EntriesIn(closed[m]) : e.hash < lo
    BY <1>1, <1>4, <1>5, EntryTypes DEF Later
  <2> QED BY <1>7, <2>1 DEF Below
<1>9. Above(active'.lines, lo, hi)
  BY <1>7 DEF Above
<1>10. \A q \in Procs : pc'[q] \in {"rename", "line"} => lo <= job'[q].tip.hash
  <2>1. job'[p].tip = tip /\ \A q \in Procs \ {p} : pc'[q] \notin {"rename", "line"}
    BY <1>2, <1>3 DEF Rotates, AtFiles
  <2> QED BY <1>6, <2>1
<1>11. Cut(n, lo, hi)'
  BY <1>0, <1>6, <1>8, <1>9, <1>10 DEF Cut
<1> QED BY <1>5, <1>11

\* A step of Ledger leaves every closed segment a cut, and so the one it closes.
LEMMA CutsStep ==
  ASSUME TypeOK, Held, Files, Cuts, [Next]_vars, moved' = moved
  PROVE  Cuts'
<1> SUFFICES ASSUME ~bare' PROVE /\ \A n \in Segments : closed'[n] # <<>> => \E lo, hi \in Nat : Cut(n, lo, hi)'
                                 /\ moved # {} => \E lo, hi \in Nat : Cut(0, lo, hi)'
  BY DEF Cuts
<1>0. ~bare
  BY BareStays
<1>1. ASSUME NEW n \in Segments, closed'[n] # <<>> PROVE \E lo, hi \in Nat : Cut(n, lo, hi)'
  <2>1. CASE closed[n] # <<>>
    <3>1. PICK lo \in Nat, hi \in Nat : Cut(n, lo, hi)
      BY <1>0, <2>1 DEF Cuts
    <3>2. Cut(n, lo, hi)'
      BY <2>1, <3>1, CutStep
    <3> QED BY <3>2
  <2>2. CASE closed[n] = <<>>
    <3>1. closed'[n] # closed[n]
      BY <1>1, <2>2
    <3>2. \E p \in Procs, k \in Segments : Rotates(p, k)
      BY <3>1, FileStep DEF Stays, Writes, Tears
    <3>3. PICK p \in Procs, k \in Segments : Rotates(p, k)
      BY <3>2
    <3>4. k = n
      BY <3>1, <3>3, RotatesEntries
    <3> QED BY <3>3, <3>4, RotationCuts
  <2> QED BY <2>1, <2>2
<1>2. ASSUME moved # {} PROVE \E lo, hi \in Nat : Cut(0, lo, hi)'
  <2>1. PICK lo \in Nat, hi \in Nat : Cut(0, lo, hi)
    BY <1>0, <1>2 DEF Cuts
  <2>2. 0 \notin Segments
    BY DEF Segments
  <2>3. Cut(0, lo, hi)'
    BY <2>1, <2>2, CutStep
  <2> QED BY <2>3
<1> QED BY <1>1, <1>2

\* What happens to the files leaves the ledger cut.
LEMMA CutHarm ==
  ASSUME TypeOK, Held, Files, Harms, faults' = 0, NEW n, NEW lo, NEW hi, Cut(n, lo, hi)
  PROVE  Cut(n, lo, hi)'
<1>1. /\ \A e \in EntriesIn(active'.lines) : \E f \in EntriesIn(active.lines) : Alike(e, f)
      /\ \A m \in Segments : \A e \in EntriesIn(closed'[m]) : \E f \in EntriesIn(closed[m]) : Alike(e, f)
  BY HarmEntries
<1>2. Above(active'.lines, lo, hi)
  BY <1>1 DEF Cut, Above, Alike
<1>3. ASSUME NEW m \in Segments \ {n} PROVE Below(closed'[m], lo) \/ Above(closed'[m], lo, hi)
  <2>1. CASE Below(closed[m], lo)
    BY <1>1, <2>1 DEF Below, Alike
  <2>2. CASE Above(closed[m], lo, hi)
    BY <1>1, <2>2 DEF Above, Alike
  <2> QED BY <2>1, <2>2 DEF Cut
<1>4. tip'.seq # 0 /\ lo <= tip'.hash
  <2>1. CASE tip' = tip
    BY <2>1 DEF Cut
  <2>2. ASSUME NEW i \in DOMAIN active.lines, tip' = PointOf(active.lines[i])
        PROVE  tip'.seq # 0 /\ lo <= tip'.hash
    <3>1. active.lines[i] \in EntriesIn(active.lines)
      BY <2>2 DEF Files, Harms, EntriesIn
    <3>2. PICK e \in EntriesIn(active.lines) : e = active.lines[i]
      BY <3>1
    <3>3. e.seq # 0 /\ hi < e.hash /\ e.hash \in Nat /\ lo \in Nat /\ hi \in Nat /\ lo <= hi
      BY <3>2, EntryTypes DEF Files, Cut, Above
    <3> QED BY <2>2, <3>2, <3>3 DEF PointOf
  <2> QED BY <2>1, <2>2 DEF Harms
<1>5. UNCHANGED <<minted, pc, job>>
  BY DEF Harms
<1> QED BY <1>2, <1>3, <1>4, <1>5 DEF Cut

\* n is moved elsewhere.
LEMMA CutsArchive ==
  ASSUME TypeOK, Held, Files, Cuts, faults' = 0, NEW n \in Segments, Archive(n)
  PROVE  Cuts'
<1>0. /\ Harms /\ moved' = moved \cup {n} /\ closed[n] # <<>> /\ closed'[n] = <<>> /\ bare' = bare
  BY ArchiveHarms DEF Harms
<1> SUFFICES ASSUME ~bare PROVE /\ \A m \in Segments : closed'[m] # <<>> => \E lo, hi \in Nat : Cut(m, lo, hi)'
                                /\ \E lo, hi \in Nat : Cut(0, lo, hi)'
  BY <1>0 DEF Cuts
<1>1. ASSUME NEW m \in Segments, closed'[m] # <<>> PROVE \E lo, hi \in Nat : Cut(m, lo, hi)'
  <2>1. closed[m] # <<>>
    BY <1>0, <1>1, HarmEntries
  <2>2. PICK lo \in Nat, hi \in Nat : Cut(m, lo, hi)
    BY <2>1 DEF Cuts
  <2>3. Cut(m, lo, hi)'
    BY <1>0, <2>2, CutHarm
  <2> QED BY <2>3
<1>2. \E lo, hi \in Nat : Cut(0, lo, hi)'
  <2>1. PICK lo \in Nat, hi \in Nat : Cut(n, lo, hi)
    BY <1>0 DEF Cuts
  <2>2. Cut(n, lo, hi)'
    BY <1>0, <2>1, CutHarm
  <2>3. Below(closed'[n], lo)
    BY <1>0 DEF Below, EntriesIn
  <2>4. Cut(0, lo, hi)'
    BY <2>2, <2>3 DEF Cut
  <2> QED BY <2>4
<1> QED BY <1>1, <1>2

\* An accident, or an old copy put back, leaves every closed segment a cut.
LEMMA CutsHarm ==
  ASSUME TypeOK, Held, Files, Cuts, faults' = 0, Harms, moved' = moved
  PROVE  Cuts'
<1>0. bare' = bare
  BY DEF Harms
<1> SUFFICES ASSUME ~bare PROVE /\ \A m \in Segments : closed'[m] # <<>> => \E lo, hi \in Nat : Cut(m, lo, hi)'
                                /\ moved # {} => \E lo, hi \in Nat : Cut(0, lo, hi)'
  BY <1>0 DEF Cuts
<1>1. ASSUME NEW m \in Segments, closed'[m] # <<>> PROVE \E lo, hi \in Nat : Cut(m, lo, hi)'
  <2>1. closed[m] # <<>>
    BY <1>1, HarmEntries
  <2>2. PICK lo \in Nat, hi \in Nat : Cut(m, lo, hi)
    BY <2>1 DEF Cuts
  <2>3. Cut(m, lo, hi)'
    BY <2>2, CutHarm
  <2> QED BY <2>3
<1>2. ASSUME moved # {} PROVE \E lo, hi \in Nat : Cut(0, lo, hi)'
  <2>1. PICK lo \in Nat, hi \in Nat : Cut(0, lo, hi)
    BY <1>2 DEF Cuts
  <2>2. Cut(0, lo, hi)'
    BY <2>1, CutHarm
  <2> QED BY <2>2
<1> QED BY <1>1, <1>2

-----------------------------------------------------------------------------
(* What the auditor adds *)

Kept == TypeOK /\ Held /\ Files /\ Cuts

\* At first there are no files.
LEMMA KeptInit == AuditInit => Kept
<1> SUFFICES ASSUME AuditInit PROVE Kept
  OBVIOUS
<1>1. Init /\ moved = {}
  BY DEF AuditInit
<1>2. TypeOK /\ Held
  BY <1>1, TypeInit
<1>3. /\ active.lines = <<>> /\ \A n \in Segments : closed[n] = <<>>
      /\ \A p \in Procs : pc[p] = "idle"
      /\ minted = 0
  BY <1>1 DEF Init, NoFile
<1>4. EntriesIn(<<>>) = {}
  BY DEF EntriesIn
<1>5. Later(0) /\ 0 \in 0..minted
  BY <1>3, <1>4 DEF Later
<1>6. Files
  BY <1>3, <1>4, <1>5 DEF Files
<1>7. Cuts
  BY <1>1, <1>3 DEF Cuts
<1> QED BY <1>2, <1>6, <1>7 DEF Kept

\* Where something happened to the files no write raises.
LEMMA HarmIsApart ==
  ASSUME TypeOK', Apart', damages' # {} \/ moved' # {}
  PROVE  faults' = 0
<1>1. faults' \in Nat /\ crashes' \in Nat
  BY LedgerAssumption DEF TypeOK
<1>2. crashes' + faults' = 0
  BY DEF Apart
<1>3. \A x, y \in Nat : x + y = 0 => y = 0
  OBVIOUS
<1> QED BY <1>1, <1>2, <1>3, Zenon

\* Every step, of Ledger, of the auditor or of an accident, keeps it.
LEMMA KeptStep == Kept /\ [AuditNext]_auditVars => Kept'
<1> SUFFICES ASSUME Kept, [AuditNext]_auditVars PROVE Kept'
  OBVIOUS
<1>0. TypeOK /\ Held /\ Files /\ Cuts
  BY DEF Kept
<1>1. CASE [Next]_vars /\ moved' = moved
  BY <1>0, <1>1, TypeStep, HeldStep, FilesStep, CutsStep DEF Kept
<1>2. CASE AuditNext /\ (Accident \/ Restore)
  <2>1. Harms /\ moved' = moved
    BY <1>0, <1>2, AccidentHarms, RestoreHarms
  <2>2. TypeOK' /\ Held'
    BY <1>0, <2>1, HarmStays
  <2>3. damages' # {}
    BY <1>2 DEF Accident, Restore
  <2>4. faults' = 0
    BY <1>2, <2>2, <2>3, HarmIsApart DEF AuditNext
  <2> QED BY <1>0, <2>1, <2>2, <2>4, FilesHarm, CutsHarm DEF Kept
<1>3. CASE AuditNext /\ \E n \in Segments : Archive(n)
  <2>1. PICK n \in Segments : Archive(n)
    BY <1>3
  <2>2. Harms /\ moved' # {}
    BY <1>0, <2>1, ArchiveHarms
  <2>3. TypeOK' /\ Held'
    BY <1>0, <2>2, HarmStays
  <2>4. faults' = 0
    BY <1>3, <2>2, <2>3, HarmIsApart DEF AuditNext
  <2> QED BY <1>0, <2>1, <2>2, <2>3, <2>4, FilesHarm, CutsArchive DEF Kept
<1>4. ~((AuditNext /\ (Accident \/ Restore)) \/ (AuditNext /\ \E n \in Segments : Archive(n)))
        => [Next]_vars /\ moved' = moved
  BY DEF AuditNext, AuditOpen, AuditReports, auditVars
<1> QED BY <1>1, <1>2, <1>3, <1>4

\* Types, the lock and the files hold whatever happens to the files.
THEOREM FilesHold == AuditSpec => []Kept
BY KeptInit, KeptStep, PTL DEF AuditSpec

-----------------------------------------------------------------------------
(* What a walk that comes to an end has met *)

Passes == {"GENESIS", "GOES_ON"}

\* A segment that is found to be in order: it is whole, and its first line says where it leads.
LEMMA CodeSays ==
  ASSUME NEW lines \in Seq(Lines), SegmentCode(lines) \in Passes
  PROVE  /\ lines # <<>> /\ 1 \in DOMAIN lines /\ Len(lines) \in DOMAIN lines
         /\ \A i \in DOMAIN lines : lines[i] \in EntriesIn(lines) /\ lines[i] \in Lines
         /\ lines[1].kind = "LEDGER_ROTATED" => /\ SegmentCode(lines) = "GOES_ON"
                                                /\ lines[1].of.hash = lines[1].prev
                                                /\ lines[1].of.seq + 1 = lines[1].seq
         /\ lines[1].kind # "LEDGER_ROTATED" => /\ SegmentCode(lines) = "GENESIS"
                                                /\ lines[1].prev = 0 /\ lines[1].seq = 1
         /\ ChainCode(lines) = "OK"
<1>1. /\ \A i \in DOMAIN lines : lines[i].kind # "TORN"
      /\ lines # <<>>
      /\ SegmentCode(lines) = IF ChainCode(lines) = "OK" THEN FirstCode(lines[1]) ELSE ChainCode(lines)
  BY DEF SegmentCode, Passes
<1>2. ChainCode(lines) \in {"OK", "HASH_MISMATCH", "CHAIN_BROKEN"}
  BY DEF ChainCode
<1>3. ChainCode(lines) = "OK" /\ SegmentCode(lines) = FirstCode(lines[1])
  BY <1>1, <1>2 DEF Passes
<1>4. Len(lines) \in Nat \ {0} /\ DOMAIN lines = 1..Len(lines) /\ \A i \in 1..Len(lines) : lines[i] \in Lines
  BY <1>1, EmptySeq, LenProperties, ElementOfSeq
<1>5. 1 \in DOMAIN lines /\ Len(lines) \in DOMAIN lines
  BY <1>4
<1>6. \A i \in DOMAIN lines : lines[i] \in EntriesIn(lines) /\ lines[i] \in Lines
  BY <1>1, <1>4 DEF EntriesIn
<1> QED BY <1>1, <1>3, <1>5, <1>6 DEF FirstCode, Passes

\* What the walk says where it is good, and where it is next.
Leads(v) ==
  v.code = "GOES_ON" => /\ v.at \in Seq(Lines) /\ v.at # <<>>
                        /\ v.at[1] \in EntriesIn(v.at) /\ v.at[1].seg \in Segments
                        /\ v.at[1].of.hash = v.at[1].prev
Sees(v) ==
  v.code \in Passes => Leads(v) /\ v.seen \subseteq Dated /\ Seen(active.lines) \subseteq v.seen

\* Where the walk begins well, it begins with the lines of the active file.
LEMMA BeginSays ==
  ASSUME TypeOK, Files, Begin(active).code \in Passes
  PROVE  /\ SegmentCode(active.lines) = Begin(active).code /\ active.lines \in Seq(Lines)
         /\ Begin(active).at = active.lines /\ Begin(active).seen = Seen(active.lines)
         /\ Leads(Begin(active))
<1>1. active.lines \in Seq(Lines)
  BY DEF TypeOK, File
<1>2. SegmentCode(active.lines) = Begin(active).code /\ Begin(active).at = active.lines
  BY DEF Begin, Passes
<1>3. Begin(active).seen = Seen(active.lines)
  BY DEF Begin
<1>4. Leads(Begin(active))
  <2>1. PICK s : s = active.lines
    OBVIOUS
  <2>2. /\ s # <<>> /\ s[1] \in EntriesIn(s)
        /\ SegmentCode(s) = "GOES_ON" => s[1].kind = "LEDGER_ROTATED" /\ s[1].of.hash = s[1].prev
    BY <1>1, <1>2, <2>1, CodeSays
  <2>3. SegmentCode(s) = "GOES_ON" => s[1].seg \in Segments
    BY <2>1, <2>2 DEF Files
  <2> QED BY <1>1, <1>2, <2>1, <2>2, <2>3 DEF Leads
<1> QED BY <1>1, <1>2, <1>3, <1>4

\* Where the walk goes on well, it is in the closed segment that the last one spoke of.
LEMMA AfterSays ==
  ASSUME TypeOK, Files, NEW v, v.code = "GOES_ON", Leads(v), After(v).code \in Passes
  PROVE  LET n == v.at[1].seg
         IN /\ n \in Segments /\ closed[n] \in Seq(Lines) /\ Fits(closed[n], v.at[1])
            /\ SegmentCode(closed[n]) = After(v).code
            /\ After(v).at = closed[n] /\ After(v).seen = v.seen \cup Seen(closed[n])
            /\ Leads(After(v))
<1>1. PICK n : n = v.at[1].seg
  OBVIOUS
<1>2. n \in Segments /\ closed[n] \in Seq(Lines)
  BY <1>1 DEF Leads, TypeOK
<1>3. /\ closed[n] # <<>> /\ Fits(closed[n], v.at[1]) /\ SegmentCode(closed[n]) = After(v).code
      /\ After(v).at = closed[n] /\ After(v).seen = v.seen \cup Seen(closed[n])
  BY <1>1 DEF After, Passes
<1>4. Leads(After(v))
  <2>1. PICK s : s = closed[n]
    OBVIOUS
  <2>2. /\ s[1] \in EntriesIn(s)
        /\ SegmentCode(s) = "GOES_ON" => s[1].kind = "LEDGER_ROTATED" /\ s[1].of.hash = s[1].prev
    BY <1>2, <1>3, <2>1, CodeSays
  <2>3. SegmentCode(s) = "GOES_ON" => s[1].seg \in Segments
    BY <1>2, <2>1, <2>2 DEF Files
  <2> QED BY <1>2, <1>3, <2>1, <2>2, <2>3 DEF Leads
<1> QED BY <1>1, <1>2, <1>3, <1>4

\* The walk has seen the active file, and nothing but entries.
LEMMA WalkSees ==
  ASSUME TypeOK, Files
  PROVE  Walk(active).code = "GENESIS" => Walk(active).seen \subseteq Dated /\ Seen(active.lines) \subseteq Walk(active).seen
<1>0. MaxCalls \in Nat
  BY LedgerAssumption
<1>1. PICK w : /\ w[0] = Begin(active) /\ Walk(active) = w[MaxCalls]
               /\ \A k \in Nat : k < MaxCalls => w[k + 1] = After(w[k])
  BY WalkRuns
<1>a. /\ SegmentCode(active.lines) \in Passes => Seen(active.lines) \subseteq Dated
      /\ \A n \in Segments : SegmentCode(closed[n]) \in Passes => Seen(closed[n]) \subseteq Dated
  <2>1. ASSUME NEW s \in Seq(Lines), SegmentCode(s) \in Passes, EntriesIn(s) \subseteq Entries PROVE Seen(s) \subseteq Dated
    <3>1. \A i \in DOMAIN s : s[i] \in Entries
      BY <2>1, CodeSays
    <3> QED BY <3>1 DEF Seen, Dated
  <2>2. EntriesIn(active.lines) \subseteq Entries /\ \A n \in Segments : EntriesIn(closed[n]) \subseteq Entries
    BY DEF Entries
  <2>3. active.lines \in Seq(Lines) /\ \A n \in Segments : closed[n] \in Seq(Lines)
    BY DEF TypeOK, File
  <2> QED BY <2>1, <2>2, <2>3
<1> DEFINE P == {k \in Nat : k <= MaxCalls => Sees(w[k])}
<1>2. 0 \in P
  BY <1>1, <1>a, BeginSays DEF Sees
<1>3. ASSUME NEW k \in Nat, k \in P PROVE k + 1 \in P
  <2>1. SUFFICES ASSUME k + 1 <= MaxCalls PROVE Sees(w[k + 1])
    OBVIOUS
  <2>2. Sees(w[k]) /\ w[k + 1] = After(w[k])
    BY <1>0, <1>1, <1>3, <2>1
  <2>3. PICK v : v = w[k]
    OBVIOUS
  <2>4. CASE v.code # "GOES_ON"
    <3>1. After(v) = v
      BY <2>4 DEF After
    <3> QED BY <2>2, <2>3, <3>1
  <2>5. CASE v.code = "GOES_ON"
    <3>1. SUFFICES ASSUME After(v).code \in Passes PROVE Sees(After(v))
      BY <2>2, <2>3 DEF Sees
    <3>2. Leads(v) /\ v.seen \subseteq Dated /\ Seen(active.lines) \subseteq v.seen
      BY <2>2, <2>3, <2>5 DEF Sees, Passes
    <3>3. PICK n \in Segments : /\ SegmentCode(closed[n]) = After(v).code /\ Leads(After(v))
                                /\ After(v).seen = v.seen \cup Seen(closed[n])
      BY <2>5, <3>1, <3>2, AfterSays
    <3>4. Seen(closed[n]) \subseteq Dated
      BY <1>a, <3>1, <3>3
    <3> QED BY <3>2, <3>3, <3>4 DEF Sees
  <2> QED BY <2>4, <2>5
<1>4. Nat \subseteq P
  <2> HIDE DEF P
  <2> QED BY <1>2, <1>3, NatSetInduction
<1>5. Sees(w[MaxCalls])
  BY <1>0, <1>4
<1> QED BY <1>1, <1>5 DEF Sees, Passes

\* It has met the segment that cuts the ledger, on its way from above to below.
Meets(v, n, lo, hi) ==
  v.code \in Passes =>
    /\ Leads(v)
    /\ \/ n \in Segments /\ Seen(closed[n]) \subseteq v.seen
       \/ v.code = "GOES_ON" /\ Above(v.at, lo, hi)

\* A file that is above a cut and in order is not the first of all.
LEMMA AbovePasses ==
  ASSUME NEW s \in Seq(Lines), NEW lo \in Nat \ {0}, NEW hi, Above(s, lo, hi), SegmentCode(s) \in Passes
  PROVE  SegmentCode(s) = "GOES_ON"
<1>1. s[1] \in EntriesIn(s)
  BY CodeSays
<1>2. lo <= s[1].prev
  BY <1>1 DEF Above
<1>3. s[1].prev # 0
  BY <1>2
<1> QED BY <1>3, CodeSays

\* A walk that comes to the beginning has seen the segment of every cut.
LEMMA WalkMeets ==
  ASSUME TypeOK, Files, NEW n, NEW lo, NEW hi, Cut(n, lo, hi)
  PROVE  Walk(active).code = "GENESIS" => n \in Segments /\ Seen(closed[n]) \subseteq Walk(active).seen
<1>0. MaxCalls \in Nat /\ lo \in Nat \ {0}
  BY LedgerAssumption DEF Cut
<1>1. PICK w : /\ w[0] = Begin(active) /\ Walk(active) = w[MaxCalls]
               /\ \A k \in Nat : k < MaxCalls => w[k + 1] = After(w[k])
  BY WalkRuns
<1> DEFINE P == {k \in Nat : k <= MaxCalls => Meets(w[k], n, lo, hi)}
<1>2. 0 \in P
  <2>1. PICK v : v = Begin(active)
    OBVIOUS
  <2>2. SUFFICES ASSUME v.code \in Passes PROVE Leads(v) /\ v.code = "GOES_ON" /\ Above(v.at, lo, hi)
    BY <1>1, <2>1 DEF Meets
  <2>3. /\ SegmentCode(active.lines) = v.code /\ active.lines \in Seq(Lines) /\ v.at = active.lines /\ Leads(v)
    BY <2>1, <2>2, BeginSays
  <2>4. Above(active.lines, lo, hi)
    BY DEF Cut
  <2>5. SegmentCode(active.lines) = "GOES_ON"
    BY <1>0, <2>2, <2>3, <2>4, AbovePasses
  <2> QED BY <2>3, <2>4, <2>5
<1>3. ASSUME NEW k \in Nat, k \in P PROVE k + 1 \in P
  <2>1. SUFFICES ASSUME k + 1 <= MaxCalls PROVE Meets(w[k + 1], n, lo, hi)
    OBVIOUS
  <2>2. Meets(w[k], n, lo, hi) /\ w[k + 1] = After(w[k])
    BY <1>0, <1>1, <1>3, <2>1
  <2>3. PICK v : v = w[k]
    OBVIOUS
  <2>4. CASE v.code # "GOES_ON"
    <3>1. After(v) = v
      BY <2>4 DEF After
    <3> QED BY <2>2, <2>3, <3>1
  <2>5. CASE v.code = "GOES_ON"
    <3>1. SUFFICES ASSUME After(v).code \in Passes PROVE Meets(After(v), n, lo, hi)
      BY <2>2, <2>3 DEF Meets
    <3>2. Leads(v)
      BY <2>2, <2>3, <2>5 DEF Meets, Passes
    <3>3. PICK m : m = v.at[1].seg
      OBVIOUS
    <3>4. /\ m \in Segments /\ closed[m] \in Seq(Lines) /\ Fits(closed[m], v.at[1])
          /\ SegmentCode(closed[m]) = After(v).code
          /\ After(v).at = closed[m] /\ After(v).seen = v.seen \cup Seen(closed[m])
          /\ Leads(After(v))
      BY <2>5, <3>1, <3>2, <3>3, AfterSays
    <3>5. CASE n \in Segments /\ Seen(closed[n]) \subseteq v.seen
      BY <3>4, <3>5 DEF Meets
    <3>6. CASE Above(v.at, lo, hi)
      <4>1. CASE m = n
        BY <3>4, <4>1 DEF Meets
      <4>2. CASE m # n
        <5>1. PICK e : e = closed[m][Len(closed[m])]
          OBVIOUS
        <5>2. e \in EntriesIn(closed[m]) /\ e \in Lines
          BY <3>1, <3>4, <5>1, CodeSays
        <5>3. e.hash = v.at[1].of.hash /\ v.at[1].of.hash = v.at[1].prev /\ lo <= v.at[1].prev
          BY <2>5, <3>2, <3>4, <3>6, <5>1 DEF Fits, PointOf, Leads, Above
        <5>4. ~Below(closed[m], lo)
          <6>1. e.hash \in Nat /\ lo <= e.hash
            BY <5>2, <5>3 DEF Lines
          <6>2. ~(e.hash < lo)
            BY <1>0, <6>1
          <6> QED BY <5>2, <6>2 DEF Below
        <5>5. Above(closed[m], lo, hi)
          BY <3>4, <4>2, <5>4 DEF Cut
        <5>6. After(v).code = "GOES_ON"
          BY <1>0, <3>1, <3>4, <5>5, AbovePasses
        <5> QED BY <3>4, <5>5, <5>6 DEF Meets
      <4> QED BY <4>1, <4>2
    <3> QED BY <2>2, <2>3, <2>5, <3>5, <3>6 DEF Meets, Passes
  <2> QED BY <2>4, <2>5
<1>4. Nat \subseteq P
  <2> HIDE DEF P
  <2> QED BY <1>2, <1>3, NatSetInduction
<1>5. Meets(w[MaxCalls], n, lo, hi)
  BY <1>0, <1>4
<1> QED BY <1>1, <1>5 DEF Meets, Passes

-----------------------------------------------------------------------------
(* The theorems *)

\* A walk that comes to the beginning has seen all there is, and nothing was moved elsewhere.
LEMMA GenesisSeesAll ==
  ASSUME Kept, ~bare, Walk(active).code = "GENESIS"
  PROVE  moved = {} /\ Dated = Walk(active).seen
<1>0. TypeOK /\ Files /\ Cuts
  BY DEF Kept
<1>1. moved = {}
  <2>1. ASSUME moved # {} PROVE FALSE
    <3>1. PICK lo \in Nat, hi \in Nat : Cut(0, lo, hi)
      BY <1>0, <2>1 DEF Cuts
    <3>2. 0 \in Segments
      BY <1>0, <3>1, WalkMeets
    <3> QED BY <3>2 DEF Segments
  <2> QED BY <2>1
<1>2. ASSUME NEW n \in Segments PROVE Seen(closed[n]) \subseteq Walk(active).seen
  <2>1. CASE closed[n] = <<>>
    BY <2>1 DEF Seen
  <2>2. CASE closed[n] # <<>>
    <3>1. PICK lo \in Nat, hi \in Nat : Cut(n, lo, hi)
      BY <1>0, <2>2 DEF Cuts
    <3> QED BY <1>0, <3>1, WalkMeets
  <2> QED BY <2>1, <2>2
<1>3. Walk(active).seen \subseteq Dated /\ Seen(active.lines) \subseteq Walk(active).seen
  BY <1>0, WalkSees
<1>4. \A s : \A e \in EntriesIn(s) : PointOf(e) \in Seen(s)
  BY DEF EntriesIn, Seen
<1>5. Dated \subseteq Walk(active).seen
  BY <1>2, <1>3, <1>4 DEF Dated, Entries
<1> QED BY <1>1, <1>3, <1>5

\* verify() answers OK, complete, only where the walk came to the beginning and no anchor differs.
LEMMA VerifySays ==
  ASSUME NEW dated, Verify(active, dated).code = "GENESIS"
  PROVE  Walk(active).code = "GENESIS" /\ ~Contradicts(dated, Walk(active).seen)
BY DEF Verify

\* A ledger with a closed segment moved elsewhere is never called complete, however many were
\* moved and whatever else happened to the files.
THEOREM MissingIsSaid == AuditSpec => []MissingIsNeverOk
<1>1. Kept => MissingIsNeverOk
  BY GenesisSeesAll, VerifySays DEF MissingIsNeverOk
<1> QED BY <1>1, FilesHold, PTL

\* A complete chain is the whole ledger: verify() leaves no entry on disk out.
THEOREM CompleteSeesAll == AuditSpec => []OkSeesAll
<1>1. Kept => OkSeesAll
  BY GenesisSeesAll, VerifySays DEF OkSeesAll, Dated
<1> QED BY <1>1, FilesHold, PTL

\* What a third party dated is in a complete ledger that its anchors do not contradict, as far as
\* the ledger goes: whatever was altered, lost, swapped or put back, and however often.
THEOREM DatedStays == AuditSpec => []DatedIsUnchanged
<1>1. Kept => DatedIsUnchanged
  <2>1. SUFFICES ASSUME Kept, Verify(active, published).code = "GENESIS", NEW a \in published, NEW e \in Entries,
                        e.seq = a.seq, ~bare
                 PROVE  PointOf(e) = a
    BY DEF DatedIsUnchanged
  <2>2. Walk(active).code = "GENESIS" /\ ~Contradicts(published, Walk(active).seen)
    BY <2>1, VerifySays
  <2>3. PointOf(e) \in Walk(active).seen
    BY <2>1, <2>2, GenesisSeesAll DEF Dated
  <2>4. PointOf(e).hash = a.hash /\ PointOf(e).seq = a.seq
    BY <2>1, <2>2, <2>3 DEF Contradicts, PointOf
  <2>5. a \in Points
    BY <2>1 DEF Kept, TypeOK
  <2> QED BY <2>4, <2>5 DEF PointOf, Points
<1> QED BY <1>1, FilesHold, PTL

-----------------------------------------------------------------------------
(* A ledger that nothing happened to *)

\* The lines of a file are whole and linked, and a LEDGER_ROTATED is the first.
Sound(s) ==
  /\ \A i \in DOMAIN s : s[i].kind # "TORN" /\ s[i].body = s[i].hash /\ s[i].hash # 0
  /\ \A i \in DOMAIN s \ {1} : /\ s[i].prev = s[i - 1].hash /\ s[i].seq = s[i - 1].seq + 1
                               /\ s[i].kind # "LEDGER_ROTATED"

\* A first line is the first of all, or goes on from a closed segment that fits.
Rooted(files, first) ==
  IF first.kind = "LEDGER_ROTATED"
  THEN /\ first.of.hash = first.prev /\ first.of.seq + 1 = first.seq
       /\ first.seg \in Segments /\ files[first.seg] # <<>> /\ Fits(files[first.seg], first)
  ELSE first.prev = 0 /\ first.seq = 1
Under(first, m) == first.kind = "LEDGER_ROTATED" => first.seg < m

\* Every closed file is sound and goes on from an older one; the active file from the newest; and
\* so will the entry j of a rotation.
OldOnes(files) ==
  \A m \in Segments : files[m] # <<>> =>
    Sound(files[m]) /\ Rooted(files, files[m][1]) /\ Under(files[m][1], m)
NewOne(files, s) ==
  s # <<>> => /\ Sound(s) /\ Rooted(files, s[1])
              /\ \A m \in Segments : files[m] = <<>> => Under(s[1], m)
NextOne(files, s, j) ==
  /\ s = <<>> /\ j.of = j.tip /\ j.seg \in Segments /\ files[j.seg] # <<>> /\ Fits(files[j.seg], j)
  /\ \A m \in Segments : files[m] = <<>> => Under(j, m)

Linked ==
  /\ OldOnes(closed) /\ NewOne(closed, active.lines)
  /\ \A p \in Procs : pc[p] = "line" =>
       IF job[p].kind = "LEDGER_ROTATED" THEN NextOne(closed, active.lines, job[p])
       ELSE TipAgrees /\ job[p].tip = ReadTip

\* A torn line is the last: nobody writes after it.
TornLast == \A i \in DOMAIN active.lines : active.lines[i].kind = "TORN" => i = Len(active.lines)

\* A step of Ledger adds nothing after a torn line, and takes none away.
LEMMA TornStep ==
  ASSUME TypeOK, Held, TornLast, [Next]_vars
  PROVE  TornLast' /\ (IsTorn => IsTorn')
<1> DEFINE Goal == TornLast' /\ (IsTorn => IsTorn')
<1> SUFFICES Goal
  OBVIOUS
<1>0. WholeTail => ~IsTorn
  BY DEF WholeTail, Tail_, TornLast, IsTorn
<1>1. CASE active'.lines = active.lines
  BY <1>1 DEF TornLast, IsTorn
<1>2. ASSUME NEW p \in Procs, pc[p] = "line", NEW l \in Lines, With(l) PROVE Goal
  <2>1. Empty \/ WholeTail
    BY <1>2 DEF Held
  <2>2. ~IsTorn
    BY <1>0, <2>1 DEF IsTorn, Empty
  <2>3. active'.lines = Append(active.lines, l) /\ active.lines \in Seq(Lines)
    BY <1>2, TailAdded DEF TypeOK, File
  <2>4. /\ active'.lines \in Seq(Lines) /\ Len(active'.lines) = Len(active.lines) + 1
        /\ \A i \in 1..Len(active.lines) : active'.lines[i] = active.lines[i]
    BY <2>3, AppendProperties
  <2>5. /\ DOMAIN active.lines = 1..Len(active.lines) /\ Len(active.lines) \in Nat
        /\ DOMAIN active'.lines = 1..Len(active.lines) + 1
    BY <2>3, <2>4, LenProperties
  <2> QED BY <2>2, <2>4, <2>5 DEF TornLast, IsTorn
<1>3. ASSUME NEW p \in Procs, NEW n \in Segments, Rotates(p, n) PROVE Goal
  <2>1. active'.lines = <<>> /\ WholeTail
    BY <1>3, RotatesEntries DEF Rotates, Held
  <2> QED BY <1>0, <2>1 DEF TornLast
<1> HIDE DEF Goal
<1>4. Torn \in Lines
  BY RecordTypes DEF Torn
<1>5. \A p \in Procs : Writes(p) => LineOf(p) \in Lines
  BY WritesEntry
<1> QED BY <1>1, <1>2, <1>3, <1>4, <1>5, FileStep DEF Stays, Writes, Tears

\* A line is added that links.
LEMMA SoundAppend ==
  ASSUME NEW s \in Seq(Lines), NEW l \in Lines, s # <<>> => Sound(s),
         l.kind # "TORN", l.body = l.hash, l.hash # 0,
         s # <<>> => /\ l.prev = s[Len(s)].hash /\ l.seq = s[Len(s)].seq + 1
                     /\ l.kind # "LEDGER_ROTATED"
  PROVE  /\ Sound(Append(s, l))
         /\ Append(s, l)[1] = IF s = <<>> THEN l ELSE s[1]
<1>1. PICK t : t = Append(s, l)
  OBVIOUS
<1>2. /\ t \in Seq(Lines) /\ Len(t) = Len(s) + 1
      /\ \A i \in 1..Len(s) : t[i] = s[i]
      /\ t[Len(s) + 1] = l
  BY <1>1, AppendProperties
<1>3. Len(s) \in Nat /\ DOMAIN s = 1..Len(s) /\ DOMAIN t = 1..Len(s) + 1
  BY <1>2, LenProperties
<1>4. s = <<>> <=> Len(s) = 0
  BY EmptySeq
<1>5. t[1] = IF s = <<>> THEN l ELSE s[1]
  BY <1>2, <1>3, <1>4
<1>6. \A i \in DOMAIN t : t[i].kind # "TORN" /\ t[i].body = t[i].hash /\ t[i].hash # 0
  BY <1>2, <1>3, <1>4 DEF Sound
<1>7. ASSUME NEW i \in DOMAIN t \ {1}
      PROVE  t[i].prev = t[i - 1].hash /\ t[i].seq = t[i - 1].seq + 1 /\ t[i].kind # "LEDGER_ROTATED"
  <2>1. CASE i = Len(s) + 1
    <3>1. s # <<>> /\ i - 1 = Len(s) /\ i - 1 \in 1..Len(s)
      BY <1>3, <1>4, <1>7, <2>1
    <3> QED BY <1>2, <2>1, <3>1
  <2>2. CASE i # Len(s) + 1
    <3>1. i \in DOMAIN s \ {1} /\ i - 1 \in 1..Len(s) /\ s # <<>>
      BY <1>3, <1>4, <1>7, <2>2
    <3> QED BY <1>2, <1>3, <3>1 DEF Sound
  <2> QED BY <2>1, <2>2
<1> QED BY <1>1, <1>5, <1>6, <1>7 DEF Sound

\* A step of Ledger that tears no line leaves a linked ledger linked.
LEMMA LinkedStep ==
  ASSUME TypeOK, Held, Files, Linked, [Next]_vars, ~IsTorn'
  PROVE  Linked'
<1> DEFINE Goal == Linked'
<1> SUFFICES Goal
  OBVIOUS
<1>0. active.lines \in Seq(Lines) /\ OldOnes(closed) /\ NewOne(closed, active.lines)
  BY DEF TypeOK, File, Linked
<1>1. CASE Stays
  <2>1. active'.lines = active.lines /\ closed' = closed
    BY <1>1 DEF Stays
  <2>2. ASSUME NEW q \in Procs, pc'[q] = "line"
        PROVE  IF job'[q].kind = "LEDGER_ROTATED" THEN NextOne(closed', active'.lines, job'[q])
               ELSE TipAgrees' /\ job'[q].tip = ReadTip'
    <3>1. CASE pc[q] = "line" /\ job'[q] = job[q]
      <4>1. tip' = tip
        <5>1. \A p \in Procs : pc[p] # "tip"
          BY <3>1, LedgerAssumption DEF Held
        <5> QED BY <1>1, <5>1 DEF Stays
      <4>2. TipAgrees' = TipAgrees /\ ReadTip' = ReadTip
        BY <2>1, <4>1 DEF TipAgrees, ReadTip, Empty, Tail_
      <4> QED BY <2>1, <3>1, <4>2 DEF Linked
    <3>2. CASE job'[q].kind # "LEDGER_ROTATED" /\ TipAgrees /\ tip' = tip /\ job'[q].tip = ReadTip
      <4>1. TipAgrees' = TipAgrees /\ ReadTip' = ReadTip
        BY <2>1, <3>2 DEF TipAgrees, ReadTip, Empty, Tail_
      <4> QED BY <3>2, <4>1
    <3> QED BY <1>1, <2>2, <3>1, <3>2 DEF Stays, AtFiles
  <2> QED BY <1>0, <2>1, <2>2 DEF Linked
<1>2. ASSUME NEW p \in Procs, Writes(p) PROVE Goal
  <2>0. PICK l, s : l = LineOf(p) /\ s = active.lines
    OBVIOUS
  <2>1. /\ l \in Lines /\ l.kind # "TORN" /\ closed' = closed /\ active'.lines = Append(s, l)
        /\ s \in Seq(Lines) /\ pc[p] = "line" /\ \A q \in Procs : pc'[q] \notin {"rename", "line"}
        /\ minted \in Nat
    BY <1>2, <2>0, WritesEntry DEF Writes, Leaves, AtFiles
  <2>2. l.body = l.hash /\ l.hash # 0
    BY <2>0, <2>1 DEF LineOf
  <2>3. /\ l.kind = job[p].kind /\ l.seq = job[p].tip.seq + 1 /\ l.prev = job[p].tip.hash
        /\ l.of = job[p].of /\ l.seg = job[p].seg /\ l.sha = job[p].sha
    BY <2>0 DEF LineOf
  <2>4. Append(s, l) # <<>>
    BY <2>1, AppendProperties
  <2>5. CASE job[p].kind = "LEDGER_ROTATED"
    <3>1. NextOne(closed, s, job[p])
      BY <2>0, <2>1, <2>5 DEF Linked
    <3>2. s = <<>>
      BY <3>1 DEF NextOne
    <3>3. Sound(Append(s, l)) /\ Append(s, l)[1] = l
      BY <2>1, <2>2, <3>2, SoundAppend
    <3>4. Fits(closed[l.seg], l)
      BY <2>3, <3>1 DEF NextOne, Fits
    <3>5. Rooted(closed, l)
      BY <2>3, <2>5, <3>1, <3>4 DEF NextOne, Rooted
    <3>6. \A m \in Segments : closed[m] = <<>> => Under(l, m)
      BY <2>3, <3>1 DEF NextOne, Under
    <3>7. NewOne(closed, Append(s, l))
      BY <3>3, <3>5, <3>6 DEF NewOne
    <3> QED BY <1>0, <2>1, <3>7 DEF Linked
  <2>6. CASE job[p].kind # "LEDGER_ROTATED"
    <3>1. TipAgrees /\ job[p].tip = ReadTip
      BY <2>1, <2>6 DEF Linked
    <3>2. CASE s = <<>>
      <4>1. l.prev = 0 /\ l.seq = 1
        BY <2>0, <2>3, <3>1, <3>2 DEF TipAgrees, ReadTip, Empty, Genesis
      <4>2. Sound(Append(s, l)) /\ Append(s, l)[1] = l
        BY <2>1, <2>2, <3>2, SoundAppend
      <4>3. NewOne(closed, Append(s, l))
        BY <2>3, <2>6, <4>1, <4>2 DEF NewOne, Rooted, Under
      <4> QED BY <1>0, <2>1, <4>3 DEF Linked
    <3>3. CASE s # <<>>
      <4>1. l.prev = s[Len(s)].hash /\ l.seq = s[Len(s)].seq + 1 /\ l.kind # "LEDGER_ROTATED"
        BY <2>0, <2>3, <2>6, <3>1, <3>3 DEF TipAgrees, ReadTip, Empty, Tail_, PointOf
      <4>2. Sound(s)
        BY <1>0, <2>0, <3>3 DEF NewOne
      <4>3. Sound(Append(s, l)) /\ Append(s, l)[1] = s[1]
        BY <2>1, <2>2, <3>3, <4>1, <4>2, SoundAppend
      <4>4. NewOne(closed, Append(s, l))
        BY <1>0, <2>0, <3>3, <4>3 DEF NewOne
      <4> QED BY <1>0, <2>1, <4>4 DEF Linked
    <3> QED BY <3>2, <3>3
  <2> QED BY <2>5, <2>6
<1>3. ASSUME NEW p \in Procs, Tears(p) PROVE Goal
  <2>1. Torn \in Lines /\ Torn.kind = "TORN"
    BY RecordTypes DEF Torn
  <2>2. PICK s : s = active.lines
    OBVIOUS
  <2>3. active'.lines = Append(s, Torn) /\ s \in Seq(Lines)
    BY <1>0, <1>3, <2>1, <2>2, TailAdded DEF Tears
  <2>4. /\ active'.lines \in Seq(Lines) /\ Len(active'.lines) = Len(s) + 1
        /\ active'.lines[Len(s) + 1] = Torn
    BY <2>1, <2>3, AppendProperties
  <2>5. Len(s) + 1 \in DOMAIN active'.lines
    BY <2>3, <2>4, LenProperties
  <2> QED BY <2>1, <2>4, <2>5 DEF IsTorn
<1>4. ASSUME NEW p \in Procs, NEW n \in Segments, Rotates(p, n) PROVE Goal
  <2>0. PICK s, f : s = active.lines /\ f = closed'
    OBVIOUS
  <2>1. /\ active'.lines = <<>> /\ closed[n] = <<>> /\ f[n] = s
        /\ \A m \in Segments \ {n} : f[m] = closed[m]
    BY <1>4, <2>0, RotatesEntries
  <2>2. /\ pc[p] = "rename" /\ NextSegment(n) /\ \A q \in Procs : pc'[q] = "line" => q = p
        /\ job'[p].of = job'[p].tip /\ job'[p].seg = n /\ job'[p].sha = Digest(s)
        /\ job'[p].of = job[p].tip
    BY <1>4, <2>0 DEF Rotates, AtFiles
  <2>3. s # <<>> /\ TipAgrees /\ job[p].tip = ReadTip
    BY <2>0, <2>2 DEF Held, WholeTail, Empty, Files
  <2>4. ReadTip = PointOf(s[Len(s)])
    BY <2>0, <2>3 DEF TipAgrees, ReadTip, Empty, Tail_
  <2>5. \A r : Rooted(closed, r) => Rooted(f, r)
    BY <2>1 DEF Rooted
  <2>6. Sound(s) /\ Rooted(closed, s[1]) /\ Under(s[1], n)
    BY <1>0, <2>0, <2>1, <2>3 DEF NewOne
  <2>7. OldOnes(f)
    BY <1>0, <2>1, <2>5, <2>6 DEF OldOnes
  <2>8. \A m \in Segments : f[m] = <<>> => n < m
    <3>1. ASSUME NEW m \in Segments, f[m] = <<>> PROVE m # n /\ n <= m
      BY <2>1, <2>2, <2>3, <3>1 DEF NextSegment, FreeSegments
    <3> QED BY <3>1, LedgerAssumption DEF Segments
  <2>9. Fits(f[n], job'[p])
    BY <2>1, <2>2, <2>3, <2>4 DEF Fits
  <2>10. NextOne(f, active'.lines, job'[p])
    BY <2>1, <2>2, <2>3, <2>8, <2>9 DEF NextOne, Under
  <2>11. NewOne(f, active'.lines)
    BY <2>1 DEF NewOne
  <2>12. job'[p].kind = "LEDGER_ROTATED"
    BY <1>4, <2>2 DEF Rotates, Held
  <2> QED BY <2>0, <2>2, <2>7, <2>10, <2>11, <2>12 DEF Linked
<1> HIDE DEF Goal
<1> QED BY <1>1, <1>2, <1>3, <1>4, FileStep

-----------------------------------------------------------------------------
(* The auditor finds a sound ledger in order *)

Prefix(t, s) == t \in Seq(Lines) /\ Len(t) <= Len(s) /\ \A i \in 1..Len(t) : t[i] = s[i]

\* The beginning of a sound file is sound.
LEMMA PrefixSound ==
  ASSUME NEW s \in Seq(Lines), NEW t, Prefix(t, s), t # <<>>, Sound(s)
  PROVE  s # <<>> /\ Sound(t) /\ t[1] = s[1] /\ Seen(t) \subseteq Seen(s)
<1>1. /\ t \in Seq(Lines) /\ Len(t) \in Nat \ {0} /\ DOMAIN t = 1..Len(t)
      /\ Len(s) \in Nat /\ DOMAIN s = 1..Len(s) /\ Len(t) <= Len(s)
  BY EmptySeq, LenProperties DEF Prefix
<1>2. \A i \in DOMAIN t : i \in DOMAIN s /\ t[i] = s[i]
  BY <1>1 DEF Prefix
<1>3. 1 \in DOMAIN t /\ s # <<>>
  BY <1>1
<1>4. \A i \in DOMAIN t \ {1} : i - 1 \in DOMAIN t
  BY <1>1
<1> QED BY <1>2, <1>3, <1>4 DEF Sound, Seen

\* A sound file that goes on from an older one is found to.
LEMMA SoundCode ==
  ASSUME NEW files, NEW s \in Seq(Lines), s # <<>>, Sound(s), Rooted(files, s[1])
  PROVE  SegmentCode(s) = IF s[1].kind = "LEDGER_ROTATED" THEN "GOES_ON" ELSE "GENESIS"
<1>1. \A i \in DOMAIN s : s[i].kind # "TORN"
  BY DEF Sound
<1>2. ChainCode(s) = "OK"
  <2>1. {i \in DOMAIN s : s[i].body # s[i].hash} = {}
    BY DEF Sound
  <2>2. {i \in DOMAIN s \ {1} : s[i].prev # s[i - 1].hash \/ s[i].seq # s[i - 1].seq + 1} = {}
    BY DEF Sound
  <2> QED BY <2>1, <2>2 DEF ChainCode
<1>3. FirstCode(s[1]) = IF s[1].kind = "LEDGER_ROTATED" THEN "GOES_ON" ELSE "GENESIS"
  BY DEF FirstCode, Rooted
<1> QED BY <1>1, <1>2, <1>3 DEF SegmentCode

\* At step k of a walk: it is at its end, or there are steps enough to the first segment.
InOrder(v, k) ==
  /\ v.seen \subseteq Dated
  /\ \/ v.code \in {"GENESIS", "EMPTY", "SEGMENT_MISSING"}
     \/ /\ v.code = "GOES_ON" /\ Rooted(closed, v.at[1])
        /\ v.at[1].kind = "LEDGER_ROTATED" /\ v.at[1].seg + k <= MaxCalls

\* What the auditor sees of a sound file are points of entries.
LEMMA SeenOfSound ==
  ASSUME NEW s, Sound(s), EntriesIn(s) \subseteq Entries
  PROVE  Seen(s) \subseteq Dated
BY DEF Sound, EntriesIn, Seen, Dated

\* The walk begins in order with what was read of a file that is still there.
LEMMA BeginInOrder ==
  ASSUME TypeOK, Linked, NEW file, Prefix(file.lines, active.lines) \/ \E m \in Segments : Prefix(file.lines, closed[m])
  PROVE  InOrder(Begin(file), 0)
<1>0. MaxCalls \in Nat
  BY LedgerAssumption
<1>1. PICK t, v : t = file.lines /\ v = Begin(file)
  OBVIOUS
<1>2. /\ v.code = (IF file.here THEN SegmentCode(t) ELSE "SEGMENT_MISSING")
      /\ v.at = t /\ v.seen = Seen(t)
  BY <1>1 DEF Begin
<1>3. CASE t = <<>>
  <2>1. v.seen = {} /\ SegmentCode(t) = "EMPTY"
    BY <1>2, <1>3 DEF Seen, SegmentCode
  <2> QED BY <1>1, <1>2, <2>1 DEF InOrder
<1>4. CASE t # <<>>
  <2>1. \E s \in Seq(Lines) : /\ Prefix(t, s) /\ EntriesIn(s) \subseteq Entries
                              /\ s # <<>> => Sound(s) /\ Rooted(closed, s[1])
    <3>1. CASE Prefix(t, active.lines)
      BY <3>1 DEF TypeOK, File, Entries, Linked, NewOne
    <3>2. ASSUME NEW m \in Segments, Prefix(t, closed[m])
          PROVE  \E s \in Seq(Lines) : /\ Prefix(t, s) /\ EntriesIn(s) \subseteq Entries
                                       /\ s # <<>> => Sound(s) /\ Rooted(closed, s[1])
      BY <3>2 DEF TypeOK, Entries, Linked, OldOnes
    <3> QED BY <1>1, <3>1, <3>2
  <2>2. PICK s \in Seq(Lines) : /\ Prefix(t, s) /\ EntriesIn(s) \subseteq Entries
                                /\ s # <<>> => Sound(s) /\ Rooted(closed, s[1])
    BY <2>1
  <2>3. s # <<>>
    BY <1>4, <2>2, EmptySeq, LenProperties DEF Prefix
  <2>4. Sound(t) /\ t[1] = s[1] /\ Seen(t) \subseteq Seen(s) /\ Seen(s) \subseteq Dated
    BY <1>4, <2>2, <2>3, PrefixSound, SeenOfSound
  <2>5. t \in Seq(Lines) /\ Rooted(closed, t[1])
    BY <2>2, <2>3, <2>4 DEF Prefix
  <2>6. SegmentCode(t) = IF t[1].kind = "LEDGER_ROTATED" THEN "GOES_ON" ELSE "GENESIS"
    BY <1>4, <2>4, <2>5, SoundCode
  <2>7. t[1].kind = "LEDGER_ROTATED" => t[1].seg + 0 <= MaxCalls
    BY <1>0, <2>5 DEF Rooted, Segments
  <2> QED BY <1>1, <1>2, <2>4, <2>5, <2>6, <2>7 DEF InOrder
<1> QED BY <1>3, <1>4

\* It goes on in order: every step leads to an older segment that fits.
LEMMA AfterInOrder ==
  ASSUME TypeOK, Linked, NEW v, NEW k \in Nat, InOrder(v, k)
  PROVE  InOrder(After(v), k + 1)
<1>0. MaxCalls \in Nat
  BY LedgerAssumption
<1>1. CASE v.code # "GOES_ON"
  BY <1>1 DEF After, InOrder
<1>2. CASE v.code = "GOES_ON"
  <2>1. PICK n, s, r : n = v.at[1].seg /\ s = closed[n] /\ r = v.at[1]
    OBVIOUS
  <2>2. /\ n \in Segments /\ s # <<>> /\ Fits(s, r) /\ n + k <= MaxCalls /\ v.seen \subseteq Dated
    BY <1>2, <2>1 DEF InOrder, Rooted
  <2>3. s \in Seq(Lines) /\ Sound(s) /\ Rooted(closed, s[1]) /\ Under(s[1], n) /\ EntriesIn(s) \subseteq Entries
    BY <2>1, <2>2 DEF Linked, OldOnes, TypeOK, Entries
  <2>4. SegmentCode(s) = IF s[1].kind = "LEDGER_ROTATED" THEN "GOES_ON" ELSE "GENESIS"
    BY <2>2, <2>3, SoundCode
  <2>5. After(v).code = SegmentCode(s) /\ After(v).at = s /\ After(v).seen = v.seen \cup Seen(s)
    BY <1>2, <2>1, <2>2 DEF After
  <2>6. After(v).seen \subseteq Dated
    BY <2>2, <2>3, <2>5, SeenOfSound
  <2>7. s[1].kind = "LEDGER_ROTATED" => s[1].seg + (k + 1) <= MaxCalls
    <3>1. n \in Nat
      BY <1>0, <2>2 DEF Segments
    <3>2. s[1].kind = "LEDGER_ROTATED" => s[1].seg < n /\ s[1].seg \in Nat
      BY <1>0, <2>3 DEF Under, Rooted, Segments
    <3> QED BY <1>0, <2>2, <3>1, <3>2
  <2> QED BY <2>3, <2>4, <2>5, <2>6, <2>7 DEF InOrder
<1> QED BY <1>1, <1>2

\* verify() of what was the active file answers OK, or that the file was not there.
LEMMA VerifyIsOk ==
  ASSUME TypeOK, Linked, Growing, Dating,
         NEW file, Prefix(file.lines, active.lines) \/ \E m \in Segments : Prefix(file.lines, closed[m]),
         NEW dated, dated \subseteq published
  PROVE  Verify(file, dated).ok
<1>0. MaxCalls \in Nat
  BY LedgerAssumption
<1>1. PICK w : /\ w[0] = Begin(file) /\ Walk(file) = w[MaxCalls]
               /\ \A k \in Nat : k < MaxCalls => w[k + 1] = After(w[k])
  BY WalkRuns
<1> DEFINE P == {k \in Nat : k <= MaxCalls => InOrder(w[k], k)}
<1>2. 0 \in P
  BY <1>1, BeginInOrder
<1>3. ASSUME NEW k \in Nat, k \in P PROVE k + 1 \in P
  <2>1. SUFFICES ASSUME k + 1 <= MaxCalls PROVE InOrder(w[k + 1], k + 1)
    OBVIOUS
  <2>2. InOrder(w[k], k) /\ w[k + 1] = After(w[k])
    BY <1>0, <1>1, <1>3, <2>1
  <2> QED BY <2>2, AfterInOrder
<1>4. Nat \subseteq P
  <2> HIDE DEF P
  <2> QED BY <1>2, <1>3, NatSetInduction
<1>5. PICK v : v = Walk(file)
  OBVIOUS
<1>6. InOrder(v, MaxCalls)
  BY <1>0, <1>1, <1>4, <1>5
<1>7. v.code \in {"GENESIS", "EMPTY", "SEGMENT_MISSING"}
  <2>1. ASSUME v.at[1].seg \in Segments, v.at[1].seg + MaxCalls <= MaxCalls PROVE FALSE
    BY <1>0, <2>1 DEF Segments
  <2> QED BY <1>6, <2>1 DEF InOrder, Rooted
<1>8. ~Contradicts(dated, v.seen)
  <2>1. dated \subseteq Dated /\ v.seen \subseteq Dated
    BY <1>6 DEF InOrder, Dating
  <2>2. ASSUME NEW a \in Dated, NEW s \in Dated, a.seq = s.seq PROVE a.hash = s.hash
    <3>1. PICK e \in Entries, f \in Entries : a = PointOf(e) /\ s = PointOf(f)
      BY DEF Dated
    <3>2. e.seq = f.seq
      BY <2>2, <3>1 DEF PointOf
    <3>3. e = f
      BY <3>2 DEF Growing, Chained
    <3> QED BY <3>1, <3>3 DEF PointOf
  <2> QED BY <2>1, <2>2 DEF Contradicts
<1> QED BY <1>5, <1>7, <1>8 DEF Verify

-----------------------------------------------------------------------------
(* The auditor at work *)

\* What the auditor has read is the beginning of a file that is still there.
ViewHolds ==
  view.busy => Prefix(view.lines, active.lines) \/ \E m \in Segments : Prefix(view.lines, closed[m])

Untouched ==
  damages = {} /\ moved = {} =>
    /\ TornLast /\ Dating
    /\ ~bare => Growing
    /\ ~IsTorn => Linked /\ ViewHolds
    /\ ~IsTorn /\ ~bare => report.ok

\* A step of Ledger leaves what the auditor has read the beginning of a file.
LEMMA ViewStep ==
  ASSUME TypeOK, Held, ViewHolds, [Next]_vars, view' = view
  PROVE  ViewHolds'
<1> DEFINE t == view.lines
           Goal == view.busy => Prefix(t, active'.lines) \/ \E m \in Segments : Prefix(t, closed'[m])
<1> SUFFICES Goal
  BY DEF ViewHolds
<1>0. ~view.busy \/ Prefix(t, active.lines) \/ \E m \in Segments : Prefix(t, closed[m])
  BY DEF ViewHolds
<1>1. CASE active'.lines = active.lines /\ closed' = closed
  BY <1>0, <1>1
<1>2. ASSUME NEW l \in Lines, With(l), closed' = closed PROVE Goal
  <2>1. PICK s : s = active.lines
    OBVIOUS
  <2>2. s \in Seq(Lines) /\ active'.lines = Append(s, l)
    BY <1>2, <2>1, TailAdded DEF TypeOK, File
  <2>3. /\ Len(Append(s, l)) = Len(s) + 1 /\ \A i \in 1..Len(s) : Append(s, l)[i] = s[i]
        /\ Len(s) \in Nat
    BY <2>2, AppendProperties, LenProperties
  <2>4. ASSUME Prefix(t, s) PROVE Prefix(t, Append(s, l))
    <3>1. t \in Seq(Lines) /\ Len(t) <= Len(s) /\ (\A i \in 1..Len(t) : t[i] = s[i]) /\ Len(t) \in Nat
      BY <2>4, LenProperties DEF Prefix
    <3>2. \A i \in 1..Len(t) : i \in 1..Len(s)
      BY <2>3, <3>1
    <3> QED BY <2>3, <3>1, <3>2 DEF Prefix
  <2> HIDE DEF t
  <2> QED BY <1>0, <1>2, <2>1, <2>2, <2>4
<1>3. ASSUME NEW p \in Procs, NEW n \in Segments, Rotates(p, n) PROVE Goal
  <2>1. /\ closed[n] = <<>> /\ closed'[n] = active.lines /\ \A m \in Segments \ {n} : closed'[m] = closed[m]
    BY <1>3, RotatesEntries
  <2>2. ASSUME NEW m \in Segments, Prefix(t, closed[m]) PROVE \E k \in Segments : Prefix(t, closed'[k])
    <3>1. CASE m # n
      BY <2>1, <2>2, <3>1
    <3>2. CASE m = n
      <4>1. PICK s : s = active.lines
        OBVIOUS
      <4>2. s \in Seq(Lines) /\ Len(s) \in Nat
        BY <4>1, LenProperties DEF TypeOK, File
      <4>3. t \in Seq(Lines) /\ Len(t) = 0
        BY <2>1, <2>2, <3>2, LenProperties, EmptySeq DEF Prefix
      <4>4. Prefix(t, s)
        BY <4>2, <4>3 DEF Prefix
      <4> QED BY <2>1, <4>1, <4>4
    <3> QED BY <3>1, <3>2
  <2> HIDE DEF t
  <2> QED BY <1>0, <2>1, <2>2
<1> HIDE DEF Goal
<1>4. Torn \in Lines
  BY RecordTypes DEF Torn
<1>5. \A p \in Procs : Writes(p) => LineOf(p) \in Lines
  BY WritesEntry
<1> QED BY <1>1, <1>2, <1>3, <1>4, <1>5, FileStep DEF Stays, Writes, Tears

\* Every step keeps what holds of files that nothing happened to.
LEMMA UntouchedStep ==
  ASSUME Kept, Untouched, [AuditNext]_auditVars
  PROVE  Untouched'
<1> DEFINE Goal == Untouched'
<1> SUFFICES Goal
  OBVIOUS
<1>0. TypeOK /\ Held /\ Files
  BY DEF Kept
<1>1. ASSUME [Next]_vars, UNCHANGED <<view, report, damages, moved>> PROVE Goal
  <2>1. SUFFICES ASSUME damages = {} /\ moved = {}
                 PROVE  /\ TornLast' /\ Dating'
                        /\ ~bare' => Growing'
                        /\ ~IsTorn' => Linked' /\ ViewHolds'
                        /\ ~IsTorn' /\ ~bare' => report'.ok
    BY <1>1 DEF Untouched
  <2>2. TornLast /\ Dating /\ (~bare => Growing) /\ (~IsTorn => Linked /\ ViewHolds) /\ (~IsTorn /\ ~bare => report.ok)
    BY <2>1 DEF Untouched
  <2>3. TornLast' /\ (IsTorn => IsTorn') /\ Dating' /\ (bare => bare')
    BY <1>0, <1>1, <2>2, TornStep, DatingStep, BareStays
  <2>4. ~bare' => Growing'
    BY <1>0, <1>1, <2>2, <2>3, GrowingStep
  <2>5. ~IsTorn' => Linked' /\ ViewHolds'
    BY <1>0, <1>1, <2>2, <2>3, LinkedStep, ViewStep
  <2> QED BY <1>1, <2>2, <2>3, <2>4, <2>5
<1>2. ASSUME UNCHANGED <<vars, damages, moved>>
      PROVE  /\ TornLast' = TornLast /\ Dating' = Dating /\ Growing' = Growing /\ Linked' = Linked
             /\ IsTorn' = IsTorn /\ bare' = bare
  <2>1. UNCHANGED <<active, closed, tip, anchors, pc, job, published, bare>>
    BY <1>2 DEF vars, disk
  <2>2. Entries' = Entries /\ TipAgrees' = TipAgrees /\ ReadTip' = ReadTip /\ Tail_' = Tail_ /\ WholeTail' = WholeTail
    BY <2>1 DEF Entries, TipAgrees, ReadTip, Empty, Tail_, WholeTail
  <2>3. Dated' = Dated /\ Chained' = Chained /\ \A t : Newest(t)' = Newest(t)
    BY <2>2 DEF Dated, Chained, Newest
  <2> QED BY <2>1, <2>2, <2>3 DEF TornLast, Dating, Growing, Linked, IsTorn
<1>3. CASE AuditOpen
  <2>1. SUFFICES ASSUME Linked PROVE ViewHolds'
    BY <1>2, <1>3, <2>1 DEF AuditOpen, Untouched
  <2>2. active.lines \in Seq(Lines) /\ active' = active /\ view'.lines = active.lines
    BY <1>0, <1>3 DEF AuditOpen, TypeOK, File, vars, disk
  <2>3. Len(active.lines) \in Nat
    BY <2>2, LenProperties
  <2> QED BY <2>2, <2>3 DEF ViewHolds, Prefix
<1>4. CASE AuditReports
  <2>1. UNCHANGED <<vars, damages, moved>> /\ ~view'.busy
    BY <1>4 DEF AuditReports, NoView
  <2>2. ViewHolds'
    BY <2>1 DEF ViewHolds
  <2>3. ASSUME damages = {}, moved = {}, ~IsTorn, ~bare PROVE report'.ok
    <3>1. PICK dated \in {anchors, published} : report' = Verify(view, dated)
      BY <1>4 DEF AuditReports
    <3>2. Linked /\ Growing /\ Dating /\ ViewHolds /\ view.busy
      BY <1>4, <2>3 DEF Untouched, AuditReports
    <3>3. dated \subseteq published
      BY <3>1, <3>2 DEF Dating
    <3> QED BY <1>0, <3>1, <3>2, <3>3, VerifyIsOk DEF ViewHolds
  <2> QED BY <1>2, <2>1, <2>2, <2>3 DEF Untouched
<1>5. CASE Accident \/ Restore \/ \E n \in Segments : Archive(n)
  <2>1. damages' # {} \/ moved' # {}
    BY <1>5 DEF Accident, Restore, Archive
  <2> QED BY <2>1 DEF Untouched
<1> HIDE DEF Goal
<1> QED BY <1>1, <1>3, <1>4, <1>5 DEF AuditNext, auditVars

\* And so it is at first.
LEMMA UntouchedInit == AuditInit => Untouched
<1> SUFFICES ASSUME AuditInit PROVE Untouched
  OBVIOUS
<1>1. Init /\ ~view.busy /\ report.ok
  BY DEF AuditInit, NoView, NoReport
<1>2. /\ active.lines = <<>> /\ \A n \in Segments : closed[n] = <<>>
      /\ tip.seq = 0 /\ anchors = {} /\ published = {}
      /\ \A p \in Procs : pc[p] = "idle"
  BY <1>1 DEF Init, NoFile, Genesis
<1>3. Entries = {} /\ Empty
  <2>1. EntriesIn(<<>>) = {}
    BY DEF EntriesIn
  <2> QED BY <1>2, <2>1 DEF Entries, Empty
<1>4. TornLast /\ Dating /\ Growing
  BY <1>2, <1>3 DEF TornLast, Dating, Growing, Chained, WholeTail
<1>5. Linked /\ ViewHolds
  BY <1>1, <1>2 DEF Linked, OldOnes, NewOne, ViewHolds
<1> QED BY <1>1, <1>4, <1>5 DEF Untouched

\* verify() runs while others append, rotate, anchor, fail and die, and reads each file at another
\* time; as long as no file was damaged or moved, no line torn and no bare ledger rotated, it finds
\* no fault.
THEOREM VerifyNeverAccuses == AuditSpec => []AuditNeverAccuses
<1>1. Untouched => AuditNeverAccuses
  BY DEF Untouched, AuditNeverAccuses
<1>2. Kept /\ Untouched /\ [AuditNext]_auditVars => Untouched'
  BY UntouchedStep
<1> QED BY <1>1, <1>2, UntouchedInit, FilesHold, PTL DEF AuditSpec

-----------------------------------------------------------------------------
(* What an accident does to a sound file *)

\* A file that is found to be in order has the hashes and the links that it should.
LEMMA PassesLinks ==
  ASSUME NEW s \in Seq(Lines), SegmentCode(s) \in Passes
  PROVE  /\ \A i \in DOMAIN s : s[i].body = s[i].hash
         /\ \A i \in DOMAIN s \ {1} : s[i].prev = s[i - 1].hash /\ s[i].seq = s[i - 1].seq + 1
<1> DEFINE wrong == {i \in DOMAIN s : s[i].body # s[i].hash}
           loose == {i \in DOMAIN s \ {1} : \/ s[i].prev # s[i - 1].hash
                                            \/ s[i].seq # s[i - 1].seq + 1}
<1>1. ChainCode(s) = "OK"
  BY CodeSays
<1>2. wrong \cup loose = {}
  <2>1. ChainCode(s) = IF wrong \cup loose = {} THEN "OK"
                       ELSE IF Max(wrong \cup loose) \in wrong THEN "HASH_MISMATCH" ELSE "CHAIN_BROKEN"
    BY DEF ChainCode
  <2> HIDE DEF wrong, loose
  <2> QED BY <1>1, <2>1
<1> QED BY <1>2

\* Lines altered, lost or swapped in a sound file are found; the last lines that are lost are not,
\* but they were those a rotation spoke of.
LEMMA AccidentBreaks ==
  ASSUME NEW s \in Seq(Lines), Sound(s), NEW x \in Accidents(s)
  PROVE  IF x[1] = "tail" THEN PointOf(x[2][Len(x[2])]) # PointOf(s[Len(s)])
         ELSE SegmentCode(x[2]) \notin Passes
<1> DEFINE t == x[2]
<1>0. /\ Len(s) \in Nat /\ DOMAIN s = 1..Len(s) /\ t \in Seq(Lines) /\ DOMAIN t = 1..Len(t) /\ t # <<>>
      /\ \A j \in 1..Len(s) : s[j] \in Lines
  BY LenProperties, ElementOfSeq, AccidentIs
<1>t. Len(t) \in Nat \ {0}
  BY <1>0, EmptySeq, LenProperties
<1>1. PICK i \in 1..Len(s) :
        \/ x[1] = "altered" /\ Altered(t, s, i)
        \/ x[1] = "lost" /\ i < Len(s) /\ Lost(t, s, i)
        \/ x[1] = "tail" /\ i = Len(s) /\ Lost(t, s, i)
        \/ x[1] = "swapped" /\ i < Len(s) /\ Swapped(t, s, i)
  BY AccidentIs
<1>s. /\ \A j \in 1..Len(s) : s[j].seq \in Nat /\ s[j].hash # 0
      /\ \A j \in 2..Len(s) : /\ s[j].prev = s[j - 1].hash /\ s[j].seq = s[j - 1].seq + 1
                              /\ s[j].kind # "LEDGER_ROTATED"
  <2>1. \A j \in 1..Len(s) : s[j].seq \in Nat
    BY <1>0 DEF Lines
  <2>2. \A j \in 2..Len(s) : j \in DOMAIN s \ {1}
    BY <1>0
  <2> QED BY <1>0, <2>1, <2>2 DEF Sound
<1> HIDE DEF t
<1>p. SegmentCode(t) \in Passes =>
        /\ \A j \in 1..Len(t) : t[j].body = t[j].hash
        /\ \A j \in 2..Len(t) : t[j].prev = t[j - 1].hash /\ t[j].seq = t[j - 1].seq + 1
        /\ t[1].kind # "LEDGER_ROTATED" => t[1].prev = 0
  <2>1. \A j \in 2..Len(t) : j \in DOMAIN t \ {1}
    BY <1>0
  <2> QED BY <1>0, <2>1, PassesLinks, CodeSays
<1>2. CASE x[1] = "altered" /\ Altered(t, s, i)
  <2>1. i \in 1..Len(t) /\ t[i] = [s[i] EXCEPT !.body = 0] /\ s[i] \in Lines /\ s[i].hash # 0
    BY <1>0, <1>2, <1>s DEF Altered
  <2>2. t[i].body = 0 /\ t[i].hash # 0
    BY <2>1 DEF Lines
  <2> QED BY <1>2, <1>p, <2>1, <2>2 DEF t
<1>3. CASE x[1] = "lost" /\ i < Len(s) /\ Lost(t, s, i)
  <2>1. Len(t) = Len(s) - 1 /\ \A j \in 1..Len(s) - 1 : t[j] = IF j < i THEN s[j] ELSE s[j + 1]
    BY <1>3 DEF Lost
  <2>2. CASE i = 1
    <3>1. 1 \in 1..Len(s) - 1 /\ ~(1 < i) /\ 2 \in 2..Len(s) /\ 2 - 1 = 1 /\ 1 \in 1..Len(s) /\ 1 + 1 = 2
      BY <1>0, <1>3, <2>2
    <3>2. t[1] = s[2]
      BY <2>1, <3>1
    <3>3. t[1].kind # "LEDGER_ROTATED" /\ t[1].prev # 0
      BY <1>s, <3>1, <3>2
    <3> QED BY <1>3, <1>p, <3>3 DEF t
  <2>3. CASE i # 1
    <3>1. /\ i \in 2..Len(t) /\ i \in 1..Len(s) - 1 /\ i - 1 \in 1..Len(s) - 1 /\ i - 1 < i
          /\ i \in 2..Len(s) /\ i + 1 \in 2..Len(s) /\ i - 1 \in 1..Len(s) /\ (i + 1) - 1 = i
      BY <1>0, <1>3, <2>1, <2>3
    <3>2. t[i] = s[i + 1] /\ t[i - 1] = s[i - 1]
      BY <1>0, <2>1, <3>1
    <3>3. s[i + 1].seq = s[i].seq + 1 /\ s[i].seq = s[i - 1].seq + 1 /\ s[i - 1].seq \in Nat
      BY <1>s, <3>1
    <3>4. t[i].seq # t[i - 1].seq + 1
      BY <3>2, <3>3
    <3> QED BY <1>3, <1>p, <3>1, <3>4 DEF t
  <2> QED BY <2>2, <2>3
<1>4. CASE x[1] = "tail" /\ i = Len(s) /\ Lost(t, s, i)
  <2>1. Len(t) = Len(s) - 1 /\ \A j \in 1..Len(s) - 1 : t[j] = IF j < i THEN s[j] ELSE s[j + 1]
    BY <1>4 DEF Lost
  <2>2. /\ Len(s) \in 2..Len(s) /\ Len(t) \in 1..Len(s) - 1 /\ Len(t) < i /\ Len(t) = Len(s) - 1
        /\ Len(t) \in 1..Len(s)
    BY <1>0, <1>4, <1>t, <2>1
  <2>3. t[Len(t)] = s[Len(s) - 1]
    BY <2>1, <2>2
  <2>4. s[Len(s)].seq = s[Len(s) - 1].seq + 1 /\ s[Len(s) - 1].seq \in Nat
    BY <1>s, <2>2
  <2>5. t[Len(t)].seq # s[Len(s)].seq
    BY <2>3, <2>4
  <2> QED BY <1>4, <2>5 DEF PointOf, t
<1>5. CASE x[1] = "swapped" /\ i < Len(s) /\ Swapped(t, s, i)
  <2>1. /\ i + 1 \in 2..Len(t) /\ (i + 1) - 1 = i /\ i \in 1..Len(s) /\ i + 1 \in 1..Len(s)
        /\ i + 1 \in 2..Len(s) /\ i + 1 # i
    BY <1>0, <1>5 DEF Swapped
  <2>2. t[i + 1] = s[i] /\ t[i] = s[i + 1]
    BY <1>5, <2>1 DEF Swapped
  <2>3. s[i + 1].seq = s[i].seq + 1 /\ s[i].seq \in Nat
    BY <1>s, <2>1
  <2>4. t[i + 1].seq # t[i].seq + 1
    BY <2>2, <2>3
  <2> QED BY <1>5, <1>p, <2>1, <2>4 DEF t
<1> QED BY <1>1, <1>2, <1>3, <1>4, <1>5

\* Two that speak of the same segment, and say the same of it.
Same(r, o) == r.kind = o.kind /\ r.seg = o.seg /\ r.sha = o.sha /\ r.of = o.of

\* The first line that is left is the one that was, or no LEDGER_ROTATED.
LEMMA FirstAfterAccident ==
  ASSUME NEW s \in Seq(Lines), Sound(s), NEW x \in Accidents(s)
  PROVE  /\ s # <<>>
         /\ x[2][1].kind = "LEDGER_ROTATED" => Same(x[2][1], s[1])
<1> DEFINE t == x[2]
<1>0. /\ Len(s) \in Nat /\ DOMAIN s = 1..Len(s) /\ t \in Seq(Lines) /\ t # <<>>
      /\ \A j \in 1..Len(s) : s[j] \in Lines
  BY LenProperties, ElementOfSeq, AccidentIs
<1>t. Len(t) \in Nat \ {0}
  BY <1>0, EmptySeq, LenProperties
<1>1. PICK i \in 1..Len(s) :
        \/ Altered(t, s, i)
        \/ Lost(t, s, i)
        \/ i < Len(s) /\ Swapped(t, s, i)
  BY AccidentIs
<1>s. \A j \in 2..Len(s) : s[j].kind # "LEDGER_ROTATED"
  <2>1. \A j \in 2..Len(s) : j \in DOMAIN s \ {1}
    BY <1>0
  <2> QED BY <2>1 DEF Sound
<1>e. s # <<>>
  BY <1>0, <1>1
<1> SUFFICES ASSUME t[1].kind = "LEDGER_ROTATED" PROVE Same(t[1], s[1])
  BY <1>e
<1> HIDE DEF t
<1>2. CASE Altered(t, s, i)
  <2>1. 1 \in 1..Len(s)
    BY <1>0, <1>1
  <2>2. t[1] = s[1] \/ t[1] = [s[1] EXCEPT !.body = 0]
    BY <1>2, <2>1 DEF Altered
  <2>3. s[1] \in Lines
    BY <1>0, <2>1
  <2> QED BY <2>2, <2>3 DEF Same, Lines
<1>3. CASE Lost(t, s, i)
  <2>1. 1 \in 1..Len(s) - 1 /\ 1 + 1 = 2 /\ 2 \in 2..Len(s)
    BY <1>0, <1>t, <1>3 DEF Lost
  <2>2. t[1] = s[1] \/ t[1] = s[2]
    BY <1>3, <2>1 DEF Lost
  <2> QED BY <1>s, <2>1, <2>2 DEF Same
<1>4. CASE i < Len(s) /\ Swapped(t, s, i)
  <2>1. 1 \in 1..Len(s) /\ 1 + 1 = 2 /\ 2 \in 2..Len(s) /\ (1 = i + 1 => FALSE)
    BY <1>0, <1>4
  <2>2. t[1] = s[1] \/ t[1] = s[2]
    BY <1>4, <2>1 DEF Swapped
  <2> QED BY <1>s, <2>1, <2>2 DEF Same
<1> QED BY <1>1, <1>2, <1>3, <1>4

-----------------------------------------------------------------------------
(* Damage stays *)

\* The entries of rotations that the walk may come to, in the files or about to be written.
Openings == {closed[m][1] : m \in {k \in Segments : closed[k] # <<>>}}
              \cup (IF active.lines = <<>> THEN {} ELSE {active.lines[1]})
Pending == {job[p] : p \in {q \in Procs : pc[q] = "line"}}
Refs == {r \in Openings \cup Pending : r.kind = "LEDGER_ROTATED"}

\* What they speak of is there; and a file is not in order, or, if it is a closed one, not what
\* any of them says.
BrokenClosed(n, files, refs) ==
  /\ files[n] # <<>>
  /\ SegmentCode(files[n]) \notin Passes \/ \A r \in refs : r.seg = n => ~Fits(files[n], r)
Broken(files, lines, refs) ==
  /\ \A r \in refs : r.seg \in Segments /\ files[r.seg] # <<>>
  /\ \/ lines # <<>> /\ SegmentCode(lines) \notin Passes
     \/ \E n \in Segments : BrokenClosed(n, files, refs)
Hurt == Broken(closed, active.lines, Refs)

\* More lines do not put a file in order.
LEMMA BrokenAppend ==
  ASSUME NEW s \in Seq(Lines), s # <<>>, NEW l \in Lines, SegmentCode(s) \notin Passes
  PROVE  SegmentCode(Append(s, l)) \notin Passes
<1>0. PICK t : t = Append(s, l)
  OBVIOUS
<1>1. /\ t \in Seq(Lines) /\ Len(t) = Len(s) + 1
      /\ \A i \in 1..Len(s) : t[i] = s[i]
  BY <1>0, AppendProperties
<1>2. Len(s) \in Nat \ {0} /\ DOMAIN s = 1..Len(s) /\ DOMAIN t = 1..Len(s) + 1
  BY <1>1, EmptySeq, LenProperties
<1>3. SUFFICES ASSUME SegmentCode(t) \in Passes PROVE SegmentCode(s) \in Passes
  BY <1>0
<1>4. \A i \in DOMAIN s : i \in DOMAIN t /\ t[i] = s[i]
  BY <1>1, <1>2
<1>5. \A i \in DOMAIN s \ {1} : i \in DOMAIN t \ {1} /\ i - 1 \in DOMAIN s
  BY <1>2
<1>6. 1 \in DOMAIN s
  BY <1>2
<1>7. \A i \in DOMAIN s : s[i].kind # "TORN"
  <2>1. \A i \in DOMAIN t : t[i].kind # "TORN"
    BY <1>3 DEF SegmentCode, Passes
  <2> QED BY <1>4, <2>1
<1>8. ChainCode(s) = "OK"
  <2>1. {i \in DOMAIN s : s[i].body # s[i].hash} = {}
    BY <1>1, <1>3, <1>4, PassesLinks
  <2>2. {i \in DOMAIN s \ {1} : s[i].prev # s[i - 1].hash \/ s[i].seq # s[i - 1].seq + 1} = {}
    <3>1. \A i \in DOMAIN t \ {1} : t[i].prev = t[i - 1].hash /\ t[i].seq = t[i - 1].seq + 1
      BY <1>1, <1>3, PassesLinks
    <3>2. ASSUME NEW i \in DOMAIN s \ {1}
          PROVE  s[i].prev = s[i - 1].hash /\ s[i].seq = s[i - 1].seq + 1
      <4>1. i \in DOMAIN t \ {1} /\ t[i] = s[i] /\ t[i - 1] = s[i - 1]
        BY <1>4, <1>5
      <4> QED BY <3>1, <4>1
    <3> QED BY <3>2
  <2> QED BY <2>1, <2>2 DEF ChainCode
<1>9. FirstCode(s[1]) \in Passes
  <2>1. t[1] = s[1]
    BY <1>4, <1>6
  <2>2. FirstCode(t[1]) = SegmentCode(t)
    <3>1. ChainCode(t) = "OK" /\ t # <<>>
      BY <1>1, <1>3, CodeSays
    <3>2. \A i \in DOMAIN t : t[i].kind # "TORN"
      BY <1>3 DEF SegmentCode, Passes
    <3> QED BY <3>1, <3>2 DEF SegmentCode
  <2> QED BY <1>3, <2>1, <2>2
<1> QED BY <1>7, <1>8, <1>9 DEF SegmentCode

\* A step of the ledger leaves the damage.
LEMMA HurtStep ==
  ASSUME TypeOK, Held, Files, Hurt, [Next]_vars, faults' = 0
  PROVE  Hurt'
<1> DEFINE Goal == Hurt'
<1> SUFFICES Goal
  OBVIOUS
<1>0. /\ active.lines \in Seq(Lines)
      /\ \A r \in Refs : r.seg \in Segments /\ closed[r.seg] # <<>>
  BY DEF TypeOK, File, Hurt, Broken
<1>1. CASE Stays
  <2>1. active'.lines = active.lines /\ closed' = closed
    BY <1>1 DEF Stays
  <2>2. Openings' = Openings
    BY <2>1 DEF Openings
  <2>3. \A q \in Procs : pc'[q] = "line" /\ job'[q].kind = "LEDGER_ROTATED" => pc[q] = "line" /\ job'[q] = job[q]
    BY <1>1 DEF Stays, AtFiles
  <2>4. Refs' \subseteq Refs
    BY <2>2, <2>3 DEF Refs, Pending
  <2> QED BY <2>1, <2>4 DEF Hurt, Broken, BrokenClosed
<1>2. ASSUME NEW p \in Procs, Writes(p) PROVE Goal
  <2>0. PICK l, s : l = LineOf(p) /\ s = active.lines
    OBVIOUS
  <2>1. /\ l \in Lines /\ active'.lines = Append(s, l) /\ s \in Seq(Lines) /\ closed' = closed
        /\ pc[p] = "line" /\ \A q \in Procs : pc'[q] # "line"
    BY <1>2, <2>0, WritesEntry DEF Writes, Leaves, AtFiles
  <2>2. Same(l, job[p])
    BY <2>0 DEF LineOf, Same
  <2>3. Append(s, l) # <<>> /\ Append(s, l)[1] = IF s = <<>> THEN l ELSE s[1]
    <3>1. /\ Append(s, l) \in Seq(Lines) /\ Len(Append(s, l)) = Len(s) + 1
          /\ \A i \in 1..Len(s) : Append(s, l)[i] = s[i]
          /\ Append(s, l)[Len(s) + 1] = l
      BY <2>1, AppendProperties
    <3>2. Len(s) \in Nat /\ (s = <<>> <=> Len(s) = 0)
      BY <2>1, EmptySeq, LenProperties
    <3>3. CASE s = <<>>
      BY <2>1, <3>1, <3>2, <3>3, AppendProperties
    <3>4. CASE s # <<>>
      <4>1. 1 \in 1..Len(s)
        BY <3>2, <3>4
      <4> QED BY <2>1, <3>1, <3>4, <4>1, AppendProperties
    <3> QED BY <3>3, <3>4
  <2>4. \A r \in Refs' : \E o \in Refs : Same(r, o)
    <3>1. Pending' = {}
      BY <2>1 DEF Pending
    <3>2. Openings' \subseteq Openings \cup (IF s = <<>> THEN {l} ELSE {})
      BY <2>0, <2>1, <2>3 DEF Openings
    <3>3. l.kind = "LEDGER_ROTATED" => job[p] \in Refs
      BY <2>1, <2>2 DEF Refs, Pending, Same
    <3>4. \A r : Same(r, r)
      BY DEF Same
    <3>5. Refs' = {r \in Openings' \cup Pending' : r.kind = "LEDGER_ROTATED"}
      BY DEF Refs
    <3>6. Refs = {r \in Openings \cup Pending : r.kind = "LEDGER_ROTATED"}
      BY DEF Refs
    <3>7. ASSUME NEW r \in Refs' PROVE \E o \in Refs : Same(r, o)
      <4>1. r \in Openings' /\ r.kind = "LEDGER_ROTATED"
        BY <3>1, <3>5, <3>7
      <4>2. CASE r \in Openings
        BY <3>4, <3>6, <4>1, <4>2
      <4>3. CASE r = l
        BY <2>2, <3>3, <4>1, <4>3
      <4> QED BY <3>2, <4>1, <4>2, <4>3
    <3> QED BY <3>7
  <2>5. s # <<>> /\ SegmentCode(s) \notin Passes => SegmentCode(Append(s, l)) \notin Passes
    BY <2>1, BrokenAppend
  <2> QED BY <1>0, <2>0, <2>1, <2>3, <2>4, <2>5 DEF Hurt, Broken, BrokenClosed, Same, Fits
<1>3. ASSUME NEW p \in Procs, NEW n \in Segments, Rotates(p, n) PROVE Goal
  <2>0. PICK s, f : s = active.lines /\ f = closed'
    OBVIOUS
  <2>1. /\ active'.lines = <<>> /\ closed[n] = <<>> /\ f[n] = s
        /\ \A m \in Segments \ {n} : f[m] = closed[m]
    BY <1>3, <2>0, RotatesEntries
  <2>2. s # <<>>
    BY <1>3, <2>0 DEF Rotates, Held, WholeTail, Empty
  <2>3. job'[p].seg = n /\ \A q \in Procs : pc'[q] = "line" => q = p
    BY <1>3 DEF Rotates, AtFiles
  <2>4. Openings' \subseteq Openings
    BY <2>0, <2>1, <2>2 DEF Openings
  <2>5. Pending' \subseteq {job'[p]}
    BY <2>3 DEF Pending
  <2>6. Refs' \subseteq Refs \cup {job'[p]}
    <3>1. Refs' = {r \in Openings' \cup Pending' : r.kind = "LEDGER_ROTATED"}
      BY DEF Refs
    <3> QED BY <2>4, <2>5, <3>1 DEF Refs
  <2>7. \A r \in Refs' : r.seg \in Segments /\ f[r.seg] # <<>>
    BY <1>0, <2>1, <2>2, <2>3, <2>6
  <2>8. CASE SegmentCode(s) \notin Passes
    BY <2>0, <2>1, <2>2, <2>7, <2>8 DEF Hurt, Broken, BrokenClosed
  <2>9. ASSUME NEW m \in Segments, BrokenClosed(m, closed, Refs) PROVE Goal
    <3>1. m # n /\ f[m] = closed[m]
      BY <2>1, <2>9 DEF BrokenClosed
    <3>2. BrokenClosed(m, f, Refs')
      BY <2>3, <2>6, <2>9, <3>1 DEF BrokenClosed
    <3> QED BY <2>0, <2>7, <3>2 DEF Hurt, Broken
  <2> QED BY <2>0, <2>8, <2>9 DEF Hurt, Broken
<1> HIDE DEF Goal
<1> QED BY <1>1, <1>2, <1>3, FileStep DEF Tears

\* An accident to a sound ledger does damage.
LEMMA AccidentHurts ==
  ASSUME TypeOK, Held, Linked, Accident, damages' \cap {"altered", "lost", "swapped"} # {}, damages = {}
  PROVE  Hurt'
<1> DEFINE Goal == Hurt'
<1> SUFFICES Goal
  OBVIOUS
<1>0. /\ active.lines \in Seq(Lines) /\ closed \in [Segments -> Seq(Lines)]
      /\ OldOnes(closed) /\ NewOne(closed, active.lines)
  BY DEF TypeOK, File, Linked
<1>p. Pending' = {}
  <2>1. \A p \in Procs : pc'[p] # "line"
    BY LedgerAssumption DEF Accident, Held
  <2> QED BY <2>1 DEF Pending
<1>r. Refs' = {r \in Openings' : r.kind = "LEDGER_ROTATED"}
  BY <1>p DEF Refs
\* All that the openings say of closed segments is so.
<1>o. \A r \in Openings : r.kind = "LEDGER_ROTATED" => r.seg \in Segments /\ closed[r.seg] # <<>> /\ Fits(closed[r.seg], r)
  BY <1>0 DEF Openings, OldOnes, NewOne, Rooted
<1>s. \A r : Same(r, r)
  BY DEF Same
<1>1. CASE /\ UNCHANGED closed
           /\ \E x \in Accidents(active.lines) : /\ active' = [active EXCEPT !.lines = x[2]]
                                                 /\ damages' = damages \cup {x[1]}
  <2>1. PICK x \in Accidents(active.lines) : /\ active' = [active EXCEPT !.lines = x[2]]
                                             /\ damages' = damages \cup {x[1]}
    BY <1>1
  <2>2. PICK s, t : s = active.lines /\ t = x[2]
    OBVIOUS
  <2>3. active'.lines = t /\ x[1] # "tail"
    BY <2>1, <2>2 DEF TypeOK, File
  <2>4. s # <<>> /\ t # <<>> /\ (t[1].kind = "LEDGER_ROTATED" => Same(t[1], s[1])) /\ Sound(s)
    <3>1. s # <<>>
      <4>1. Len(s) \in Nat /\ \E i \in 1..Len(s) : TRUE
        BY <1>0, <2>2, AccidentIs, LenProperties
      <4> QED BY <1>0, <2>2, <4>1, EmptySeq
    <3>2. Sound(s)
      BY <1>0, <2>2, <3>1 DEF NewOne
    <3> QED BY <1>0, <2>2, <3>1, <3>2, AccidentIs, FirstAfterAccident
  <2>5. SegmentCode(t) \notin Passes
    BY <1>0, <2>2, <2>3, <2>4, AccidentBreaks
  <2>6. \A r \in Refs' : \E o \in Openings : Same(r, o)
    BY <1>1, <1>r, <1>s, <2>2, <2>3, <2>4 DEF Openings
  <2>7. \A r \in Refs' : r.seg \in Segments /\ closed'[r.seg] # <<>>
    BY <1>1, <1>o, <1>r, <2>6 DEF Same
  <2> QED BY <2>3, <2>4, <2>5, <2>7 DEF Hurt, Broken
<1>2. CASE /\ UNCHANGED active
           /\ \E n \in Segments : \E x \in Accidents(closed[n]) : closed' = [closed EXCEPT ![n] = x[2]]
  <2>1. PICK n \in Segments : \E x \in Accidents(closed[n]) : closed' = [closed EXCEPT ![n] = x[2]]
    BY <1>2
  <2>0. PICK x \in Accidents(closed[n]) : closed' = [closed EXCEPT ![n] = x[2]]
    BY <2>1
  <2>2. PICK s, t, f : s = closed[n] /\ t = x[2] /\ f = closed'
    OBVIOUS
  <2>3. f[n] = t /\ s \in Seq(Lines) /\ \A m \in Segments \ {n} : f[m] = closed[m]
    BY <1>0, <2>0, <2>2
  <2>4. s # <<>> /\ t # <<>> /\ (t[1].kind = "LEDGER_ROTATED" => Same(t[1], s[1])) /\ Sound(s)
    <3>1. s # <<>>
      <4>1. Len(s) \in Nat /\ \E i \in 1..Len(s) : TRUE
        BY <2>2, <2>3, AccidentIs, LenProperties
      <4> QED BY <2>3, <4>1, EmptySeq
    <3>2. Sound(s)
      BY <1>0, <2>2, <3>1 DEF OldOnes
    <3> QED BY <2>2, <2>3, <3>1, <3>2, AccidentIs, FirstAfterAccident
  <2>6. \A r \in Refs' : \E o \in Openings : o.kind = "LEDGER_ROTATED" /\ Same(r, o)
    <3>1. ASSUME NEW r \in Refs' PROVE \E o \in Openings : Same(r, o)
      <4>1. r \in Openings' /\ r.kind = "LEDGER_ROTATED"
        BY <1>r, <3>1
      <4>2. CASE r \in Openings
        BY <1>s, <4>2
      <4>3. CASE r = t[1]
        <5>1. s[1] \in Openings
          BY <2>2, <2>4 DEF Openings
        <5> QED BY <2>4, <4>1, <4>3, <5>1
      <4>4. Openings' \subseteq Openings \cup {t[1]}
        BY <1>2, <2>2, <2>3 DEF Openings
      <4> QED BY <4>1, <4>2, <4>3, <4>4
    <3>2. \A r \in Refs' : r.kind = "LEDGER_ROTATED"
      BY <1>r
    <3> QED BY <3>1, <3>2 DEF Same
  <2>7. \A r \in Refs' : r.seg \in Segments /\ f[r.seg] # <<>>
    BY <1>o, <2>2, <2>3, <2>4, <2>6 DEF Same
  <2>8. BrokenClosed(n, f, Refs')
    <3>1. CASE x[1] # "tail"
      BY <2>2, <2>3, <2>4, <3>1, AccidentBreaks DEF BrokenClosed
    <3>2. CASE x[1] = "tail"
      <4>1. PointOf(t[Len(t)]) # PointOf(s[Len(s)])
        BY <2>2, <2>3, <2>4, <3>2, AccidentBreaks
      <4>2. ASSUME NEW r \in Refs', r.seg = n PROVE ~Fits(t, r)
        <5>1. PICK o \in Openings : o.kind = "LEDGER_ROTATED" /\ Same(r, o)
          BY <2>6, <4>2
        <5>2. Fits(s, o) /\ r.of = o.of
          BY <1>o, <2>2, <4>2, <5>1 DEF Same
        <5> QED BY <4>1, <5>2 DEF Fits
      <4> QED BY <2>3, <2>4, <4>2 DEF BrokenClosed
    <3> QED BY <3>1, <3>2
  <2> QED BY <2>2, <2>7, <2>8 DEF Hurt, Broken
<1> HIDE DEF Goal
<1> QED BY <1>1, <1>2 DEF Accident

\* The walk has not met the damage yet.
Stuck(v, lo, hi) ==
  /\ v.code \notin {"EMPTY", "SEGMENT_MISSING"}
  /\ v.code \in Passes => v.code = "GOES_ON" /\ Leads(v) /\ Above(v.at, lo, hi) /\ v.at[1] \in Refs

\* A file with lines is neither empty nor missing.
LEMMA CodeOfLines ==
  ASSUME NEW s, s # <<>>
  PROVE  SegmentCode(s) \notin {"EMPTY", "SEGMENT_MISSING"}
BY DEF SegmentCode, ChainCode, FirstCode

\* The walk does not get past the damage.
LEMMA DamageIsMet ==
  ASSUME TypeOK, Files, Cuts, Hurt, ~bare, ~Empty, active.here
  PROVE  Walk(active).code \notin {"GENESIS", "EMPTY", "SEGMENT_MISSING"}
<1>0. MaxCalls \in Nat /\ active.lines # <<>> /\ active.lines \in Seq(Lines)
  BY LedgerAssumption DEF Empty, TypeOK, File
<1>1. PICK w : /\ w[0] = Begin(active) /\ Walk(active) = w[MaxCalls]
               /\ \A k \in Nat : k < MaxCalls => w[k + 1] = After(w[k])
  BY WalkRuns
<1>b. w[0].code = SegmentCode(active.lines)
  BY <1>1 DEF Begin
<1>c. SegmentCode(active.lines) \notin {"EMPTY", "SEGMENT_MISSING"}
  BY <1>0, CodeOfLines
<1>2. CASE SegmentCode(active.lines) \notin Passes
  <2>1. w[MaxCalls] = w[0]
    BY <1>0, <1>1, <1>2, <1>b, WalkStops DEF Passes
  <2> QED BY <1>1, <1>2, <1>b, <1>c, <2>1 DEF Passes
<1>3. ASSUME NEW n \in Segments, BrokenClosed(n, closed, Refs)
      PROVE  Walk(active).code \notin {"GENESIS", "EMPTY", "SEGMENT_MISSING"}
  <2>1. PICK lo \in Nat, hi \in Nat : Cut(n, lo, hi)
    BY <1>3 DEF BrokenClosed, Cuts
  <2>l. lo \in Nat \ {0}
    BY <2>1 DEF Cut
  <2> DEFINE P == {k \in Nat : k <= MaxCalls => Stuck(w[k], lo, hi)}
  <2>2. 0 \in P
    <3>1. PICK v, s : v = Begin(active) /\ s = active.lines
      OBVIOUS
    <3>2. SUFFICES ASSUME v.code \in Passes
                   PROVE  v.code = "GOES_ON" /\ Leads(v) /\ Above(v.at, lo, hi) /\ v.at[1] \in Refs
      BY <1>1, <1>b, <1>c, <3>1 DEF Stuck
    <3>3. SegmentCode(s) = v.code /\ v.at = s /\ Leads(v)
      BY <3>1, <3>2, BeginSays
    <3>4. Above(s, lo, hi)
      BY <2>1, <3>1 DEF Cut
    <3>5. SegmentCode(s) = "GOES_ON"
      BY <1>0, <2>l, <3>1, <3>2, <3>3, <3>4, AbovePasses
    <3>6. s[1].kind = "LEDGER_ROTATED"
      BY <1>0, <3>1, <3>2, <3>3, <3>5, CodeSays
    <3>7. s[1] \in Refs
      BY <1>0, <3>1, <3>6 DEF Refs, Openings
    <3> QED BY <3>3, <3>4, <3>5, <3>7
  <2>3. ASSUME NEW k \in Nat, k \in P PROVE k + 1 \in P
    <3>1. SUFFICES ASSUME k + 1 <= MaxCalls PROVE Stuck(w[k + 1], lo, hi)
      OBVIOUS
    <3>2. Stuck(w[k], lo, hi) /\ w[k + 1] = After(w[k])
      BY <1>0, <1>1, <2>3, <3>1
    <3>3. PICK v : v = w[k]
      OBVIOUS
    <3>4. CASE v.code # "GOES_ON"
      <4>1. After(v) = v
        BY <3>4 DEF After
      <4> QED BY <3>2, <3>3, <4>1
    <3>5. CASE v.code = "GOES_ON"
      <4>1. Leads(v) /\ Above(v.at, lo, hi) /\ v.at[1] \in Refs
        BY <3>2, <3>3, <3>5 DEF Stuck, Passes
      <4>2. PICK m, r : m = r.seg /\ r = v.at[1]
        OBVIOUS
      <4>3. m \in Segments /\ closed[m] # <<>>
        BY <4>1, <4>2 DEF Hurt, Broken
      <4>4. After(v).code = IF Fits(closed[m], r) THEN SegmentCode(closed[m]) ELSE "ROTATION_LINK_BROKEN"
        BY <3>5, <4>2, <4>3 DEF After
      <4>5. After(v).code \notin {"EMPTY", "SEGMENT_MISSING"}
        BY <4>3, <4>4, CodeOfLines
      <4>6. SUFFICES ASSUME After(v).code \in Passes
                     PROVE  /\ After(v).code = "GOES_ON" /\ Leads(After(v))
                            /\ Above(After(v).at, lo, hi) /\ After(v).at[1] \in Refs
        BY <3>2, <3>3, <4>5 DEF Stuck
      <4>7. /\ closed[m] \in Seq(Lines) /\ Fits(closed[m], r) /\ SegmentCode(closed[m]) = After(v).code
            /\ After(v).at = closed[m] /\ Leads(After(v))
        BY <3>5, <4>1, <4>2, <4>6, AfterSays
      <4>8. m # n
        BY <1>3, <4>1, <4>2, <4>6, <4>7 DEF BrokenClosed
      <4>9. Above(closed[m], lo, hi)
        <5>1. PICK e : e = closed[m][Len(closed[m])]
          OBVIOUS
        <5>2. e \in EntriesIn(closed[m]) /\ e \in Lines
          BY <4>6, <4>7, <5>1, CodeSays
        <5>3. e.hash = r.of.hash /\ r.of.hash = r.prev /\ lo <= r.prev
          BY <3>5, <4>1, <4>2, <4>7, <5>1 DEF Fits, PointOf, Leads, Above
        <5>4. e.hash \in Nat /\ lo <= e.hash
          BY <5>2, <5>3 DEF Lines
        <5>5. ~(e.hash < lo)
          BY <2>l, <5>4
        <5>6. ~Below(closed[m], lo)
          BY <5>2, <5>5 DEF Below
        <5> QED BY <2>1, <4>3, <4>8, <5>6 DEF Cut
      <4>10. After(v).code = "GOES_ON"
        BY <2>l, <4>6, <4>7, <4>9, AbovePasses
      <4>11. closed[m][1].kind = "LEDGER_ROTATED"
        BY <4>6, <4>7, <4>10, CodeSays
      <4>12. closed[m][1] \in Refs
        BY <4>3, <4>11 DEF Refs, Openings
      <4> QED BY <4>7, <4>9, <4>10, <4>12
    <3> QED BY <3>4, <3>5
  <2>4. Nat \subseteq P
    <3> HIDE DEF P
    <3> QED BY <2>2, <2>3, NatSetInduction
  <2>5. Stuck(w[MaxCalls], lo, hi)
    BY <1>0, <2>4
  <2> QED BY <1>1, <2>5 DEF Stuck, Passes
<1> QED BY <1>2, <1>3 DEF Hurt, Broken

\* At most one accident: a file with lines is there, and what was done to it is not undone.
OnceHurt ==
  /\ MaxDamages <= 1
  /\ damages = {} \/ \E x : damages = {x}
  /\ active.lines # <<>> => active.here
  /\ damages \cap {"altered", "lost", "swapped"} # {} /\ moved = {} /\ ~bare => Hurt

\* At first nothing has happened.
LEMMA OnceHurtInit == MaxDamages <= 1 /\ AuditInit => OnceHurt
BY DEF OnceHurt, AuditInit, Init, NoFile

\* Every step keeps the damage of the one accident.
LEMMA OnceHurtStep ==
  ASSUME Kept, Kept', Untouched, OnceHurt, [AuditNext]_auditVars
  PROVE  OnceHurt'
<1> DEFINE Goal == OnceHurt'
<1> SUFFICES Goal
  OBVIOUS
<1>0. TypeOK /\ Held /\ Files /\ TypeOK'
  BY DEF Kept
<1>1. ASSUME [Next]_vars, UNCHANGED <<damages, moved>>, AuditNext \/ UNCHANGED auditVars PROVE Goal
  <2>1. active'.lines # <<>> => active'.here
    <3>1. CASE Stays
      BY <3>1 DEF Stays, OnceHurt
    <3>2. ASSUME NEW l, With(l) PROVE active'.here
      BY <3>2 DEF With
    <3>3. ASSUME NEW p \in Procs, NEW n \in Segments, Rotates(p, n) PROVE active'.lines = <<>>
      BY <1>0, <3>3, RotatesEntries
    <3> QED BY <1>0, <1>1, <3>1, <3>2, <3>3, FileStep DEF Writes, Tears
  <2>2. ASSUME damages \cap {"altered", "lost", "swapped"} # {}, moved = {}, ~bare' PROVE Hurt'
    <3>1. ~bare /\ Hurt
      BY <1>0, <1>1, <2>2, BareStays DEF OnceHurt
    <3>2. CASE AuditNext
      <4>1. faults' = 0
        BY <1>0, <1>1, <2>2, <3>2, HarmIsApart DEF AuditNext
      <4> QED BY <1>0, <1>1, <3>1, <4>1, HurtStep
    <3>3. CASE UNCHANGED auditVars
      <4>1. active' = active /\ closed' = closed /\ pc' = pc /\ job' = job
        BY <3>3 DEF auditVars, vars, disk
      <4>2. Refs' = Refs
        BY <4>1 DEF Refs, Openings, Pending
      <4> QED BY <3>1, <4>1, <4>2 DEF Hurt
    <3> QED BY <1>1, <3>2, <3>3
  <2> QED BY <1>1, <2>1, <2>2 DEF OnceHurt
<1>2. ASSUME AuditNext, Cardinality(damages) < MaxDamages PROVE damages = {}
  <2>1. ASSUME NEW x, damages = {x} PROVE FALSE
    <3>1. Cardinality(damages) = 1
      BY <2>1, FS_Singleton
    <3>2. MaxDamages \in Nat
      BY LedgerAuditAssumption
    <3> QED BY <1>2, <3>1, <3>2 DEF OnceHurt
  <2> QED BY <2>1 DEF OnceHurt
<1>3. CASE AuditNext /\ Accident
  <2>1. damages = {}
    BY <1>2, <1>3 DEF Accident
  <2>2. (\E x : damages' = {x}) /\ damages' # {}
    BY <1>3, <2>1 DEF Accident
  <2>3. active'.here = active.here /\ (active'.lines # <<>> => active.lines # <<>>) /\ moved' = moved /\ bare' = bare
    <3>1. Harms /\ moved' = moved
      BY <1>0, <1>3, AccidentHarms
    <3>2. active'.here = active.here
      BY <1>0, <1>3 DEF Accident, TypeOK, File
    <3>3. active'.lines # <<>> => active.lines # <<>>
      <4>1. active.lines \in Seq(Lines) /\ active'.lines \in Seq(Lines)
        BY <1>0, <3>1 DEF TypeOK, File, Harms
      <4>2. active'.lines # <<>> => 1 \in DOMAIN active'.lines
        BY <4>1, EmptySeq, LenProperties
      <4> QED BY <3>1, <4>2 DEF Harms, From
    <3> QED BY <3>1, <3>2, <3>3 DEF Harms
  <2>4. ASSUME damages' \cap {"altered", "lost", "swapped"} # {}, moved' = {} PROVE Hurt'
    <3>1. faults' = 0
      BY <1>0, <1>3, <2>2, HarmIsApart DEF AuditNext
    <3>2. faults = 0
      BY <1>3, <3>1 DEF Accident
    <3>3. Linked
      BY <1>0, <2>1, <2>3, <2>4, <3>2 DEF Untouched, Files, IsTorn
    <3> QED BY <1>0, <1>3, <2>1, <2>4, <3>3, AccidentHurts
  <2> QED BY <2>2, <2>3, <2>4 DEF OnceHurt
<1>4. CASE AuditNext /\ Restore
  <2>1. damages = {}
    BY <1>2, <1>4 DEF Restore
  <2>2. damages' = {"restored"}
    BY <1>4, <2>1 DEF Restore
  <2>3. active'.here
    <3>1. PICK k \in 1..(Len(active.lines) - 1) : active' = [active EXCEPT !.lines = SubSeq(active.lines, 1, k)]
      BY <1>4 DEF Restore
    <3>2. active.lines # <<>>
      <4>1. active.lines \in Seq(Lines) /\ Len(active.lines) \in Nat
        BY <1>0, LenProperties DEF TypeOK, File
      <4>2. Len(active.lines) # 0
        BY <3>1, <4>1
      <4> QED BY <4>2
    <3> QED BY <1>0, <3>1, <3>2 DEF OnceHurt, TypeOK, File
  <2>4. damages' \cap {"altered", "lost", "swapped"} = {}
    BY <2>2
  <2> QED BY <2>2, <2>3, <2>4 DEF OnceHurt
<1>5. ASSUME NEW n \in Segments, Archive(n) PROVE Goal
  <2>1. moved' # {} /\ active' = active /\ damages' = damages
    BY <1>5 DEF Archive
  <2> QED BY <2>1 DEF OnceHurt
<1> HIDE DEF Goal
<1>6. CASE AuditOpen \/ AuditReports \/ UNCHANGED auditVars
  <2>1. UNCHANGED <<vars, damages, moved>>
    BY <1>6 DEF AuditOpen, AuditReports, auditVars
  <2>2. active' = active /\ closed' = closed /\ pc' = pc /\ job' = job /\ bare' = bare
    BY <2>1 DEF vars, disk
  <2>3. Refs' = Refs
    BY <2>2 DEF Refs, Openings, Pending
  <2> QED BY <2>1, <2>2, <2>3 DEF OnceHurt, Hurt, Goal
<1> QED BY <1>1, <1>3, <1>4, <1>5, <1>6 DEF AuditNext

\* One accident that alters, loses or swaps lines, in the active file or a closed one, is found
\* ever after, whatever is appended or rotated on top.  Only of one: to swap the same two lines
\* once more heals them.
THEOREM DamageIsFound == MaxDamages <= 1 /\ AuditSpec => []DamageIsDetected
<1>1. Kept /\ OnceHurt => DamageIsDetected
  <2>1. SUFFICES ASSUME Kept, OnceHurt, damages \cap {"altered", "lost", "swapped"} # {}, moved = {}, ~bare, ~Empty
                 PROVE  ~Verify(active, published).ok
    BY DEF DamageIsDetected
  <2>2. Walk(active).code \notin {"GENESIS", "EMPTY", "SEGMENT_MISSING"}
    BY <2>1, DamageIsMet DEF Kept, OnceHurt, Empty
  <2> QED BY <2>2 DEF Verify
<1>2. MaxDamages <= 1 /\ AuditInit => OnceHurt
  BY OnceHurtInit
<1>3. Kept /\ Kept' /\ Untouched /\ OnceHurt /\ [AuditNext]_auditVars => OnceHurt'
  BY OnceHurtStep
<1>4. Kept /\ Untouched /\ [AuditNext]_auditVars => Untouched'
  BY UntouchedStep
<1> QED BY <1>1, <1>2, <1>3, <1>4, UntouchedInit, FilesHold, PTL DEF AuditSpec
=============================================================================
