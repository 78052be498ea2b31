---------------------------- MODULE LedgerAudit ----------------------------
(***************************************************************************)
(* Ledger.verify() of deadman/ledger.py, run by an auditor while the       *)
(* processes of Ledger write, and what else happens to the files: lines    *)
(* that are lost, altered or swapped, and closed segments moved elsewhere. *)
(*                                                                         *)
(* verify() takes no lock: the active file is read first, the segments it  *)
(* leads to and the anchors later.  Missing fields and signatures are left *)
(* out, and from_seq, which the code ignores.                              *)
(***************************************************************************)
EXTENDS Ledger, SequencesExt

CONSTANTS
  MaxDamages,   \* bound: accidents that happen to the files
  MaxArchived   \* bound: closed segments moved elsewhere

ASSUME LedgerAuditAssumption == {MaxDamages, MaxArchived} \subseteq Nat

VARIABLES
  view,      \* the active file as the auditor at work has read it; none when it is not
  report,    \* the last VerifyReport
  damages,   \* history: the accidents so far
  moved      \* history: numbers of the closed segments that were moved elsewhere

auditVars == <<vars, view, report, damages, moved>>

-----------------------------------------------------------------------------
(* verify() *)

\* Mutant: the segment is not compared with what was closed.
Fits_Any(lines, rotated) == TRUE
\* The entry that rotate() wrote and the segment it closed agree.
Fits(lines, rotated) ==
  Digest(lines) = rotated.sha /\ PointOf(lines[Len(lines)]) = rotated.of

\* One segment, from its last line to its first: the hash of each, then its link to the one
\* before.  The answer of the first line that is wrong, or OK.
ChainCode(lines) ==
  LET wrong == {i \in DOMAIN lines : lines[i].body # lines[i].hash}
      loose == {i \in DOMAIN lines \ {1} : \/ lines[i].prev # lines[i - 1].hash
                                           \/ lines[i].seq # lines[i - 1].seq + 1}
  IN IF wrong \cup loose = {} THEN "OK"
     ELSE IF Max(wrong \cup loose) \in wrong THEN "HASH_MISMATCH" ELSE "CHAIN_BROKEN"

\* Mutant: a LEDGER_ROTATED is as good as the first entry of all.
FirstCode_StopsHere(first) ==
  IF first.kind = "LEDGER_ROTATED" \/ (first.prev = 0 /\ first.seq = 1)
  THEN "GENESIS" ELSE "NO_GENESIS"
\* Mutant: the entry takes the number of the last one it closes.
FirstCode_OffByOne(first) ==
  IF first.kind = "LEDGER_ROTATED"
  THEN IF first.of.hash = first.prev /\ first.of.seq = first.seq
       THEN "GOES_ON" ELSE "ROTATION_LINK_BROKEN"
  ELSE IF first.prev = 0 /\ first.seq = 1 THEN "GENESIS" ELSE "NO_GENESIS"
\* Where the first entry of a segment leads.
FirstCode(first) ==
  IF first.kind = "LEDGER_ROTATED"
  THEN IF first.of.hash = first.prev /\ first.of.seq + 1 = first.seq
       THEN "GOES_ON" ELSE "ROTATION_LINK_BROKEN"
  ELSE IF first.prev = 0 /\ first.seq = 1 THEN "GENESIS" ELSE "NO_GENESIS"

SegmentCode(lines) ==
  CASE \E i \in DOMAIN lines : lines[i].kind = "TORN" -> "MALFORMED_LINE"
    [] lines = <<>> -> "EMPTY"
    [] OTHER -> IF ChainCode(lines) = "OK" THEN FirstCode(lines[1]) ELSE ChainCode(lines)

\* The walk, segment by segment: where it is, and the points of the entries it has seen.
Seen(lines) == {PointOf(lines[i]) : i \in DOMAIN lines}
Walk(file) ==
  LET w[k \in 0..MaxCalls] ==
        IF k = 0
        THEN [code |-> IF file.here THEN SegmentCode(file.lines) ELSE "SEGMENT_MISSING",
              at   |-> file.lines, seen |-> Seen(file.lines)]
        ELSE LET was     == w[k - 1]
                 rotated == was.at[1]
                 lines   == closed[rotated.seg]
             IN IF was.code # "GOES_ON" THEN was
                ELSE [code |-> IF lines = <<>> THEN "SEGMENT_MISSING"
                               ELSE IF Fits(lines, rotated) THEN SegmentCode(lines)
                               ELSE "ROTATION_LINK_BROKEN",
                      at   |-> lines, seen |-> was.seen \cup Seen(lines)]
  IN w[MaxCalls]

\* Mutant: the anchors are not compared.
Contradicts_Never(dated, seen) == FALSE
\* An anchor of an entry that was seen has another hash.
Contradicts(dated, seen) == \E a \in dated, s \in seen : a.seq = s.seq /\ a.hash # s.hash

\* verify(anchors = dated), the active file having been read as file.
Verify(file, dated) ==
  LET end  == Walk(file)
      code == IF end.code \in {"GENESIS", "SEGMENT_MISSING"} /\ Contradicts(dated, end.seen)
              THEN "ANCHOR_MISMATCH" ELSE end.code
  IN [code |-> code,
      ok |-> code \in {"GENESIS", "SEGMENT_MISSING", "EMPTY"},
      complete |-> code \in {"GENESIS", "EMPTY"}]

-----------------------------------------------------------------------------

NoView   == [here |-> FALSE, lines |-> <<>>, busy |-> FALSE]
NoReport == [code |-> "none", ok |-> TRUE, complete |-> FALSE]

\* The auditor opens the active file, or finds none.  Bound: while the files are whole; where they
\* are damaged or moved, the invariants themselves ask Verify in every state.
AuditOpen ==
  /\ ~view.busy /\ damages = {} /\ moved = {}
  /\ view' = [here |-> active.here, lines |-> active.lines, busy |-> TRUE]
  /\ UNCHANGED <<vars, report, damages, moved>>

\* It walks, and compares with anchors.jsonl or with what the third party holds.
AuditReports ==
  /\ view.busy
  /\ \E dated \in {anchors, published} : report' = Verify(view, dated)
  /\ view' = NoView
  /\ UNCHANGED <<vars, damages, moved>>

\* What an accident makes of the lines of a file that keeps at least one.
Accidents(lines) ==
  {<<"altered", [lines EXCEPT ![i].body = 0]>> : i \in DOMAIN lines}
    \cup {<<"lost", RemoveAt(lines, i)>> : i \in DOMAIN lines \ {Len(lines)}}
    \cup {<<"tail", Front(lines)>> : i \in {j \in DOMAIN lines : j > 1 /\ j = Len(lines)}}
    \cup {<<"swapped", [lines EXCEPT ![i] = lines[i + 1], ![i + 1] = lines[i]]>> :
            i \in DOMAIN lines \ {Len(lines)}}

\* Something happens to a file that nobody is writing.
Accident ==
  /\ Cardinality(damages) < MaxDamages
  /\ lock = NoProc /\ ~view.busy
  /\ \/ \E x \in Accidents(active.lines) :
          /\ active' = [active EXCEPT !.lines = x[2]]
          /\ damages' = damages \cup {x[1]}
          /\ UNCHANGED closed
     \/ \E n \in Segments : \E x \in Accidents(closed[n]) :
          /\ closed' = [closed EXCEPT ![n] = x[2]]
          /\ damages' = damages \cup {IF x[1] = "tail" THEN "lost" ELSE x[1]}
          /\ UNCHANGED active
  /\ UNCHANGED <<tip, anchors, flag, lock, pc, job, mem, published, minted, bare,
                 calls, crashes, faults, view, report, moved>>

\* An older copy of the active file and of chain_state.json is put back.
Restore ==
  /\ Cardinality(damages) < MaxDamages
  /\ lock = NoProc /\ ~view.busy
  /\ \E k \in 1..(Len(active.lines) - 1) :
       /\ active' = [active EXCEPT !.lines = SubSeq(@, 1, k)]
       /\ tip' = PointOf(active.lines[k])
  /\ damages' = damages \cup {"restored"}
  /\ UNCHANGED <<closed, anchors, flag, lock, pc, job, mem, published, minted, bare,
                 calls, crashes, faults, view, report, moved>>

\* The operator moves a closed segment elsewhere.
Archive(n) ==
  /\ closed[n] # <<>>
  /\ Cardinality(moved) < MaxArchived
  /\ lock = NoProc /\ ~view.busy
  /\ closed' = [closed EXCEPT ![n] = <<>>]
  /\ moved' = moved \cup {n}
  /\ UNCHANGED <<active, tip, anchors, flag, lock, pc, job, mem, published, minted, bare,
                 calls, crashes, faults, view, report, damages>>

AuditInit == Init /\ view = NoView /\ report = NoReport /\ damages = {} /\ moved = {}

\* Bound: where files are damaged or moved, no writer dies or fails.
Apart == (damages = {} /\ moved = {}) \/ crashes + faults = 0

AuditNext ==
  /\ \/ Next /\ UNCHANGED <<view, report, damages, moved>>
     \/ AuditOpen \/ AuditReports
     \/ Accident \/ Restore
     \/ \E n \in Segments : Archive(n)
  /\ Apart'

AuditSpec == AuditInit /\ [][AuditNext]_auditVars

-----------------------------------------------------------------------------
(* Properties *)

IsTorn == \E i \in DOMAIN active.lines : active.lines[i].kind = "TORN"

\* verify() runs while others append, rotate, anchor, fail and die, and reads each file at
\* another time.  As long as no file was damaged or moved, no line torn and (OneChain) no bare
\* ledger rotated, it finds no fault.
AuditNeverAccuses == damages = {} /\ moved = {} /\ ~IsTorn /\ ~bare => report.ok

\* Code OK, chain complete, is said of the whole ledger: no entry on disk was left out.
OkSeesAll ==
  damages = {} /\ ~bare /\ Verify(active, published).code = "GENESIS" =>
    {PointOf(e) : e \in Entries} = Walk(active).seen

\* Lines lost, altered or swapped, in the active file or a closed one, are found ever after,
\* whatever is appended or rotated on top.  (The last lines of the active file are another
\* matter, and so is a ledger without its active file or the segments that lead to the damage.)
DamageIsDetected ==
  damages \cap {"altered", "lost", "swapped"} # {} /\ moved = {} /\ ~bare /\ ~Empty =>
    ~Verify(active, published).ok

\* "never a plain OK": a ledger with a closed segment moved elsewhere is not called complete.
MissingIsNeverOk ==
  moved # {} /\ ~bare => Verify(active, published).code # "GENESIS"

\* A ledger that is complete, and that its anchors do not contradict, holds everything a third
\* party dated, as far as it goes: also when an old copy was put back and written on.
DatedIsUnchanged ==
  Verify(active, published).code = "GENESIS" =>
    \A a \in published :
      \A e \in Entries : e.seq = a.seq /\ ~bare => PointOf(e) = a

-----------------------------------------------------------------------------
(* What the documents say, and the code does not always do *)

\* docs/SPEC.md 2b and the G11 row: verify() detects lines that were deleted.
DeletionIsDetected ==
  damages \cap {"lost", "tail"} # {} => ~Verify(active, published).ok

\* ledger.py, verify(): "Never returns ok=True with chain_complete=True unless genesis was
\* reached."
CompleteMeansGenesis ==
  LET r == Verify(active, published)
  IN r.ok /\ r.complete /\ minted > 0 => [seq |-> 1, hash |-> 1] \in Walk(active).seen

\* docs/SPEC.md 5.5: a segment that is missing makes the chain incomplete; only one that does
\* not fit is ROTATION_LINK_BROKEN.  Numbers of closed segments grow.
MissingIsNotBroken == damages = {} /\ ~IsTorn => Verify(active, published).ok
=============================================================================
