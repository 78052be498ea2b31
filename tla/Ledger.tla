------------------------------- MODULE Ledger -------------------------------
(***************************************************************************)
(* The hash-chained ledger of deadman/ledger.py, written by several        *)
(* processes under one file lock: append(), rotate(), anchor(), and what   *)
(* each leaves on disk when it fails or dies between two of its writes.    *)
(*                                                                         *)
(* A hash is a number that no two entries share; a line also carries the   *)
(* hash its content really has (body), which differs once it is edited.    *)
(* The sha256 of a file is the sequence of its bodies.  Time is a choice:  *)
(* anchor_every_s and stale_after_s may have passed or not.  A publisher   *)
(* is configured; payloads, signatures and hooks are left out.             *)
(***************************************************************************)
EXTENDS Naturals, Sequences, FiniteSets

CONSTANTS
  Procs,        \* the processes that append
  NoProc,       \* nobody: the lock is free
  Notes,        \* kinds that callers append, of "USER_NOTE" and "HALT_SET"
  AnchorEvery,  \* anchor_every_n
  StaleAfter,   \* stale_after_failures
  MaxCalls,     \* bound: calls of append(), rotate() and anchor()
  MaxCrashes,   \* bound: processes that die
  MaxFaults     \* bound: writes that raise

ASSUME LedgerAssumption ==
  /\ NoProc \notin Procs
  /\ Notes \subseteq {"USER_NOTE", "HALT_SET"}
  /\ {AnchorEvery, StaleAfter} \subseteq Nat \ {0}
  /\ {MaxCalls, MaxCrashes, MaxFaults} \subseteq Nat

VARIABLES
  active,     \* ledger.jsonl
  closed,     \* ledger.NNNN.jsonl by number; a number with no file has no lines
  tip,        \* chain_state.json; its seq is 0 while there is no such file
  anchors,    \* anchors.jsonl
  flag,       \* whether anchor_stale.flag exists
  lock,       \* who holds chain_state.lock
  pc, job,    \* where each process is, and the locals of its call
  mem,        \* the fields of each Ledger object
  published,  \* what the third party holds
  minted,     \* history: how many entries have been written
  bare,       \* history: a ledger that had no chain_state.json was rotated
  calls, crashes, faults

disk == <<active, closed, tip, anchors, flag>>
vars == <<disk, lock, pc, job, mem, published, minted, bare, calls, crashes, faults>>

-----------------------------------------------------------------------------

Genesis     == [seq |-> 0, hash |-> 0]
Points      == [seq: Nat, hash: Nat]
AnchorKinds == {"ANCHOR_PUBLISHED", "ANCHOR_FAILED", "ANCHOR_STALE", "ANCHOR_RECOVERED"}
AnchorAfter == {"HALT_SET", "LEDGER_ROTATED"}
Kinds       == Notes \cup {"LEDGER_ROTATED"} \cup AnchorKinds
Segments    == 1..MaxCalls  \* no more rotations than calls

\* A line: of is the anchor, or the last entry of the closed segment seg, that it is about.
Lines ==
  [kind: Kinds \cup {"TORN"}, seq: Nat, prev: Nat, hash: Nat, body: Nat,
   of: Points, seg: Nat, sha: Seq(Nat)]

\* What is left of a line that was written in part: it is not JSON.
Torn == [kind |-> "TORN", seq |-> 0, prev |-> 0, hash |-> 0, body |-> 0,
         of |-> Genesis, seg |-> 0, sha |-> <<>>]

PCs   == {"down", "idle", "enter", "rename", "line", "tip", "anchor", "segment", "publish",
          "record", "flag", "unflag"}
Job   == [kind: Kinds \cup {"none"}, tip: Points, of: Points, seg: Nat, sha: Seq(Nat)]
NoJob == [kind |-> "none", tip |-> Genesis, of |-> Genesis, seg |-> 0, sha |-> <<>>]
Mem   == [since: 0..AnchorEvery, ever: BOOLEAN, failures: 0..StaleAfter, flagged: BOOLEAN]
Born(f) == [since |-> 0, ever |-> FALSE, failures |-> 0, flagged |-> f]

File   == [here: BOOLEAN, lines: Seq(Lines)]
NoFile == [here |-> FALSE, lines |-> <<>>]

AtMost(n, m) == IF n < m THEN n ELSE m
Digest(lines) == [i \in DOMAIN lines |-> lines[i].body]
PointOf(l) == [seq |-> l.seq, hash |-> l.hash]

Tail_ == active.lines[Len(active.lines)]
Empty == active.lines = <<>>

\* Mutant: a tip file that is not the tail is ignored.
TipAgrees_Healed == ~Empty => Tail_.kind # "TORN"
\* _read_tip_unlocked raises unless chain_state.json, where there is one, is the tail.
TipAgrees ==
  /\ ~Empty => Tail_.kind # "TORN"
  /\ tip.seq # 0 => ~Empty /\ tip = PointOf(Tail_)

\* What it returns otherwise.
ReadTip == IF tip.seq # 0 THEN tip ELSE IF Empty THEN Genesis ELSE PointOf(Tail_)

\* rotate() gives the first number that is free to the segment it closes.
FreeSegments   == {n \in Segments : closed[n] = <<>>}
NextSegment(n) == n \in FreeSegments /\ \A m \in FreeSegments : n <= m

Goto(p, l) == pc' = [pc EXCEPT ![p] = l]
Does(p, kind) == job' = [job EXCEPT ![p].kind = kind] /\ Goto(p, "enter")
Raises(p) == Goto(p, "idle") /\ job' = [job EXCEPT ![p] = NoJob]
Fault == faults < MaxFaults /\ faults' = faults + 1

-----------------------------------------------------------------------------
(* append() and rotate() *)

Call(p, kind) ==
  /\ pc[p] = "idle"
  /\ calls < MaxCalls /\ calls' = calls + 1
  /\ Does(p, kind)
  /\ UNCHANGED <<disk, lock, mem, published, minted, bare, crashes, faults>>

\* Mutant: nobody waits for the lock.
LockFree_Ignored == TRUE
LockFree == lock = NoProc

\* The lock is taken and the tip read.  An empty ledger is not rotated.
Enter(p) ==
  /\ pc[p] = "enter"
  /\ LockFree
  /\ IF TipAgrees /\ (job[p].kind = "LEDGER_ROTATED" => ReadTip # Genesis)
     THEN /\ lock' = p
          /\ job' = [job EXCEPT ![p].tip = ReadTip]
          /\ Goto(p, IF job[p].kind = "LEDGER_ROTATED" THEN "rename" ELSE "line")
     ELSE Raises(p) /\ UNCHANGED lock
  /\ UNCHANGED <<disk, mem, published, minted, bare, calls, crashes, faults>>

\* Mutant: the file is not kept under another name.
Rename_Removes(p) ==
  /\ pc[p] = "rename"
  /\ active' = NoFile
  /\ Goto(p, "line")
  /\ UNCHANGED <<closed, tip, anchors, flag, lock, job, mem, published, minted, bare,
                 calls, crashes, faults>>
\* rotate(): os.replace of the active file.
Rename(p) ==
  /\ pc[p] = "rename"
  /\ \E n \in Segments :
       /\ NextSegment(n)
       /\ closed' = [closed EXCEPT ![n] = active.lines]
       /\ job' = [job EXCEPT ![p] = [@ EXCEPT !.of = job[p].tip, !.seg = n,
                                              !.sha = Digest(active.lines)]]
  /\ active' = NoFile
  /\ bare' = (bare \/ tip.seq = 0)
  /\ Goto(p, "line")
  /\ UNCHANGED <<tip, anchors, flag, lock, mem, published, minted, calls, crashes, faults>>

\* The entry of p's call.
LineOf(p) ==
  [kind |-> job[p].kind, seq |-> job[p].tip.seq + 1, prev |-> job[p].tip.hash,
   hash |-> minted + 1, body |-> minted + 1,
   of |-> job[p].of, seg |-> job[p].seg, sha |-> job[p].sha]

With(l) == active' = [here |-> TRUE, lines |-> Append(active.lines, l)]

WriteLine(p) ==
  /\ pc[p] = "line"
  /\ With(LineOf(p))
  /\ minted' = minted + 1
  /\ Goto(p, "tip")
  /\ UNCHANGED <<closed, tip, anchors, flag, lock, job, mem, published, bare, calls, crashes, faults>>

\* It raises, and nothing, an empty file, a part of the line, or all of it, is there.
WriteLineFails(p) ==
  /\ pc[p] = "line"
  /\ Fault
  /\ \/ UNCHANGED <<active, minted>>
     \/ active' = [active EXCEPT !.here = TRUE] /\ UNCHANGED minted
     \/ With(Torn) /\ UNCHANGED minted
     \/ With(LineOf(p)) /\ minted' = minted + 1
  /\ lock' = NoProc
  /\ Raises(p)
  /\ UNCHANGED <<closed, tip, anchors, flag, mem, published, bare, calls, crashes>>

\* Mutant: an entry of the kinds that matter is anchored like any other.
Due_NotForced(p) == mem[p].since + 1 >= AnchorEvery \/ ~mem[p].ever
\* _maybe_anchor: what makes an anchor due, whatever the time.
Due(p) == job[p].kind \in AnchorAfter \/ mem[p].since + 1 >= AnchorEvery \/ ~mem[p].ever

\* _check_stale: late says that stale_after_s has passed since the last success.
Stale(p, late) == ~mem[p].flagged /\ (mem[p].failures >= StaleAfter \/ late)

\* What comes after an entry of p's kind; late says that anchor_every_s has passed.
AfterEntry(p, late) ==
  CASE job[p].kind \notin AnchorKinds     -> IF Due(p) \/ late THEN "anchor" ELSE "idle"
    [] job[p].kind = "ANCHOR_PUBLISHED"   -> IF mem[p].flagged THEN "unflag" ELSE "idle"
    [] job[p].kind = "ANCHOR_FAILED"      -> IF Stale(p, late) THEN "flag" ELSE "idle"
    [] OTHER                              -> "idle"

\* chain_state.json is replaced and the lock released.
WriteTip(p, late) ==
  /\ pc[p] = "tip"
  /\ late => mem[p].ever
  /\ tip' = PointOf(Tail_)
  /\ lock' = NoProc
  /\ mem' = [mem EXCEPT ![p].since = AtMost(@ + 1, AnchorEvery)]
  /\ Goto(p, AfterEntry(p, late))
  /\ job' = IF AfterEntry(p, late) = "idle" THEN [job EXCEPT ![p] = NoJob] ELSE job
  /\ UNCHANGED <<active, closed, anchors, flag, published, minted, bare, calls, crashes, faults>>

\* The rename, the tip file or the anchors file cannot be written: it raises.
Fails(p) ==
  /\ pc[p] \in {"rename", "tip", "record"}
  /\ Fault
  /\ lock' = IF lock = p THEN NoProc ELSE lock
  /\ Raises(p)
  /\ UNCHANGED <<disk, mem, published, minted, bare, calls, crashes>>

-----------------------------------------------------------------------------
(* anchor() *)

CallAnchor(p) ==
  /\ pc[p] = "idle"
  /\ calls < MaxCalls /\ calls' = calls + 1
  /\ Goto(p, "anchor")
  /\ UNCHANGED <<disk, lock, job, mem, published, minted, bare, crashes, faults>>

\* Mutant: the next number is published, not the last one.
AnchorRead_Next(p) ==
  /\ pc[p] = "anchor"
  /\ LockFree
  /\ job' = [job EXCEPT ![p] = [NoJob EXCEPT !.of = [ReadTip EXCEPT !.seq = @ + 1]]]
  /\ Goto(p, "segment")
  /\ UNCHANGED <<disk, lock, mem, published, minted, bare, calls, crashes, faults>>
\* The tip is read under the lock.
AnchorRead(p) ==
  /\ pc[p] = "anchor"
  /\ LockFree
  /\ IF TipAgrees /\ ReadTip # Genesis
     THEN job' = [job EXCEPT ![p] = [NoJob EXCEPT !.of = ReadTip]] /\ Goto(p, "segment")
     ELSE Raises(p)
  /\ UNCHANGED <<disk, lock, mem, published, minted, bare, calls, crashes, faults>>

\* _segment_of_seq, without the lock: a file that is there may be gone when it is opened.
AnchorSegment(p) ==
  /\ pc[p] = "segment"
  /\ \/ Goto(p, "publish") /\ UNCHANGED job
     \/ (\E q \in Procs : pc[q] = "rename") /\ Raises(p)
  /\ UNCHANGED <<disk, lock, mem, published, minted, bare, calls, crashes, faults>>

\* The publisher answers.
PublishDone(p) ==
  /\ pc[p] = "publish"
  /\ published' = published \cup {job[p].of}
  /\ Goto(p, "record")
  /\ UNCHANGED <<disk, lock, job, mem, minted, bare, calls, crashes, faults>>

\* It raises; the third party may have the anchor all the same.
PublishFails(p) ==
  /\ pc[p] = "publish"
  /\ \E got \in SUBSET {job[p].of} : published' = published \cup got
  /\ mem' = [mem EXCEPT ![p].failures = AtMost(@ + 1, StaleAfter)]
  /\ Does(p, "ANCHOR_FAILED")
  /\ UNCHANGED <<disk, lock, minted, bare, calls, crashes, faults>>

\* The anchor is added to anchors.jsonl, and the counts start again.
Record(p) ==
  /\ pc[p] = "record"
  /\ anchors' = anchors \cup {job[p].of}
  /\ mem' = [mem EXCEPT ![p] = [Born(@.flagged) EXCEPT !.ever = TRUE]]
  /\ Does(p, "ANCHOR_PUBLISHED")
  /\ UNCHANGED <<active, closed, tip, flag, lock, published, minted, bare, calls, crashes, faults>>

\* A first success after a stale time.  An error of the removal is swallowed.
Unflag(p) ==
  /\ pc[p] = "unflag"
  /\ mem' = [mem EXCEPT ![p].flagged = FALSE]
  /\ \/ flag' = FALSE /\ UNCHANGED faults
     \/ flag' = flag /\ Fault
  /\ Does(p, "ANCHOR_RECOVERED")
  /\ UNCHANGED <<active, closed, tip, anchors, lock, published, minted, bare, calls, crashes>>

\* An error of the write of the flag is swallowed.
Flag(p) ==
  /\ pc[p] = "flag"
  /\ mem' = [mem EXCEPT ![p].flagged = TRUE]
  /\ \/ flag' = TRUE /\ UNCHANGED faults
     \/ flag' = flag /\ Fault
  /\ job' = [job EXCEPT ![p] = [NoJob EXCEPT !.kind = "ANCHOR_STALE"]]
  /\ Goto(p, "enter")
  /\ UNCHANGED <<active, closed, tip, anchors, lock, published, minted, bare, calls, crashes>>

-----------------------------------------------------------------------------

\* A process dies; the system releases its lock.
Crash(p) ==
  /\ pc[p] # "down"
  /\ crashes < MaxCrashes /\ crashes' = crashes + 1
  /\ Goto(p, "down")
  /\ job' = [job EXCEPT ![p] = NoJob]
  /\ lock' = IF lock = p THEN NoProc ELSE lock
  /\ UNCHANGED <<disk, mem, published, minted, bare, calls, faults>>

\* A new Ledger on the same directory.
Restart(p) ==
  /\ pc[p] = "down"
  /\ Goto(p, "idle")
  /\ mem' = [mem EXCEPT ![p] = Born(flag)]
  /\ UNCHANGED <<disk, lock, job, published, minted, bare, calls, crashes, faults>>

Init ==
  /\ active = NoFile
  /\ closed = [n \in Segments |-> <<>>]
  /\ tip = Genesis
  /\ anchors = {} /\ published = {}
  /\ flag = FALSE
  /\ lock = NoProc
  /\ pc = [p \in Procs |-> "idle"]
  /\ job = [p \in Procs |-> NoJob]
  /\ mem = [p \in Procs |-> Born(FALSE)]
  /\ minted = 0 /\ bare = FALSE
  /\ calls = 0 /\ crashes = 0 /\ faults = 0

\* The rest of a call that has begun.
Proceed(p) ==
  \/ Enter(p) \/ Rename(p) \/ WriteLine(p)
  \/ \E late \in BOOLEAN : WriteTip(p, late)
  \/ AnchorRead(p) \/ AnchorSegment(p) \/ PublishDone(p) \/ PublishFails(p) \/ Record(p)
  \/ Flag(p) \/ Unflag(p)

Next ==
  \E p \in Procs :
    \/ \E kind \in Notes \cup {"LEDGER_ROTATED"} : Call(p, kind)
    \/ CallAnchor(p)
    \/ Proceed(p)
    \/ WriteLineFails(p) \/ Fails(p)
    \/ Crash(p) \/ Restart(p)

Spec == Init /\ [][Next]_vars

\* The lock is held for a few writes, and a publisher returns or raises: a call goes on,
\* and of the processes that wait for the lock each gets it.
FairSpec == Spec /\ \A p \in Procs : WF_vars(Proceed(p)) /\ SF_vars(Enter(p)) /\ SF_vars(AnchorRead(p))

-----------------------------------------------------------------------------
(* Properties *)

TypeOK ==
  /\ active \in File
  /\ closed \in [Segments -> Seq(Lines)]
  /\ tip \in Points
  /\ anchors \subseteq Points /\ published \subseteq Points
  /\ flag \in BOOLEAN
  /\ lock \in Procs \cup {NoProc}
  /\ pc \in [Procs -> PCs]
  /\ job \in [Procs -> Job]
  /\ \A p \in Procs : pc[p] \in {"enter", "rename", "line", "tip"} => job[p].kind \in Kinds
  /\ mem \in [Procs -> Mem]
  /\ minted \in Nat /\ bare \in BOOLEAN
  /\ calls \in 0..MaxCalls /\ crashes \in 0..MaxCrashes /\ faults \in 0..MaxFaults

\* The entries on disk, of whatever segment.
EntriesIn(lines) == {lines[i] : i \in {j \in DOMAIN lines : lines[j].kind # "TORN"}}
Entries == EntriesIn(active.lines) \cup UNION {EntriesIn(closed[n]) : n \in Segments}

\* One chain: consecutive numbers from 1, no two alike, each on the hash of the one before.
Chained ==
  /\ \A e, f \in Entries : e.seq = f.seq => e = f
  /\ \A e \in Entries :
       IF e.seq = 1 THEN e.prev = 0 ELSE \E f \in Entries : f.seq + 1 = e.seq /\ f.hash = e.prev

\* Whoever appends, rotates, fails or dies, the entries of all the segments are one chain,
\* if no ledger is rotated before its first chain_state.json is there.
OneChain == ~bare => Chained

\* Nothing that was written is ever taken back or changed, across rotations too.
NothingIsLost == [][Entries \subseteq Entries']_vars

\* chain_state.json is there and is not the tail.
Disagree == tip.seq # 0 /\ (Empty \/ tip # PointOf(Tail_))
\* "Disagreement is an integrity error, never silently healed": once a call leaves one behind,
\* no process gets to add, rotate or repair anything.
DisagreementStays ==
  [][lock = NoProc /\ Disagree => UNCHANGED <<active, closed, tip, lock>>]_vars

\* What a third party dates is an entry of the ledger, and an entry that says so is right:
\* anchor() reads the tip under the lock, and lets the lock go before it publishes.
AnchorsAreEntries ==
  /\ anchors \subseteq published
  /\ published \subseteq {PointOf(e) : e \in Entries}
  /\ \A e \in Entries : e.kind = "ANCHOR_PUBLISHED" => e.of \in anchors

\* An entry of the kinds that matter is covered by a published anchor, or an ANCHOR_FAILED
\* that is newer says that it is not, unless a process died or a write failed.
Covered(e) ==
  \/ \E a \in published : a.seq >= e.seq
  \/ \E f \in Entries : f.kind = "ANCHOR_FAILED" /\ f.seq > e.seq
AlarmsAreAnchored ==
  []<>(crashes + faults > 0 \/ \A e \in Entries : e.kind \in AnchorAfter => Covered(e))

-----------------------------------------------------------------------------
(* What the documents say, and the code does not always do *)

\* docs/SPEC.md 5.5: the first entry of a new segment is a LEDGER_ROTATED on the hash of the
\* last entry of the one before, so that no rotation can break the history.
AlwaysOneChain == Chained

\* docs/SPEC.md 5.2: anchor_stale.flag "exists if and only if there is an ANCHOR_STALE with no
\* later ANCHOR_RECOVERED", here whenever nobody is in a call.
FlagTellsStale ==
  (\A p \in Procs : pc[p] \in {"idle", "down"}) =>
    (flag <=> \E e \in Entries : /\ e.kind = "ANCHOR_STALE"
                                 /\ \A f \in Entries : f.kind = "ANCHOR_RECOVERED" => f.seq < e.seq)

\* docs/SPEC.md 2b: after stale_after_failures failures in a row the ledger has an
\* ANCHOR_STALE, "not acceptable in silence", here whenever nobody is in a call.
SustainedFailureIsFlagged ==
  (\A p \in Procs : pc[p] \in {"idle", "down"}) =>
    \A F \in SUBSET {e \in Entries : e.kind = "ANCHOR_FAILED"} :
      \/ Cardinality(F) < StaleAfter
      \/ \E e \in Entries : e.kind = "ANCHOR_STALE"
      \/ \E e \in Entries, f, g \in F : e.kind = "ANCHOR_PUBLISHED" /\ f.seq < e.seq /\ e.seq < g.seq

=============================================================================
