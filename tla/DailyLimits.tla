---------------------------- MODULE DailyLimits ----------------------------
(***************************************************************************)
(* The daily limits of deadman/daily_limits.py: counters in a state file,  *)
(* a rollover by the clock, check() and the two recorders.  A call reads   *)
(* the file and the clock, may write a fresh day and put the old one into  *)
(* the ledger, answers or computes new numbers, compares seals, replaces.  *)
(*                                                                         *)
(* The limit of one order's notional and the exits, which check() answers  *)
(* without looking at anything, have no state and are left out.  A missing *)
(* key is an unreadable file.                                              *)
(***************************************************************************)
EXTENDS StateFile, DailyStats

CONSTANTS
  MaxDay,      \* bound: days that the clock shows
  MaxCalls,    \* bound: calls
  MaxBacks,    \* bound: times the clock goes back a day
  MaxCrashes,  \* bound: processes that die and are started again
  MaxFaults,   \* bound: ledger entries that cannot be written
  MaxDamages,  \* bound: times the file becomes unreadable
  MaxDeletes   \* bound: times a human deletes the file

ASSUME DailyLimitsAssumption ==
  /\ MaxDay \in Nat \ {0}
  /\ {MaxCalls, MaxBacks, MaxCrashes, MaxFaults, MaxDamages, MaxDeletes} \subseteq Nat

VARIABLES
  file,      \* daily_stats.json as StateFile.read answers
  today,     \* Clock.today_utc
  pc, call,  \* where each process is, and the locals of its call (known is history)
  birth,     \* WriterIdentity.started_at of each process
  resets,    \* the DAILY_STATS_RESET entries of the ledger
  rolled,    \* history: the rollovers that took place
  fills,     \* history: record_fill calls that returned since the numbers were last at zero
  reached,   \* history: the limits that the numbers on file reached, each with its day
  ignored,   \* history: the limits of those against which check() allowed an entry
  raced,     \* history: what happened to the file under the call of each process
  spoiled,   \* history: a process to which that happened has written
  calls, backs, crashes, faults, damages, deletes

history == <<rolled, fills, reached, ignored, raced, spoiled>>
bounds  == <<calls, backs, crashes, faults, damages, deletes>>
vars    == <<file, today, pc, call, birth, resets, history, bounds>>

-----------------------------------------------------------------------------

Ops   == {"stats", "check", "fill", "unpriced", "gain", "loss"}
Stats == [day: 0..MaxDay, trades: Nat, net: Int, unverified: BOOLEAN]
Files == [status: {"ABSENT", "OK", "UNREADABLE"}, seal: Seals \cup {NoSeal}, data: Stats]
PCs   == {"down", "idle", "decide", "compare", "replace", "reset"}
Reached == (0..MaxDay) \X {"fees", "trades", "loss"}
Call  == [op: Ops \cup {"none"}, read: Files, st: Stats, rolls: BOOLEAN,
          next: Seals \cup {NoSeal}, known: SUBSET Reached, late: BOOLEAN]

Gone    == Absent(Fresh(0))
Damaged == Unreadable(Fresh(0))
NoCall  == [op |-> "none", read |-> Gone, st |-> Fresh(0), rolls |-> FALSE,
            next |-> NoSeal, known |-> {}, late |-> FALSE]

Goto(p, l) == pc' = [pc EXCEPT ![p] = l]
Return(p)  == Goto(p, "idle") /\ call' = [call EXCEPT ![p] = NoCall]

-----------------------------------------------------------------------------

\* Mutant: a file of a later day is rolled over like one of an earlier day.
NeedsRollover_AnyOther(f) == f.status = "OK" /\ f.data.day # today
\* _load: the day on file is over.
NeedsRollover(f) == f.status = "OK" /\ f.data.day < today

\* _load: the day on file has not begun (CLOCK_BACKWARDS).
InFuture(f) == f.status = "OK" /\ f.data.day > today

\* _load of check(), stats() and the recorders.
Load(p, op) ==
  /\ pc[p] = "idle"
  /\ calls < MaxCalls /\ calls' = calls + 1
  /\ call' = [call EXCEPT ![p] =
       [NoCall EXCEPT !.op = op, !.read = file, !.rolls = NeedsRollover(file),
                      !.st = IF file.status = "OK" /\ ~NeedsRollover(file)
                             THEN file.data ELSE Fresh(today),
                      !.known = reached, !.late = InFuture(file)]]
  /\ Goto(p, IF NeedsRollover(file) THEN "compare" ELSE "decide")
  /\ raced' = [raced EXCEPT ![p] = {}]
  /\ UNCHANGED <<file, today, birth, resets, rolled, fills, reached, ignored, spoiled,
                 backs, crashes, faults, damages, deletes>>

\* Nobody can read the file, or it was of a later day by the clock that _load read.
Denied(p) == call[p].read.status = "UNREADABLE" \/ call[p].late

\* check(): an entry is allowed; against which limits, of those reached when the file was read?
Check(p) ==
  /\ pc[p] = "decide" /\ call[p].op = "check"
  /\ IF Denied(p) \/ Limits(call[p].st) # {}
     THEN UNCHANGED ignored
     ELSE ignored' = ignored \cup
            {r[2] : r \in {x \in call[p].known : x[1] = call[p].st.day \/ x[2] = "fees"}}
  /\ Return(p)
  /\ UNCHANGED <<file, today, birth, resets, rolled, fills, reached, raced, spoiled, bounds>>

\* stats() is done; record_fill and record_pnl raise over a file nobody can read.
Stop(p) ==
  /\ pc[p] = "decide"
  /\ call[p].op = "stats" \/ (call[p].op # "check" /\ call[p].read.status = "UNREADABLE")
  /\ Return(p)
  /\ UNCHANGED <<file, today, birth, resets, history, bounds>>

\* record_fill and record_pnl: the new numbers, of the day on file whatever the clock says.
Record(p) ==
  /\ pc[p] = "decide"
  /\ call[p].op \notin {"stats", "check"} /\ call[p].read.status # "UNREADABLE"
  /\ call' = [call EXCEPT ![p].st = Recorded(call[p].op, @)]
  /\ Goto(p, "compare")
  /\ UNCHANGED <<file, today, birth, resets, history, bounds>>

\* StateFile.write, up to the replace.  A conflict goes to the ledger and up to the caller.
Compare(p) ==
  /\ pc[p] = "compare"
  /\ IF MayReplace(file, call[p].read.seal, FALSE)
     THEN /\ call' = [call EXCEPT ![p].next = NextSeal(file, p, birth[p])]
          /\ Goto(p, "replace")
     ELSE Return(p)
  /\ raced' = [raced EXCEPT ![p] = @ \ {"overtaken"}]
  /\ UNCHANGED <<file, today, birth, resets, rolled, fills, reached, ignored, spoiled, bounds>>

\* The file changes: whoever has compared seals and not written yet is overtaken, and whoever
\* is in a call while it is removed may meet a seal a second time.
FileBecomes(f) ==
  /\ file' = f
  /\ raced' = [q \in Procs |->
       raced[q] \cup (IF pc[q] = "replace" THEN {"overtaken"} ELSE {})
                \cup (IF f = Gone /\ pc[q] \notin {"idle", "down"} THEN {"removed"} ELSE {})]

\* What the ledger is told of a rollover that p makes.
ResetOf(p, trades) == [from |-> call[p].read.data.day, to |-> call[p].st.day, trades |-> trades]

\* os.replace, of a fresh day or of new numbers.
Replace(p) ==
  /\ pc[p] = "replace"
  /\ FileBecomes(Holding(call[p].next, call[p].st))
  /\ spoiled' = (spoiled \/ raced[p] # {})
  /\ reached' = reached \cup {<<call[p].st.day, l>> : l \in Limits(call[p].st)}
  /\ IF call[p].rolls
     THEN /\ fills' = 0
          /\ rolled' = rolled \cup {ResetOf(p, fills)}
          /\ Goto(p, "reset") /\ UNCHANGED call
     ELSE /\ fills' = fills + (IF call[p].op \in {"fill", "unpriced"} THEN 1 ELSE 0)
          /\ UNCHANGED rolled
          /\ Return(p)
  /\ UNCHANGED <<today, birth, resets, ignored, bounds>>

\* Mutant: the entry tells the numbers of the new day.
Reset_New(p) ==
  /\ pc[p] = "reset"
  /\ resets' = resets \cup {ResetOf(p, call[p].st.trades)}
  /\ call' = [call EXCEPT ![p].rolls = FALSE, ![p].read = Holding(call[p].next, call[p].st)]
  /\ Goto(p, "decide")
  /\ UNCHANGED <<file, today, birth, history, bounds>>
\* _load, after the rollover: DAILY_STATS_RESET; a ledger that fails is logged, no more.
Reset(p) ==
  /\ pc[p] = "reset"
  /\ \/ resets' = resets \cup {ResetOf(p, call[p].read.data.trades)} /\ UNCHANGED faults
     \/ faults < MaxFaults /\ faults' = faults + 1 /\ UNCHANGED resets
  /\ call' = [call EXCEPT ![p].rolls = FALSE, ![p].read = Holding(call[p].next, call[p].st)]
  /\ Goto(p, "decide")
  /\ UNCHANGED <<file, today, birth, history, calls, backs, crashes, damages, deletes>>

-----------------------------------------------------------------------------

Midnight ==
  /\ today < MaxDay
  /\ today' = today + 1
  /\ UNCHANGED <<file, pc, call, birth, resets, history, bounds>>

\* The clock of the machine is set back.
ClockBack ==
  /\ backs < MaxBacks /\ backs' = backs + 1
  /\ today > 1
  /\ today' = today - 1
  /\ UNCHANGED <<file, pc, call, birth, resets, history, calls, crashes, faults, damages, deletes>>

Crash(p) ==
  /\ pc[p] # "down"
  /\ crashes < MaxCrashes /\ crashes' = crashes + 1
  /\ Goto(p, "down")
  /\ call' = [call EXCEPT ![p] = NoCall]
  /\ UNCHANGED <<file, today, birth, resets, history, calls, backs, faults, damages, deletes>>

\* It is started again: WriterIdentity.
Restart(p) ==
  /\ pc[p] = "down"
  /\ birth' = [birth EXCEPT ![p] = @ + 1]
  /\ Goto(p, "idle")
  /\ UNCHANGED <<file, today, call, resets, history, bounds>>

Damage ==
  /\ damages < MaxDamages /\ damages' = damages + 1
  /\ file.status = "OK" /\ \A p \in Procs : pc[p] \in {"idle", "down"}
  /\ FileBecomes(Damaged)
  /\ UNCHANGED <<today, pc, call, birth, resets, rolled, fills, reached, ignored, spoiled,
                 calls, backs, crashes, faults, deletes>>

\* A human deletes the file: a clean day.
HumanDeletes ==
  /\ deletes < MaxDeletes /\ deletes' = deletes + 1
  /\ file.status # "ABSENT"
  /\ FileBecomes(Gone)
  /\ fills' = 0 /\ reached' = {}
  /\ UNCHANGED <<today, pc, call, birth, resets, rolled, ignored, spoiled,
                 calls, backs, crashes, faults, damages>>

Init ==
  /\ file = Gone /\ today = 1
  /\ pc = [p \in Procs |-> "idle"] /\ call = [p \in Procs |-> NoCall]
  /\ birth = [p \in Procs |-> 0]
  /\ resets = {} /\ rolled = {} /\ fills = 0 /\ reached = {} /\ ignored = {}
  /\ raced = [p \in Procs |-> {}] /\ spoiled = FALSE
  /\ calls = 0 /\ backs = 0 /\ crashes = 0 /\ faults = 0 /\ damages = 0 /\ deletes = 0

Next ==
  \/ \E p \in Procs :
       \/ \E op \in Ops : Load(p, op)
       \/ Check(p) \/ Stop(p) \/ Record(p) \/ Compare(p) \/ Replace(p) \/ Reset(p)
       \/ Crash(p) \/ Restart(p)
  \/ Midnight \/ ClockBack \/ Damage \/ HumanDeletes

Spec == Init /\ [][Next]_vars

-----------------------------------------------------------------------------
(* Properties *)

TypeOK ==
  /\ file \in Files
  /\ today \in 1..MaxDay
  /\ pc \in [Procs -> PCs] /\ call \in [Procs -> Call]
  /\ \A p \in Procs : pc[p] \notin {"idle", "down"} => call[p].op # "none"
  /\ \A p \in Procs : pc[p] \in {"replace", "reset"} => call[p].next \in Seals
  /\ birth \in [Procs -> Nat]
  /\ resets \cup rolled \subseteq [from: 0..MaxDay, to: 0..MaxDay, trades: Nat]
  /\ fills \in Nat
  /\ reached \subseteq Reached
  /\ ignored \subseteq {"fees", "trades", "loss"}
  /\ raced \in [Procs -> SUBSET {"overtaken", "removed"}] /\ spoiled \in BOOLEAN
  /\ calls \in 0..MaxCalls /\ backs \in 0..MaxBacks /\ crashes \in 0..MaxCrashes
  /\ faults \in 0..MaxFaults /\ damages \in 0..MaxDamages /\ deletes \in 0..MaxDeletes

\* Every fill whose recording returned is in the day's count.
FillsCounted == file.status = "OK" => file.data.trades = fills

\* Through midnights, clocks set back, crashes between any two steps and human deletions, fills
\* are lost only to a call that compared seals before another process wrote, or during which
\* the file was removed.
FillsLostOnlyToRaces == spoiled \/ FillsCounted

\* "An exhausted limit is not reopened": no entry is allowed on a day whose number of trades
\* was reached, unless a human deleted the file, whatever the clock does in between.
TradesNotReopened == spoiled \/ "trades" \notin ignored

\* What the ledger keeps of a day that was rolled over is what was recorded that day, unless
\* such a race came before.
ResetsAreTrue == spoiled \/ resets \subseteq rolled

\* The day on file goes back only when a human deletes it, or by such a race.
DayNeverGoesBack ==
  [][file.status = "OK" /\ file'.status = "OK" =>
       spoiled' \/ file'.data.day >= file.data.day]_vars

-----------------------------------------------------------------------------
(* What the documents say, and the code does not always do *)

\* daily_limits.py, 3: the previous day's numbers go to the ledger, "never a silent reset";
\* here whenever nobody is in a call.
NeverSilentReset == (\A p \in Procs : pc[p] \in {"idle", "down"}) => rolled \subseteq resets

\* daily_limits.py: a day with an unknown fee "is marked fees_unverified and entries are denied
\* until a human resets the file".
UnverifiedUntilHuman == "fees" \notin ignored

\* daily_limits.py, 5: reaching a limit means that "every later entry that day is denied".
ReachedIsFinal == "loss" \notin ignored
=============================================================================
