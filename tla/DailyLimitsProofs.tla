------------------------- MODULE DailyLimitsProofs -------------------------
(***************************************************************************)
(* Theorems about DailyLimits, for every number of processes and every     *)
(* bound: its types, and that without a race that compared seals cannot    *)
(* see, no fill is lost, no limit of trades reopened, no rollover told     *)
(* wrong and no day taken back.                                            *)
(***************************************************************************)
EXTENDS DailyLimits, TLAPS

-----------------------------------------------------------------------------
(* Types *)

LEMMA FreshStats == ASSUME NEW d \in 0..MaxDay PROVE Fresh(d) \in Stats /\ Fresh(d).day = d /\ Fresh(d).trades = 0
BY DEF Fresh, Stats

\* A fill is one trade more, and nothing that is recorded changes the day.
LEMMA RecordedStats ==
  ASSUME NEW st \in Stats, NEW op \in {"fill", "unpriced", "gain", "loss"}
  PROVE  /\ Recorded(op, st) \in Stats /\ Recorded(op, st).day = st.day
         /\ Recorded(op, st).trades = st.trades + (IF op \in {"fill", "unpriced"} THEN 1 ELSE 0)
<1>0. st.trades \in Nat /\ st.trades + 1 \in Nat /\ st.net + 1 \in Int /\ st.net - 1 \in Int
  BY DEF Stats
<1>1. \A n \in Nat, i \in Int : /\ [st EXCEPT !.trades = n, !.net = i] \in Stats
                                /\ [st EXCEPT !.trades = n, !.net = i].day = st.day
                                /\ [st EXCEPT !.trades = n, !.net = i].trades = n
  BY Zenon DEF Stats
<1>2. \A n \in Nat : /\ [st EXCEPT !.trades = n, !.unverified = TRUE] \in Stats
                     /\ [st EXCEPT !.trades = n, !.unverified = TRUE].day = st.day
                     /\ [st EXCEPT !.trades = n, !.unverified = TRUE].trades = n
  BY Zenon DEF Stats
<1>3. \A i \in Int : /\ [st EXCEPT !.net = i] \in Stats /\ [st EXCEPT !.net = i].day = st.day
                     /\ [st EXCEPT !.net = i].trades = st.trades
  BY Zenon DEF Stats
<1>5. CASE op = "fill"
  BY <1>0, <1>1, <1>5 DEF Recorded
<1>6. CASE op = "unpriced"
  BY <1>0, <1>1, <1>2, <1>6 DEF Recorded
<1>7. CASE op = "gain"
  <2>1. /\ [st EXCEPT !.net = st.net + 1] \in Stats /\ [st EXCEPT !.net = st.net + 1].day = st.day
        /\ [st EXCEPT !.net = st.net + 1].trades = st.trades
    BY <1>0, <1>3
  <2>2. Recorded(op, st) = [st EXCEPT !.net = st.net + 1]
    BY <1>7 DEF Recorded
  <2>3. Recorded(op, st) \in Stats /\ Recorded(op, st).day = st.day /\ Recorded(op, st).trades = st.trades
    BY <2>1, <2>2, Zenon
  <2> QED BY <1>0, <1>7, <2>3
<1>8. CASE op = "loss"
  <2>1. /\ [st EXCEPT !.net = st.net - 1] \in Stats /\ [st EXCEPT !.net = st.net - 1].day = st.day
        /\ [st EXCEPT !.net = st.net - 1].trades = st.trades
    BY <1>0, <1>3
  <2>2. Recorded(op, st) = [st EXCEPT !.net = st.net - 1]
    BY <1>8 DEF Recorded
  <2>3. Recorded(op, st) \in Stats /\ Recorded(op, st).day = st.day /\ Recorded(op, st).trades = st.trades
    BY <2>1, <2>2, Zenon
  <2> QED BY <1>0, <1>8, <2>3
<1> QED BY <1>5, <1>6, <1>7, <1>8

LEMMA FileTypes ==
  /\ Gone \in Files /\ Damaged \in Files /\ NoCall \in Call
  /\ \A s \in Seals, st \in Stats : /\ Holding(s, st) \in Files /\ Holding(s, st).data = st
                                    /\ Holding(s, st).seal = s /\ Holding(s, st).status = "OK"
  /\ \A f \in Files : f.seal.seq \in Nat /\ f.data \in Stats
<1>1. Fresh(0) \in Stats /\ NoSeal \in Seals \cup {NoSeal}
  BY FreshStats, DailyLimitsAssumption
<1>2. Gone \in Files /\ Damaged \in Files
  BY <1>1 DEF Gone, Damaged, Absent, Unreadable, Files
<1>3. NoCall \in Call
  BY <1>1, <1>2 DEF NoCall, Call
<1>4. \A s \in Seals, st \in Stats : /\ Holding(s, st) \in Files /\ Holding(s, st).data = st
                                     /\ Holding(s, st).seal = s /\ Holding(s, st).status = "OK"
  BY DEF Holding, Files
<1>5. \A f \in Files : f.seal.seq \in Nat /\ f.data \in Stats
  BY DEF Files, Seals, NoSeal
<1> QED BY <1>2, <1>3, <1>4, <1>5

LEMMA NextSealType ==
  ASSUME NEW f \in Files, NEW p \in Procs, NEW n \in Nat
  PROVE  NextSeal(f, p, n) \in Seals /\ NextSeal(f, p, n).seq = f.seal.seq + 1
<1>1. f.seal.seq \in Nat
  BY FileTypes
<1> QED BY <1>1 DEF NextSeal, Seals

\* What a call that begins has in hand.
Began(p, op) ==
  [NoCall EXCEPT !.op = op, !.read = file, !.rolls = NeedsRollover(file),
                 !.st = IF file.status = "OK" /\ ~NeedsRollover(file) THEN file.data ELSE Fresh(today),
                 !.known = reached, !.late = InFuture(file)]

LEMMA BeganType ==
  ASSUME TypeOK, NEW p \in Procs, NEW op \in Ops
  PROVE  /\ Began(p, op) \in Call /\ Began(p, op).op = op /\ Began(p, op).read = file
         /\ Began(p, op).rolls = NeedsRollover(file) /\ Began(p, op).known = reached
         /\ Began(p, op).st = IF file.status = "OK" /\ ~NeedsRollover(file) THEN file.data ELSE Fresh(today)
<1> DEFINE st == IF file.status = "OK" /\ ~NeedsRollover(file) THEN file.data ELSE Fresh(today)
<1>1. st \in Stats
  BY FileTypes, FreshStats DEF TypeOK
<1>2. NeedsRollover(file) \in BOOLEAN /\ file \in Files /\ reached \in SUBSET Reached
  BY DEF NeedsRollover, TypeOK
<1>3. NoCall \in Call
  BY FileTypes
<1> DEFINE b == NeedsRollover(file)
           l == InFuture(file)
           c == [NoCall EXCEPT !.op = op, !.read = file, !.rolls = b, !.st = st, !.known = reached, !.late = l]
<1>4. b \in BOOLEAN /\ l \in BOOLEAN
  BY <1>2 DEF InFuture
<1> HIDE DEF st, b, l
<1>5. c \in Call /\ c.op = op /\ c.read = file /\ c.rolls = b /\ c.st = st /\ c.known = reached
  <2>1. CASE b = TRUE
    BY <1>1, <1>2, <1>3, <1>4, <2>1 DEF Call
  <2>2. CASE b = FALSE
    BY <1>1, <1>2, <1>3, <1>4, <2>2 DEF Call
  <2> QED BY <1>4, <2>1, <2>2
<1> USE DEF b, st, l
<1> QED BY <1>5 DEF Began

\* A step of p to l with the locals c keeps the types of pc and call.
LEMMA MoveType ==
  ASSUME TypeOK, NEW p \in Procs, NEW l \in PCs, NEW c \in Call, Goto(p, l),
         call' = [call EXCEPT ![p] = c],
         l \notin {"idle", "down"} => c.op # "none",
         l \in {"replace", "reset"} => c.next \in Seals
  PROVE  /\ pc' \in [Procs -> PCs] /\ call' \in [Procs -> Call]
         /\ \A q \in Procs : pc'[q] \notin {"idle", "down"} => call'[q].op # "none"
         /\ \A q \in Procs : pc'[q] \in {"replace", "reset"} => call'[q].next \in Seals
BY DEF TypeOK, Goto

LEMMA LocalsType ==
  ASSUME NEW c \in Call
  PROVE  /\ \A st \in Stats : LET d == [c EXCEPT !.st = st]
                             IN d \in Call /\ d.st = st /\ d.op = c.op /\ d.read = c.read /\ d.rolls = c.rolls
                                /\ d.next = c.next /\ d.known = c.known
         /\ \A n \in Seals : LET d == [c EXCEPT !.next = n]
                            IN d \in Call /\ d.st = c.st /\ d.op = c.op /\ d.read = c.read /\ d.rolls = c.rolls
                               /\ d.next = n /\ d.known = c.known
         /\ \A f \in Files : LET d == [c EXCEPT !.rolls = FALSE, !.read = f]
                            IN d \in Call /\ d.st = c.st /\ d.op = c.op /\ d.read = f /\ d.rolls = FALSE
                               /\ d.next = c.next /\ d.known = c.known
BY DEF Call

LEMMA RacedType ==
  ASSUME TypeOK, NEW f, FileBecomes(f)
  PROVE  /\ file' = f /\ raced' \in [Procs -> SUBSET {"overtaken", "removed"}]
         /\ \A q \in Procs : raced[q] \subseteq raced'[q]
         /\ \A q \in Procs : pc[q] = "replace" => "overtaken" \in raced'[q]
         /\ \A q \in Procs : f # Gone => ("removed" \in raced'[q] <=> "removed" \in raced[q])
         /\ \A q \in Procs : f = Gone /\ pc[q] \notin {"idle", "down"} => "removed" \in raced'[q]
<1>1. \A q \in Procs : raced'[q] = raced[q]
         \cup (IF pc[q] = "replace" THEN {"overtaken"} ELSE {})
         \cup (IF f = Gone /\ pc[q] \notin {"idle", "down"} THEN {"removed"} ELSE {})
  BY DEF FileBecomes
<1>2. \A q \in Procs : raced[q] \subseteq {"overtaken", "removed"}
  BY DEF TypeOK
<1>3. raced' \in [Procs -> SUBSET {"overtaken", "removed"}]
  <2>1. \A q \in Procs : raced'[q] \in SUBSET {"overtaken", "removed"}
    BY <1>1, <1>2
  <2>2. DOMAIN raced' = Procs /\ raced' = [q \in DOMAIN raced' |-> raced'[q]]
    BY DEF FileBecomes
  <2> QED BY <2>1, <2>2
<1> QED BY <1>1, <1>3 DEF FileBecomes

LEMMA TypeStep ==
  ASSUME TypeOK, [Next]_vars
  PROVE  TypeOK'
<1>0. NoCall \in Call /\ file \in Files /\ \A p \in Procs : call[p] \in Call /\ call[p].st \in Stats
                                            /\ call[p].read \in Files
  BY FileTypes DEF TypeOK, Call
<1>r. ASSUME NEW p \in Procs, NEW l \in {"idle", "down"}, Goto(p, l), call' = [call EXCEPT ![p] = NoCall]
      PROVE  /\ pc' \in [Procs -> PCs] /\ call' \in [Procs -> Call]
             /\ \A q \in Procs : pc'[q] \notin {"idle", "down"} => call'[q].op # "none"
             /\ \A q \in Procs : pc'[q] \in {"replace", "reset"} => call'[q].next \in Seals
  <2>1. l \in PCs
    BY DEF PCs
  <2> QED BY <1>0, <1>r, <2>1, MoveType
<1>1. ASSUME NEW p \in Procs, NEW op \in Ops, Load(p, op) PROVE TypeOK'
  <2>1. call' = [call EXCEPT ![p] = Began(p, op)] /\ Began(p, op) \in Call /\ Began(p, op).op # "none"
    BY <1>1, BeganType DEF Load, Began, Ops
  <2>2. /\ Goto(p, IF NeedsRollover(file) THEN "compare" ELSE "decide")
        /\ raced' = [raced EXCEPT ![p] = {}]
    BY <1>1 DEF Load
  <2>3. /\ pc' \in [Procs -> PCs] /\ call' \in [Procs -> Call]
        /\ \A q \in Procs : pc'[q] \notin {"idle", "down"} => call'[q].op # "none"
        /\ \A q \in Procs : pc'[q] \in {"replace", "reset"} => call'[q].next \in Seals
    <3>1. {"compare", "decide"} \subseteq PCs
      BY DEF PCs
    <3> QED BY <2>1, <2>2, <3>1, MoveType
  <2>4. calls' \in 0..MaxCalls
    BY <1>1, DailyLimitsAssumption DEF Load, TypeOK
  <2>5. raced' \in [Procs -> SUBSET {"overtaken", "removed"}]
    BY <2>2 DEF TypeOK
  <2> QED BY <1>1, <2>3, <2>4, <2>5 DEF Load, TypeOK
<1>2. ASSUME NEW p \in Procs, Check(p) PROVE TypeOK'
  <2>1. ignored' \subseteq {"fees", "trades", "loss"}
    <3>1. call[p].known \subseteq Reached
      BY <1>0 DEF Call
    <3>2. \A r \in Reached : r[2] \in {"fees", "trades", "loss"}
      BY DEF Reached
    <3> QED BY <1>2, <3>1, <3>2 DEF Check, TypeOK
  <2> QED BY <1>2, <1>r, <2>1 DEF Check, Return, TypeOK, bounds
<1>3. ASSUME NEW p \in Procs, Stop(p) PROVE TypeOK'
  BY <1>3, <1>r DEF Stop, Return, TypeOK, bounds, history
<1>4. ASSUME NEW p \in Procs, Record(p) PROVE TypeOK'
  <2>1. call[p].op \in {"fill", "unpriced", "gain", "loss"}
    BY <1>0, <1>4 DEF Record, TypeOK, Call, Ops
  <2> DEFINE st == Recorded(call[p].op, call[p].st)
  <2>2. st \in Stats
    BY <1>0, <2>1, RecordedStats
  <2>3. call' = [call EXCEPT ![p] = [call[p] EXCEPT !.st = st]] /\ Goto(p, "compare")
    BY <1>4 DEF Record
  <2> HIDE DEF st
  <2>4. [call[p] EXCEPT !.st = st] \in Call /\ [call[p] EXCEPT !.st = st].op = call[p].op
    BY <1>0, <2>2, LocalsType
  <2>5. "compare" \in PCs
    BY DEF PCs
  <2>6. /\ pc' \in [Procs -> PCs] /\ call' \in [Procs -> Call]
        /\ \A q \in Procs : pc'[q] \notin {"idle", "down"} => call'[q].op # "none"
        /\ \A q \in Procs : pc'[q] \in {"replace", "reset"} => call'[q].next \in Seals
    BY <2>1, <2>3, <2>4, <2>5, MoveType
  <2> QED BY <1>4, <2>6 DEF Record, TypeOK, bounds, history
<1>5. ASSUME NEW p \in Procs, Compare(p) PROVE TypeOK'
  <2>0. raced' \in [Procs -> SUBSET {"overtaken", "removed"}]
    <3>1. raced[p] \ {"overtaken"} \in SUBSET {"overtaken", "removed"}
      BY DEF TypeOK
    <3> QED BY <1>5, <3>1 DEF Compare, TypeOK
  <2>1. CASE Return(p)
    BY <1>5, <1>r, <2>0, <2>1 DEF Compare, Return, TypeOK, bounds
  <2>2. CASE call' = [call EXCEPT ![p].next = NextSeal(file, p, birth[p])] /\ Goto(p, "replace")
    <3> DEFINE n == NextSeal(file, p, birth[p])
    <3>1. n \in Seals
      BY <1>0, NextSealType DEF TypeOK
    <3> HIDE DEF n
    <3>2. [call[p] EXCEPT !.next = n] \in Call /\ [call[p] EXCEPT !.next = n].op = call[p].op
          /\ [call[p] EXCEPT !.next = n].next = n
      BY <1>0, <3>1 DEF Call
    <3>3. "replace" \in PCs /\ call[p].op # "none"
      BY <1>5 DEF PCs, Compare, TypeOK
    <3>4. call' = [call EXCEPT ![p] = [call[p] EXCEPT !.next = n]]
      BY <2>2 DEF n
    <3>5. /\ pc' \in [Procs -> PCs] /\ call' \in [Procs -> Call]
          /\ \A q \in Procs : pc'[q] \notin {"idle", "down"} => call'[q].op # "none"
          /\ \A q \in Procs : pc'[q] \in {"replace", "reset"} => call'[q].next \in Seals
      BY <2>2, <3>1, <3>2, <3>3, <3>4, MoveType
    <3> QED BY <1>5, <2>0, <3>5 DEF Compare, TypeOK, bounds
  <2> QED BY <1>5, <2>1, <2>2 DEF Compare
<1>6. ASSUME NEW p \in Procs, Replace(p) PROVE TypeOK'
  <2>1. pc[p] = "replace" /\ call[p].next \in Seals
    BY <1>6 DEF Replace, TypeOK
  <2>2. /\ file' \in Files /\ raced' \in [Procs -> SUBSET {"overtaken", "removed"}]
        /\ FileBecomes(Holding(call[p].next, call[p].st))
    BY <1>0, <1>6, <2>1, FileTypes, RacedType DEF Replace
  <2>3. spoiled' \in BOOLEAN
    BY <1>6 DEF Replace
  <2>4. reached' \subseteq Reached
    <3>1. call[p].st.day \in 0..MaxDay /\ Limits(call[p].st) \subseteq {"fees", "trades", "loss"}
      BY <1>0 DEF Stats, Limits
    <3> QED BY <1>6, <3>1 DEF Replace, TypeOK, Reached
  <2>5. fills' \in Nat
    BY <1>6 DEF Replace, TypeOK
  <2>6. rolled' \subseteq [from: 0..MaxDay, to: 0..MaxDay, trades: Nat]
    <3>1. ResetOf(p, fills) \in [from: 0..MaxDay, to: 0..MaxDay, trades: Nat]
      <4>1. call[p].read.data \in Stats /\ call[p].st \in Stats /\ fills \in Nat
        BY <1>0, FileTypes DEF TypeOK
      <4> QED BY <4>1 DEF ResetOf, Stats
    <3> QED BY <1>6, <3>1 DEF Replace, TypeOK
  <2>7. /\ pc' \in [Procs -> PCs] /\ call' \in [Procs -> Call]
        /\ \A q \in Procs : pc'[q] \notin {"idle", "down"} => call'[q].op # "none"
        /\ \A q \in Procs : pc'[q] \in {"replace", "reset"} => call'[q].next \in Seals
    <3>1. CASE call[p].rolls
      <4>1. Goto(p, "reset") /\ UNCHANGED call /\ "reset" \in PCs
        BY <1>6, <3>1 DEF Replace, PCs
      <4> QED BY <2>1, <4>1 DEF TypeOK, Goto
    <3>2. CASE ~call[p].rolls
      BY <1>6, <1>r, <3>2 DEF Replace, Return
    <3> QED BY <3>1, <3>2
  <2>8. resets' = resets
    BY <1>6 DEF Replace
  <2> QED BY <1>6, <2>2, <2>3, <2>4, <2>5, <2>6, <2>7, <2>8 DEF Replace, TypeOK, bounds
<1>7. ASSUME NEW p \in Procs, Reset(p) PROVE TypeOK'
  <2> DEFINE f == Holding(call[p].next, call[p].st)
  <2>1. call[p].next \in Seals /\ call[p].op # "none" /\ f \in Files
    BY <1>0, <1>7, FileTypes DEF Reset, TypeOK
  <2>2. call' = [call EXCEPT ![p] = [call[p] EXCEPT !.rolls = FALSE, !.read = f]] /\ Goto(p, "decide")
    BY <1>7 DEF Reset
  <2> HIDE DEF f
  <2>3. /\ [call[p] EXCEPT !.rolls = FALSE, !.read = f] \in Call
        /\ [call[p] EXCEPT !.rolls = FALSE, !.read = f].op = call[p].op
    BY <1>0, <2>1, LocalsType
  <2>4. "decide" \in PCs
    BY DEF PCs
  <2>5. /\ pc' \in [Procs -> PCs] /\ call' \in [Procs -> Call]
        /\ \A q \in Procs : pc'[q] \notin {"idle", "down"} => call'[q].op # "none"
        /\ \A q \in Procs : pc'[q] \in {"replace", "reset"} => call'[q].next \in Seals
    BY <2>1, <2>2, <2>3, <2>4, MoveType
  <2>6. ResetOf(p, call[p].read.data.trades) \in [from: 0..MaxDay, to: 0..MaxDay, trades: Nat]
    <3>1. call[p].read.data \in Stats /\ call[p].st \in Stats
      BY <1>0, FileTypes
    <3> QED BY <3>1 DEF ResetOf, Stats
  <2>7. resets' \cup rolled' \subseteq [from: 0..MaxDay, to: 0..MaxDay, trades: Nat] /\ faults' \in 0..MaxFaults
    BY <1>7, <2>6, DailyLimitsAssumption DEF Reset, TypeOK, history
  <2> QED BY <1>7, <2>5, <2>7 DEF Reset, TypeOK, history
<1>8. ASSUME NEW p \in Procs, Crash(p) PROVE TypeOK'
  <2>1. crashes' \in 0..MaxCrashes
    BY <1>8, DailyLimitsAssumption DEF Crash, TypeOK
  <2> QED BY <1>8, <1>r, <2>1 DEF Crash, TypeOK, history
<1>9. ASSUME NEW p \in Procs, Restart(p) PROVE TypeOK'
  <2>1. birth' \in [Procs -> Nat] /\ pc' = [pc EXCEPT ![p] = "idle"] /\ UNCHANGED call
    BY <1>9 DEF Restart, TypeOK, Goto
  <2>2. pc' \in [Procs -> PCs] /\ \A q \in Procs : pc'[q] = IF q = p THEN "idle" ELSE pc[q]
    BY <2>1 DEF TypeOK, PCs
  <2> QED BY <1>9, <2>1, <2>2 DEF Restart, TypeOK, history, bounds
<1>10. CASE Midnight
  <2>1. today' \in 1..MaxDay
    BY <1>10, DailyLimitsAssumption DEF Midnight, TypeOK
  <2> QED BY <1>10, <2>1 DEF Midnight, TypeOK, history, bounds
<1>11. CASE ClockBack
  BY <1>11, DailyLimitsAssumption DEF ClockBack, TypeOK, history
<1>12. CASE Damage
  <2>1. file' \in Files /\ raced' \in [Procs -> SUBSET {"overtaken", "removed"}]
    BY <1>12, FileTypes, RacedType DEF Damage
  <2> QED BY <1>12, <2>1, DailyLimitsAssumption DEF Damage, TypeOK
<1>13. CASE HumanDeletes
  <2>1. file' \in Files /\ raced' \in [Procs -> SUBSET {"overtaken", "removed"}]
    BY <1>13, FileTypes, RacedType DEF HumanDeletes
  <2> QED BY <1>13, <2>1, DailyLimitsAssumption DEF HumanDeletes, TypeOK
<1>14. CASE UNCHANGED vars
  BY <1>14 DEF vars, history, bounds, TypeOK
<1> QED BY <1>1, <1>2, <1>3, <1>4, <1>5, <1>6, <1>7, <1>8, <1>9, <1>10, <1>11, <1>12, <1>13, <1>14 DEF Next

\* The types, always.
THEOREM TypeCorrect == Spec => []TypeOK
<1>1. Init => TypeOK
  <2>1. Gone \in Files /\ NoCall \in Call
    BY FileTypes
  <2>2. {0} \subseteq Nat /\ 1 \in 1..MaxDay /\ "idle" \in PCs
        /\ 0 \in 0..MaxCalls /\ 0 \in 0..MaxBacks /\ 0 \in 0..MaxCrashes
        /\ 0 \in 0..MaxFaults /\ 0 \in 0..MaxDamages /\ 0 \in 0..MaxDeletes
    BY DailyLimitsAssumption DEF PCs
  <2> SUFFICES ASSUME Init PROVE TypeOK
    OBVIOUS
  <2>3. pc \in [Procs -> PCs] /\ call \in [Procs -> Call] /\ birth \in [Procs -> Nat]
        /\ \A p \in Procs : pc[p] = "idle"
    BY <2>1, <2>2 DEF Init
  <2>4. raced \in [Procs -> SUBSET {"overtaken", "removed"}] /\ spoiled \in BOOLEAN
    BY DEF Init
  <2> QED BY <2>1, <2>2, <2>3, <2>4 DEF Init, TypeOK
<1> QED BY <1>1, TypeStep, PTL DEF Spec

-----------------------------------------------------------------------------
(* The numbers in hand *)

Recorders == {"fill", "unpriced", "gain", "loss"}
Busy      == {"decide", "compare", "replace", "reset"}
FillOf(op) == IF op \in {"fill", "unpriced"} THEN 1 ELSE 0

\* A fresh day comes of an earlier one that was read, new numbers of the numbers that were read.
DraftedIn(l, c) ==
  /\ l = "decide" =>
       ~c.rolls /\ (IF c.read.status = "OK" THEN c.st = c.read.data ELSE c.st.trades = 0)
  /\ (l \in {"compare", "replace"} /\ c.rolls) =>
       c.read.status = "OK" /\ c.st.trades = 0 /\ c.read.data.day < c.st.day
  /\ (l \in {"compare", "replace"} /\ ~c.rolls) =>
       /\ c.op \in Recorders /\ c.read.status # "UNREADABLE"
       /\ IF c.read.status = "OK"
          THEN c.st.trades = c.read.data.trades + FillOf(c.op) /\ c.st.day = c.read.data.day
          ELSE c.st.trades = FillOf(c.op)
  /\ l = "reset" => c.rolls /\ c.read.status = "OK"
Drafted == \A p \in Procs : DraftedIn(pc[p], call[p])

\* The file as a process knows it: what it read, or what it wrote.
Known(l, c) == IF l = "reset" THEN Holding(c.next, c.st) ELSE c.read

\* A file that a process knows is not newer than the file, and the same if their seals have one
\* number.
Aware(l, c, r, f) ==
  l \in Busy /\ "removed" \notin r =>
    /\ Known(l, c).seal.seq <= f.seal.seq
    /\ Known(l, c).seal.seq = f.seal.seq => Known(l, c) = f

\* Whoever was not overtaken replaces what it read.
Sole(l, c, r, f) ==
  l = "replace" /\ r = {} => c.read = f /\ c.next.seq = f.seal.seq + 1

\* The rollover that the ledger is to be told of is one that took place.
Told(l, c, R) ==
  l = "reset" => [from |-> c.read.data.day, to |-> c.st.day, trades |-> c.read.data.trades] \in R

\* A check that knows of the limit of trades sees that it is reached.
Heeds(l, c) ==
  l \in Busy /\ c.op = "check" /\ <<c.st.day, "trades">> \in c.known =>
    c.st.trades >= MaxTrades \/ c.read.status = "UNREADABLE"

Fits(l, c, r, f, R) == Aware(l, c, r, f) /\ Sole(l, c, r, f) /\ Told(l, c, R) /\ Heeds(l, c)
Processes == \A p \in Procs : Fits(pc[p], call[p], raced[p], file, rolled)

\* The numbers on file are those of the history, and no limit is of a later day.
Counted ==
  /\ FillsCounted
  /\ file.status = "ABSENT" => fills = 0 /\ reached = {}
  /\ file.status = "OK" =>
       /\ \A r \in reached : r[1] <= file.data.day
       /\ <<file.data.day, "trades">> \in reached => file.data.trades >= MaxTrades
  /\ resets \subseteq rolled
  /\ "trades" \notin ignored

Recording == Drafted /\ (spoiled \/ (Counted /\ Processes))

\* A step of p to l with the locals c moves nobody else.
LEMMA Moved ==
  ASSUME TypeOK, NEW p \in Procs, NEW l, NEW c, Goto(p, l), call' = [call EXCEPT ![p] = c]
  PROVE  /\ pc'[p] = l /\ call'[p] = c
         /\ \A q \in Procs \ {p} : pc'[q] = pc[q] /\ call'[q] = call[q]
BY DEF TypeOK, Goto

\* What the steps of a call leave in hand.
LEMMA Drafts ==
  ASSUME TypeOK, Drafted, NEW p \in Procs
  PROVE  /\ \A op \in Ops : Load(p, op) =>
              DraftedIn(IF NeedsRollover(file) THEN "compare" ELSE "decide", Began(p, op))
         /\ Record(p) => DraftedIn("compare", [call[p] EXCEPT !.st = Recorded(call[p].op, call[p].st)])
         /\ Compare(p) => \A n \in Seals : DraftedIn("replace", [call[p] EXCEPT !.next = n])
         /\ Replace(p) /\ call[p].rolls => DraftedIn("reset", call[p])
         /\ Reset(p) => DraftedIn("decide", [call[p] EXCEPT !.rolls = FALSE,
                                               !.read = Holding(call[p].next, call[p].st)])
<1>0. /\ file \in Files /\ file.data \in Stats /\ call[p] \in Call /\ call[p].st \in Stats /\ today \in 0..MaxDay
      /\ call[p].read \in Files /\ call[p].read.data \in Stats
  BY FileTypes, DailyLimitsAssumption DEF TypeOK, Call
<1>1. ASSUME NEW op \in Ops, Load(p, op)
      PROVE  DraftedIn(IF NeedsRollover(file) THEN "compare" ELSE "decide", Began(p, op))
  <2>1. /\ Began(p, op).read = file /\ Began(p, op).rolls = NeedsRollover(file)
        /\ Began(p, op).st = IF file.status = "OK" /\ ~NeedsRollover(file) THEN file.data ELSE Fresh(today)
    BY BeganType
  <2>2. Fresh(today).day = today /\ Fresh(today).trades = 0
    BY <1>0, FreshStats
  <2>3. CASE NeedsRollover(file)
    <3>1. file.status = "OK" /\ file.data.day < today
      BY <2>3 DEF NeedsRollover
    <3> QED BY <2>1, <2>2, <2>3, <3>1 DEF DraftedIn
  <2>4. CASE ~NeedsRollover(file)
    BY <2>1, <2>2, <2>4 DEF DraftedIn
  <2> QED BY <2>3, <2>4
<1>2. ASSUME Record(p)
      PROVE  DraftedIn("compare", [call[p] EXCEPT !.st = Recorded(call[p].op, call[p].st)])
  <2> DEFINE st == Recorded(call[p].op, call[p].st)
             d  == [call[p] EXCEPT !.st = st]
  <2>1. /\ call[p].op \in Recorders /\ call[p].read.status # "UNREADABLE"
        /\ DraftedIn("decide", call[p])
    BY <1>0, <1>2 DEF Record, TypeOK, Call, Ops, Recorders, Drafted
  <2>2. /\ st \in Stats /\ st.day = call[p].st.day
        /\ st.trades = call[p].st.trades + FillOf(call[p].op)
    BY <1>0, <2>1, RecordedStats DEF Recorders, FillOf
  <2> HIDE DEF st
  <2>3. d.st = st /\ d.op = call[p].op /\ d.read = call[p].read /\ d.rolls = call[p].rolls
    BY <1>0 DEF Call
  <2> HIDE DEF d
  <2>4. ~call[p].rolls /\ IF call[p].read.status = "OK" THEN call[p].st = call[p].read.data ELSE call[p].st.trades = 0
    BY <2>1 DEF DraftedIn
  <2>5. FillOf(call[p].op) \in Nat
    BY DEF FillOf
  <2>6. DraftedIn("compare", d)
    BY <2>1, <2>2, <2>3, <2>4, <2>5 DEF DraftedIn
  <2> QED BY <2>6 DEF d, st
<1>3. ASSUME Compare(p), NEW n \in Seals
      PROVE  DraftedIn("replace", [call[p] EXCEPT !.next = n])
  <2> DEFINE d == [call[p] EXCEPT !.next = n]
  <2>1. d.st = call[p].st /\ d.op = call[p].op /\ d.read = call[p].read /\ d.rolls = call[p].rolls
    BY <1>0 DEF Call
  <2>2. DraftedIn("compare", call[p])
    BY <1>3 DEF Compare, Drafted
  <2> HIDE DEF d
  <2>3. DraftedIn("replace", d)
    BY <2>1, <2>2 DEF DraftedIn
  <2> QED BY <2>3 DEF d
<1>4. ASSUME Replace(p), call[p].rolls PROVE DraftedIn("reset", call[p])
  <2>1. DraftedIn("replace", call[p])
    BY <1>4 DEF Replace, Drafted
  <2> QED BY <1>4, <2>1 DEF DraftedIn
<1>5. ASSUME Reset(p)
      PROVE  DraftedIn("decide", [call[p] EXCEPT !.rolls = FALSE, !.read = Holding(call[p].next, call[p].st)])
  <2> DEFINE f == Holding(call[p].next, call[p].st)
             d == [call[p] EXCEPT !.rolls = FALSE, !.read = f]
  <2>1. f \in Files /\ f.status = "OK" /\ f.data = call[p].st
    BY <1>0, <1>5, FileTypes DEF Reset, TypeOK
  <2> HIDE DEF f
  <2>2. d.st = call[p].st /\ d.read = f /\ d.rolls = FALSE
    BY <1>0 DEF Call
  <2> HIDE DEF d
  <2>3. DraftedIn("decide", d)
    BY <2>1, <2>2 DEF DraftedIn
  <2> QED BY <2>3 DEF d, f
<1> QED BY <1>1, <1>2, <1>3, <1>4, <1>5

LEMMA DraftedStep ==
  ASSUME TypeOK, Drafted, [Next]_vars
  PROVE  Drafted'
<1>i. \A l \in {"idle", "down"} : \A c : DraftedIn(l, c)
  BY DEF DraftedIn
<1>m. ASSUME NEW p \in Procs, NEW l, NEW c, Goto(p, l), call' = [call EXCEPT ![p] = c], DraftedIn(l, c)
      PROVE  Drafted'
  <2>1. /\ pc'[p] = l /\ call'[p] = c
        /\ \A q \in Procs \ {p} : pc'[q] = pc[q] /\ call'[q] = call[q]
    BY <1>m, Moved
  <2>2. ASSUME NEW q \in Procs PROVE DraftedIn(pc'[q], call'[q])
    <3>1. CASE q = p
      BY <1>m, <2>1, <3>1
    <3>2. CASE q # p
      <4>1. DraftedIn(pc[q], call[q]) /\ pc'[q] = pc[q] /\ call'[q] = call[q]
        BY <2>1, <3>2 DEF Drafted
      <4> QED BY <4>1
    <3> QED BY <3>1, <3>2
  <2> QED BY <2>2 DEF Drafted
<1>1. ASSUME NEW p \in Procs, NEW op \in Ops, Load(p, op) PROVE Drafted'
  <2>1. /\ call' = [call EXCEPT ![p] = Began(p, op)]
        /\ Goto(p, IF NeedsRollover(file) THEN "compare" ELSE "decide")
    BY <1>1 DEF Load, Began
  <2> QED BY <1>1, <1>m, <2>1, Drafts
<1>2. ASSUME NEW p \in Procs, Check(p) \/ Stop(p) PROVE Drafted'
  BY <1>2, <1>i, <1>m DEF Check, Stop, Return
<1>4. ASSUME NEW p \in Procs, Record(p) PROVE Drafted'
  <2>1. /\ call' = [call EXCEPT ![p] = [call[p] EXCEPT !.st = Recorded(call[p].op, call[p].st)]]
        /\ Goto(p, "compare")
    BY <1>4 DEF Record
  <2> QED BY <1>4, <1>m, <2>1, Drafts
<1>5. ASSUME NEW p \in Procs, Compare(p) PROVE Drafted'
  <2>1. CASE Return(p)
    BY <1>i, <1>m, <2>1 DEF Return
  <2>2. CASE call' = [call EXCEPT ![p].next = NextSeal(file, p, birth[p])] /\ Goto(p, "replace")
    <3>1. NextSeal(file, p, birth[p]) \in Seals
      BY NextSealType DEF TypeOK
    <3>2. call' = [call EXCEPT ![p] = [call[p] EXCEPT !.next = NextSeal(file, p, birth[p])]]
      BY <2>2
    <3> QED BY <1>5, <1>m, <2>2, <3>1, <3>2, Drafts
  <2> QED BY <1>5, <2>1, <2>2 DEF Compare
<1>6. ASSUME NEW p \in Procs, Replace(p) PROVE Drafted'
  <2>1. CASE call[p].rolls
    <3>1. Goto(p, "reset") /\ call' = [call EXCEPT ![p] = call[p]]
      BY <1>6, <2>1 DEF Replace, TypeOK
    <3> QED BY <1>6, <1>m, <2>1, <3>1, Drafts
  <2>2. CASE ~call[p].rolls
    BY <1>6, <1>i, <1>m, <2>2 DEF Replace, Return
  <2> QED BY <2>1, <2>2
<1>7. ASSUME NEW p \in Procs, Reset(p) PROVE Drafted'
  <2>1. /\ Goto(p, "decide")
        /\ call' = [call EXCEPT ![p] = [call[p] EXCEPT !.rolls = FALSE, !.read = Holding(call[p].next, call[p].st)]]
    BY <1>7 DEF Reset
  <2> QED BY <1>7, <1>m, <2>1, Drafts
<1>8. ASSUME NEW p \in Procs, Crash(p) PROVE Drafted'
  BY <1>8, <1>i, <1>m DEF Crash
<1>9. ASSUME NEW p \in Procs, Restart(p) PROVE Drafted'
  <2>1. Goto(p, "idle") /\ call' = [call EXCEPT ![p] = call[p]]
    BY <1>9 DEF Restart, TypeOK
  <2> QED BY <1>i, <1>m, <2>1
<1>10. CASE Midnight \/ ClockBack \/ Damage \/ HumanDeletes \/ UNCHANGED vars
  BY <1>10 DEF Midnight, ClockBack, Damage, HumanDeletes, vars, Drafted
<1> QED BY <1>1, <1>2, <1>4, <1>5, <1>6, <1>7, <1>8, <1>9, <1>10 DEF Next

\* A process that is in no call fits everything.
LEMMA IdleFits ==
  \A l \in {"idle", "down"} : \A c, r, f, R : Fits(l, c, r, f, R)
BY DEF Fits, Aware, Sole, Told, Heeds, Busy

\* A step of p that leaves the file alone concerns p only.
LEMMA OwnStep ==
  ASSUME TypeOK, Processes, NEW p \in Procs, NEW l, NEW c, Goto(p, l), call' = [call EXCEPT ![p] = c],
         UNCHANGED <<file, rolled>>, \A q \in Procs \ {p} : raced'[q] = raced[q],
         Fits(l, c, raced'[p], file, rolled)
  PROVE  Processes'
<1>1. /\ pc'[p] = l /\ call'[p] = c
      /\ \A q \in Procs \ {p} : pc'[q] = pc[q] /\ call'[q] = call[q]
  BY Moved
<1>2. ASSUME NEW q \in Procs PROVE Fits(pc'[q], call'[q], raced'[q], file', rolled')
  <2>1. CASE q = p
    BY <1>1, <2>1
  <2>2. CASE q # p
    <3>1. /\ Fits(pc[q], call[q], raced[q], file, rolled)
          /\ pc'[q] = pc[q] /\ call'[q] = call[q] /\ raced'[q] = raced[q]
      BY <1>1, <2>2 DEF Processes
    <3> QED BY <3>1
  <2> QED BY <2>1, <2>2
<1> QED BY <1>2 DEF Processes

\* A call begins with the file as it is, and knows of no limit of trades that it cannot see.
LEMMA LoadFits ==
  ASSUME TypeOK, Counted, NEW p \in Procs, NEW op \in Ops, Load(p, op)
  PROVE  Fits(IF NeedsRollover(file) THEN "compare" ELSE "decide", Began(p, op), {}, file, rolled)
<1> DEFINE l == IF NeedsRollover(file) THEN "compare" ELSE "decide"
           c == Began(p, op)
<1>0. /\ file \in Files /\ file.data \in Stats /\ file.seal.seq \in Nat /\ today \in 0..MaxDay
      /\ file.data.day \in Nat
  BY FileTypes, DailyLimitsAssumption DEF TypeOK, Stats
<1>1. /\ c.read = file /\ c.rolls = NeedsRollover(file) /\ c.known = reached
      /\ c.st = IF file.status = "OK" /\ ~NeedsRollover(file) THEN file.data ELSE Fresh(today)
  BY BeganType
<1>2. l \in {"compare", "decide"}
  OBVIOUS
<1>3. ASSUME <<c.st.day, "trades">> \in c.known
      PROVE  c.st.trades >= MaxTrades \/ c.read.status = "UNREADABLE"
  <2>1. file.status \in {"ABSENT", "OK", "UNREADABLE"}
    BY <1>0 DEF Files
  <2>2. file.status # "ABSENT"
    BY <1>1, <1>3 DEF Counted
  <2>3. CASE file.status = "OK" /\ NeedsRollover(file)
    <3>1. c.st.day = today /\ file.data.day < today
      BY <1>0, <1>1, <2>3, FreshStats DEF NeedsRollover
    <3>2. <<c.st.day, "trades">>[1] <= file.data.day
      BY <1>1, <1>3, <2>3 DEF Counted
    <3> QED BY <1>0, <3>1, <3>2
  <2>4. CASE file.status = "OK" /\ ~NeedsRollover(file)
    BY <1>1, <1>3, <2>4 DEF Counted
  <2> QED BY <1>1, <2>1, <2>2, <2>3, <2>4
<1> HIDE DEF l, c
<1>4. Fits(l, c, {}, file, rolled)
  BY <1>0, <1>1, <1>2, <1>3 DEF Fits, Aware, Sole, Told, Heeds, Known
<1> QED BY <1>4 DEF l, c

\* The other steps of a call.
LEMMA CallFits ==
  ASSUME TypeOK, Drafted, Processes, NEW p \in Procs
  PROVE  /\ Record(p) =>
              Fits("compare", [call[p] EXCEPT !.st = Recorded(call[p].op, call[p].st)], raced[p], file, rolled)
         /\ Compare(p) /\ file.seal = call[p].read.seal =>
              Fits("replace", [call[p] EXCEPT !.next = NextSeal(file, p, birth[p])],
                   raced[p] \ {"overtaken"}, file, rolled)
         /\ Reset(p) =>
              Fits("decide", [call[p] EXCEPT !.rolls = FALSE, !.read = Holding(call[p].next, call[p].st)],
                   raced[p], file, rolled)
<1>0. /\ file \in Files /\ call[p] \in Call /\ call[p].st \in Stats /\ call[p].read \in Files
      /\ file.seal.seq \in Nat /\ birth[p] \in Nat /\ raced[p] \subseteq {"overtaken", "removed"}
  BY FileTypes DEF TypeOK, Call
<1>f. Fits(pc[p], call[p], raced[p], file, rolled)
  BY DEF Processes
<1>1. ASSUME Record(p)
      PROVE  Fits("compare", [call[p] EXCEPT !.st = Recorded(call[p].op, call[p].st)], raced[p], file, rolled)
  <2> DEFINE st == Recorded(call[p].op, call[p].st)
             d  == [call[p] EXCEPT !.st = st]
  <2> HIDE DEF st
  <2>1. d.op = call[p].op /\ d.read = call[p].read
    BY <1>0 DEF Call
  <2> HIDE DEF d
  <2>2. pc[p] = "decide" /\ call[p].op # "check"
    BY <1>1 DEF Record
  <2>3. Known("compare", d) = Known("decide", call[p])
    BY <2>1 DEF Known
  <2>4. Fits("compare", d, raced[p], file, rolled)
    BY <1>f, <2>1, <2>2, <2>3 DEF Fits, Aware, Sole, Told, Heeds, Busy
  <2> QED BY <2>4 DEF d, st
<1>2. ASSUME Compare(p), file.seal = call[p].read.seal
      PROVE  Fits("replace", [call[p] EXCEPT !.next = NextSeal(file, p, birth[p])],
                  raced[p] \ {"overtaken"}, file, rolled)
  <2> DEFINE n == NextSeal(file, p, birth[p])
             d == [call[p] EXCEPT !.next = n]
             r == raced[p] \ {"overtaken"}
  <2>1. n \in Seals /\ n.seq = file.seal.seq + 1
    BY <1>0, NextSealType
  <2> HIDE DEF n
  <2>2. d.op = call[p].op /\ d.read = call[p].read /\ d.st = call[p].st /\ d.known = call[p].known /\ d.next = n
    BY <1>0, <2>1 DEF Call
  <2> HIDE DEF d
  <2>3. pc[p] = "compare"
    BY <1>2 DEF Compare
  <2>4. "removed" \in r <=> "removed" \in raced[p]
    OBVIOUS
  <2>5. Known("replace", d) = Known("compare", call[p]) /\ Known("compare", call[p]) = call[p].read
    BY <2>2 DEF Known
  <2>6. Aware("replace", d, r, file)
    BY <1>f, <2>3, <2>4, <2>5 DEF Fits, Aware, Busy
  <2>7. Sole("replace", d, r, file)
    BY <1>f, <1>2, <2>1, <2>2, <2>3, <2>4, <2>5 DEF Fits, Aware, Sole, Busy
  <2>8. Told("replace", d, rolled) /\ Heeds("replace", d)
    BY <1>f, <2>2, <2>3 DEF Fits, Told, Heeds, Busy
  <2>9. Fits("replace", d, r, file, rolled)
    BY <2>6, <2>7, <2>8 DEF Fits
  <2> QED BY <2>9 DEF d, n
<1>3. ASSUME Reset(p)
      PROVE  Fits("decide", [call[p] EXCEPT !.rolls = FALSE, !.read = Holding(call[p].next, call[p].st)],
                  raced[p], file, rolled)
  <2> DEFINE f == Holding(call[p].next, call[p].st)
             d == [call[p] EXCEPT !.rolls = FALSE, !.read = f]
  <2>1. Known("reset", call[p]) = f
    BY DEF Known
  <2> HIDE DEF f
  <2>2. d.op = call[p].op /\ d.read = f /\ d.st = call[p].st /\ d.known = call[p].known
    BY <1>0 DEF Call
  <2> HIDE DEF d
  <2>3. pc[p] = "reset" /\ DraftedIn(pc[p], call[p])
    BY <1>3 DEF Reset, Drafted
  <2>4. Known("decide", d) = f
    BY <2>2 DEF Known
  <2>5. Fits("decide", d, raced[p], file, rolled)
    BY <1>f, <2>1, <2>2, <2>3, <2>4 DEF Fits, Aware, Sole, Told, Heeds, Busy, DraftedIn
  <2> QED BY <2>5 DEF d, f
<1> QED BY <1>1, <1>2, <1>3

\* What a replace that no race spoils makes of the file, and of what the others know.
LEMMA ReplaceSole ==
  ASSUME TypeOK, Drafted, Counted, Processes, NEW p \in Procs, Replace(p), ~spoiled'
  PROVE  Counted' /\ Processes'
         /\ (file.status = "OK" /\ file'.status = "OK" => file'.data.day >= file.data.day)
<1> DEFINE c == call[p]
<1>0. /\ file \in Files /\ file.data \in Stats /\ file.seal.seq \in Nat /\ c \in Call /\ c.st \in Stats
      /\ c.next \in Seals /\ pc[p] = "replace" /\ fills \in Nat /\ file.data.trades \in Nat
      /\ file.data.day \in Nat /\ c.st.day \in Nat /\ c.st.trades \in Nat
  <2>1. pc[p] = "replace" /\ c.next \in Seals
    BY DEF Replace, TypeOK
  <2>2. file \in Files /\ c \in Call /\ c.st \in Stats /\ fills \in Nat
    BY DEF TypeOK, Call
  <2>3. file.data \in Stats /\ file.seal.seq \in Nat
    BY <2>2, FileTypes
  <2> QED BY <2>1, <2>2, <2>3 DEF Stats
<1>1. raced[p] = {} /\ c.read = file /\ c.next.seq = file.seal.seq + 1 /\ DraftedIn("replace", c)
      /\ Heeds("replace", c)
  BY <1>0 DEF Replace, Processes, Fits, Sole, Drafted
<1>2. file' = Holding(c.next, c.st) /\ FileBecomes(file')
  BY DEF Replace, FileBecomes
<1>3. file'.status = "OK" /\ file'.data = c.st /\ file'.seal = c.next /\ file' # Gone
  BY <1>0, <1>2, FileTypes DEF Gone, Absent
<1>4. /\ reached' = reached \cup {<<c.st.day, l>> : l \in Limits(c.st)}
      /\ UNCHANGED <<resets, ignored>>
  BY DEF Replace
<1>5. file.status \in {"OK", "ABSENT", "UNREADABLE"}
  BY <1>0 DEF Files
<1>6. file.status = "OK" => c.st.day >= file.data.day
  BY <1>0, <1>1 DEF DraftedIn
<1>7. /\ c.rolls => fills' = 0 /\ rolled' = rolled \cup {ResetOf(p, fills)} /\ Goto(p, "reset") /\ UNCHANGED call
      /\ ~c.rolls => fills' = fills + FillOf(c.op) /\ UNCHANGED rolled /\ Return(p)
  BY DEF Replace, FillOf
<1>8. c.rolls \in BOOLEAN /\ FillOf(c.op) \in Nat
  BY <1>0 DEF Call, FillOf
<1>9. Counted'
  <2>1. c.st.trades = fills'
    <3>1. CASE c.rolls
      BY <1>1, <1>7, <3>1 DEF DraftedIn
    <3>2. CASE ~c.rolls
      <4>1. fills' = fills + FillOf(c.op) /\ file.status # "UNREADABLE"
        BY <1>1, <1>7, <3>2 DEF DraftedIn
      <4>2. CASE file.status = "OK"
        <5>1. c.st.trades = file.data.trades + FillOf(c.op) /\ file.data.trades = fills
          BY <1>1, <3>2, <4>2 DEF DraftedIn, Counted, FillsCounted
        <5> QED BY <4>1, <5>1
      <4>3. CASE file.status = "ABSENT"
        <5>1. c.st.trades = FillOf(c.op) /\ fills = 0
          BY <1>1, <3>2, <4>3 DEF DraftedIn, Counted
        <5> QED BY <1>8, <4>1, <5>1
      <4> QED BY <1>5, <4>1, <4>2, <4>3
    <3> QED BY <1>8, <3>1, <3>2
  <2>2. file.status # "UNREADABLE"
    BY <1>1, <1>8 DEF DraftedIn
  <2>3. \A r \in reached : r[1] <= c.st.day
    <3>1. CASE file.status = "OK"
      <4>1. ASSUME NEW r \in reached PROVE r[1] <= c.st.day
        <5>1. r[1] <= file.data.day /\ r[1] \in Int
          BY <3>1 DEF Counted, TypeOK, Reached
        <5> QED BY <1>0, <1>6, <3>1, <5>1
      <4> QED BY <4>1
    <3>2. CASE file.status = "ABSENT"
      BY <3>2 DEF Counted
    <3> QED BY <1>5, <2>2, <3>1, <3>2
  <2>4. \A r \in reached' : r[1] <= c.st.day
    BY <1>0, <1>4, <2>3
  <2>5. ASSUME <<c.st.day, "trades">> \in reached PROVE c.st.trades >= MaxTrades
    <3>1. file.status = "OK"
      BY <1>5, <2>2, <2>5 DEF Counted
    <3>2. <<c.st.day, "trades">>[1] <= file.data.day
      BY <2>5, <3>1 DEF Counted
    <3>3. c.st.day = file.data.day /\ ~c.rolls
      BY <1>0, <1>1, <1>6, <3>1, <3>2 DEF DraftedIn
    <3>4. c.st.trades = file.data.trades + FillOf(c.op) /\ file.data.trades >= MaxTrades
      BY <1>1, <2>5, <3>1, <3>3 DEF DraftedIn, Counted
    <3> QED BY <1>0, <1>8, <3>4, DailyStatsAssumption
  <2>6. ASSUME <<c.st.day, "trades">> \in reached' PROVE c.st.trades >= MaxTrades
    <3>1. <<c.st.day, "trades">> \in reached \/ "trades" \in Limits(c.st)
      BY <1>4, <2>6
    <3>2. "trades" \in Limits(c.st) => c.st.trades >= MaxTrades
      BY DEF Limits
    <3> QED BY <2>5, <3>1, <3>2
  <2>7. resets' \subseteq rolled' /\ "trades" \notin ignored'
    BY <1>4, <1>7, <1>8 DEF Counted
  <2> QED BY <1>3, <2>1, <2>4, <2>6, <2>7 DEF Counted, FillsCounted
<1>10. Processes'
  <2>1. rolled \subseteq rolled'
    BY <1>7, <1>8
  <2>2. \A q \in Procs : /\ pc[q] = "replace" => "overtaken" \in raced'[q]
                         /\ "removed" \in raced'[q] <=> "removed" \in raced[q]
    BY <1>2, <1>3, RacedType
  <2>3. ASSUME NEW q \in Procs, q # p PROVE Fits(pc'[q], call'[q], raced'[q], file', rolled')
    <3>1. pc'[q] = pc[q] /\ call'[q] = call[q]
      BY <1>7, <1>8, <2>3 DEF Return, Goto, TypeOK
    <3>2. Fits(pc[q], call[q], raced[q], file, rolled)
      BY DEF Processes
    <3>3. Aware(pc[q], call[q], raced'[q], file')
      <4> DEFINE k == Known(pc[q], call[q]).seal.seq
      <4> SUFFICES ASSUME pc[q] \in Busy, "removed" \notin raced'[q]
                   PROVE  k <= file'.seal.seq /\ k # file'.seal.seq
        BY DEF Aware
      <4>1. k <= file.seal.seq
        BY <2>2, <3>2 DEF Fits, Aware
      <4>2. k \in Int
        <5>1. call[q] \in Call /\ call[q].read \in Files
          BY DEF TypeOK, Call
        <5>2. pc[q] = "reset" => call[q].next \in Seals
          BY DEF TypeOK
        <5>3. call[q].read.seal.seq \in Nat
          BY <5>1, FileTypes
        <5>4. call[q].next \in Seals => Holding(call[q].next, call[q].st).seal.seq \in Nat
          BY DEF Holding, Seals
        <5> QED BY <5>2, <5>3, <5>4 DEF Known
      <4> HIDE DEF k
      <4>3. file'.seal.seq = file.seal.seq + 1
        BY <1>1, <1>3
      <4> QED BY <1>0, <4>1, <4>2, <4>3
    <3>4. Sole(pc[q], call[q], raced'[q], file')
      BY <2>2 DEF Sole
    <3>5. Told(pc[q], call[q], rolled') /\ Heeds(pc[q], call[q])
      BY <2>1, <3>2 DEF Fits, Told
    <3>6. Fits(pc[q], call[q], raced'[q], file', rolled')
      BY <3>3, <3>4, <3>5 DEF Fits
    <3> QED BY <3>1, <3>6
  <2>4. Fits(pc'[p], call'[p], raced'[p], file', rolled')
    <3>1. CASE ~c.rolls
      <4>1. pc'[p] = "idle"
        BY <1>7, <3>1 DEF Return, Goto, TypeOK
      <4> QED BY <4>1, IdleFits
    <3>2. CASE c.rolls
      <4>1. pc'[p] = "reset" /\ call'[p] = c
        BY <1>7, <3>2 DEF Goto, TypeOK
      <4>2. Aware("reset", c, raced'[p], file')
        <5>1. Known("reset", c) = file' /\ file'.seal.seq \in Int
          BY <1>0, <1>1, <1>2, <1>3 DEF Known
        <5> QED BY <5>1 DEF Aware
      <4>3. Told("reset", c, rolled')
        <5>1. c.read.data.trades = fills
          BY <1>1, <3>2 DEF DraftedIn, Counted, FillsCounted
        <5> QED BY <1>7, <3>2, <5>1 DEF Told, ResetOf
      <4>4. Heeds("reset", c) /\ Sole("reset", c, raced'[p], file')
        BY <1>1 DEF Heeds, Sole, Busy
      <4>5. Fits("reset", c, raced'[p], file', rolled')
        BY <4>2, <4>3, <4>4 DEF Fits
      <4> QED BY <4>1, <4>5
    <3> QED BY <1>8, <3>1, <3>2
  <2> QED BY <2>3, <2>4 DEF Processes
<1> QED BY <1>3, <1>6, <1>9, <1>10

\* Nothing makes a race good.
LEMMA SpoiledStays ==
  ASSUME [Next]_vars, spoiled
  PROVE  spoiled'
BY DEF Next, vars, history, Load, Check, Stop, Record, Compare, Replace, Reset, Crash, Restart,
       Midnight, ClockBack, Damage, HumanDeletes

LEMMA UnspoiledStep ==
  ASSUME TypeOK, Drafted, Counted, Processes, [Next]_vars, ~spoiled'
  PROVE  /\ Counted' /\ Processes'
         /\ (file.status = "OK" /\ file'.status = "OK" => file'.data.day >= file.data.day)
<1> DEFINE Forward == file.status = "OK" /\ file'.status = "OK" => file'.data.day >= file.data.day
           Goal == Counted' /\ Processes' /\ Forward
<1>f. UNCHANGED file => Forward
  <2>1. file.data \in Stats
    BY FileTypes DEF TypeOK
  <2>2. file.data.day \in Nat
    BY <2>1 DEF Stats
  <2> QED BY <2>2
<1> HIDE DEF Forward
<1>c. UNCHANGED <<file, fills, reached, resets, rolled, ignored>> => Counted'
  BY DEF Counted, FillsCounted
<1>r. ASSUME NEW p \in Procs, NEW l \in {"idle", "down"}, NEW c, Goto(p, l), call' = [call EXCEPT ![p] = c],
             UNCHANGED <<file, rolled>>, \A q \in Procs \ {p} : raced'[q] = raced[q]
      PROVE  Processes'
  BY <1>r, IdleFits, OwnStep
<1>1. ASSUME NEW p \in Procs, NEW op \in Ops, Load(p, op) PROVE Goal
  <2>1. /\ call' = [call EXCEPT ![p] = Began(p, op)]
        /\ Goto(p, IF NeedsRollover(file) THEN "compare" ELSE "decide")
        /\ raced' = [raced EXCEPT ![p] = {}]
        /\ UNCHANGED <<file, fills, reached, resets, rolled, ignored>>
    BY <1>1 DEF Load, Began
  <2>2. raced'[p] = {} /\ \A q \in Procs \ {p} : raced'[q] = raced[q]
    BY <2>1 DEF TypeOK
  <2>3. Processes'
    BY <1>1, <2>1, <2>2, LoadFits, OwnStep
  <2> QED BY <1>c, <1>f, <2>1, <2>3
<1>2. ASSUME NEW p \in Procs, Check(p) PROVE Goal
  <2> DEFINE c == call[p]
  <2>0. /\ pc[p] = "decide" /\ c.op = "check" /\ Heeds("decide", c) /\ DraftedIn("decide", c)
        /\ c \in Call /\ c.st \in Stats
    BY <1>2 DEF Check, Processes, Fits, Drafted, TypeOK, Call
  <2>1. /\ Return(p) /\ UNCHANGED <<file, fills, reached, resets, rolled, raced>>
    BY <1>2 DEF Check
  <2>2. "trades" \notin ignored'
    <3>1. CASE Denied(p) \/ Limits(c.st) # {}
      BY <1>2, <3>1 DEF Check, Counted
    <3>2. CASE ~(Denied(p) \/ Limits(c.st) # {})
      <4>1. ignored' = ignored \cup {r[2] : r \in {x \in c.known : x[1] = c.st.day \/ x[2] = "fees"}}
        BY <1>2, <3>2 DEF Check
      <4>2. SUFFICES ASSUME NEW x \in c.known, x[1] = c.st.day, x[2] = "trades" PROVE FALSE
        BY <4>1 DEF Counted
      <4>3. x = <<c.st.day, "trades">>
        BY <2>0, <4>2 DEF Call, Reached
      <4>4. c.st.trades >= MaxTrades
        BY <2>0, <3>2, <4>2, <4>3 DEF Heeds, Busy, Denied
      <4>5. "trades" \in Limits(c.st)
        BY <4>4 DEF Limits
      <4> QED BY <3>2, <4>5
    <3> QED BY <3>1, <3>2
  <2>3. Counted'
    BY <2>1, <2>2 DEF Counted, FillsCounted
  <2>4. Processes'
    BY <1>r, <2>1 DEF Return
  <2> QED BY <1>f, <2>1, <2>3, <2>4
<1>3. ASSUME NEW p \in Procs, Stop(p) PROVE Goal
  <2>1. Return(p) /\ UNCHANGED <<file, fills, reached, resets, rolled, ignored, raced>>
    BY <1>3 DEF Stop, history
  <2> QED BY <1>c, <1>f, <1>r, <2>1 DEF Return
<1>4. ASSUME NEW p \in Procs, Record(p) PROVE Goal
  <2>1. /\ call' = [call EXCEPT ![p] = [call[p] EXCEPT !.st = Recorded(call[p].op, call[p].st)]]
        /\ Goto(p, "compare")
        /\ UNCHANGED <<file, fills, reached, resets, rolled, ignored, raced>>
    BY <1>4 DEF Record, history
  <2>2. Processes'
    BY <1>4, <2>1, CallFits, OwnStep
  <2> QED BY <1>c, <1>f, <2>1, <2>2
<1>5. ASSUME NEW p \in Procs, Compare(p) PROVE Goal
  <2>1. /\ UNCHANGED <<file, fills, reached, resets, rolled, ignored>>
        /\ raced' = [raced EXCEPT ![p] = raced[p] \ {"overtaken"}]
    BY <1>5 DEF Compare
  <2>2. raced'[p] = raced[p] \ {"overtaken"} /\ \A q \in Procs \ {p} : raced'[q] = raced[q]
    BY <2>1 DEF TypeOK
  <2>3. CASE file.seal = call[p].read.seal
    <3>1. /\ call' = [call EXCEPT ![p] = [call[p] EXCEPT !.next = NextSeal(file, p, birth[p])]]
          /\ Goto(p, "replace")
      BY <1>5, <2>3 DEF Compare, MayReplace
    <3>2. Processes'
      BY <1>5, <2>1, <2>2, <2>3, <3>1, CallFits, OwnStep
    <3> QED BY <1>c, <1>f, <2>1, <3>2
  <2>4. CASE file.seal # call[p].read.seal
    <3>1. Return(p)
      BY <1>5, <2>4 DEF Compare, MayReplace
    <3> QED BY <1>c, <1>f, <1>r, <2>1, <2>2, <3>1 DEF Return
  <2> QED BY <2>3, <2>4
<1>6. ASSUME NEW p \in Procs, Replace(p) PROVE Goal
  BY <1>6, ReplaceSole DEF Forward
<1>7. ASSUME NEW p \in Procs, Reset(p) PROVE Goal
  <2>1. /\ Goto(p, "decide") /\ pc[p] = "reset"
        /\ call' = [call EXCEPT ![p] = [call[p] EXCEPT !.rolls = FALSE, !.read = Holding(call[p].next, call[p].st)]]
        /\ UNCHANGED <<file, fills, reached, rolled, ignored, raced>>
        /\ resets' \subseteq resets \cup {ResetOf(p, call[p].read.data.trades)}
    BY <1>7 DEF Reset, history
  <2>2. ResetOf(p, call[p].read.data.trades) \in rolled
    BY <2>1 DEF Processes, Fits, Told, ResetOf
  <2>3. Counted'
    BY <2>1, <2>2 DEF Counted, FillsCounted
  <2>4. Processes'
    BY <1>7, <2>1, CallFits, OwnStep
  <2> QED BY <1>f, <2>1, <2>3, <2>4
<1>8. ASSUME NEW p \in Procs, Crash(p) PROVE Goal
  BY <1>8, <1>c, <1>f, <1>r DEF Crash, history
<1>9. ASSUME NEW p \in Procs, Restart(p) PROVE Goal
  <2>1. Goto(p, "idle") /\ call' = [call EXCEPT ![p] = call[p]]
        /\ UNCHANGED <<file, fills, reached, resets, rolled, ignored, raced>>
    BY <1>9 DEF Restart, TypeOK, history
  <2> QED BY <1>c, <1>f, <1>r, <2>1
<1>10. ASSUME Midnight \/ ClockBack \/ UNCHANGED vars PROVE Goal
  <2>1. UNCHANGED <<pc, call, file, fills, reached, resets, rolled, ignored, raced>>
    BY <1>10 DEF Midnight, ClockBack, vars, history
  <2>2. Processes'
    BY <2>1 DEF Processes
  <2> QED BY <1>c, <1>f, <2>1, <2>2
<1>11. ASSUME Damage PROVE Goal
  <2>1. /\ UNCHANGED <<pc, call, fills, reached, resets, rolled, ignored>> /\ file' = Damaged
        /\ \A p \in Procs : pc[p] \in {"idle", "down"}
    BY <1>11 DEF Damage, FileBecomes
  <2>2. file'.status = "UNREADABLE"
    BY <2>1 DEF Damaged, Unreadable
  <2>3. Counted' /\ Forward
    BY <2>1, <2>2 DEF Counted, FillsCounted, Forward
  <2>4. Processes'
    BY <2>1, IdleFits DEF Processes
  <2> QED BY <2>3, <2>4
<1>12. ASSUME HumanDeletes PROVE Goal
  <2>1. /\ UNCHANGED <<pc, call, resets, rolled, ignored>> /\ FileBecomes(Gone)
        /\ fills' = 0 /\ reached' = {}
    BY <1>12 DEF HumanDeletes
  <2>2. /\ file' = Gone /\ \A q \in Procs : pc[q] \notin {"idle", "down"} => "removed" \in raced'[q]
    BY <2>1, RacedType
  <2>3. file'.status = "ABSENT"
    BY <2>2 DEF Gone, Absent
  <2>4. Counted' /\ Forward
    BY <2>1, <2>3 DEF Counted, FillsCounted, Forward
  <2>5. ASSUME NEW q \in Procs PROVE Fits(pc[q], call[q], raced'[q], file', rolled)
    <3>1. CASE pc[q] \in {"idle", "down"}
      BY <3>1, IdleFits
    <3>2. CASE pc[q] \notin {"idle", "down"}
      <4>1. "removed" \in raced'[q]
        BY <2>2, <3>2
      <4>2. Fits(pc[q], call[q], raced[q], file, rolled)
        BY DEF Processes
      <4> QED BY <4>1, <4>2 DEF Fits, Aware, Sole
    <3> QED BY <3>1, <3>2
  <2>6. Processes'
    BY <2>1, <2>5 DEF Processes
  <2> QED BY <2>4, <2>6
<1> QED
  <2> HIDE DEF Goal
  <2>1. Goal
    BY <1>1, <1>2, <1>3, <1>4, <1>5, <1>6, <1>7, <1>8, <1>9, <1>10, <1>11, <1>12 DEF Next
  <2> QED BY <2>1 DEF Goal, Forward

LEMMA RecordingStep ==
  ASSUME TypeOK, Recording, [Next]_vars
  PROVE  Recording'
<1>1. Drafted'
  BY DraftedStep DEF Recording
<1>2. CASE spoiled'
  BY <1>1, <1>2 DEF Recording
<1>3. CASE ~spoiled'
  BY <1>1, <1>3, SpoiledStays, UnspoiledStep DEF Recording
<1> QED BY <1>2, <1>3

\* At all times the numbers in hand come of those that were read, and unless a race that seals
\* cannot see came before, every process knows a file that is not newer than the file.
THEOREM RecordingKept == Spec => []Recording
<1>1. Init => Recording
  <2> SUFFICES ASSUME Init PROVE Recording
    OBVIOUS
  <2>1. \A p \in Procs : pc[p] = "idle"
    BY DEF Init
  <2>2. Drafted /\ Processes
    BY <2>1, IdleFits DEF Drafted, DraftedIn, Processes
  <2>3. file.status = "ABSENT"
    BY DEF Init, Gone, Absent
  <2>4. Counted
    BY <2>3 DEF Init, Counted, FillsCounted
  <2> QED BY <2>2, <2>4 DEF Recording
<1> QED BY <1>1, RecordingStep, TypeCorrect, PTL DEF Spec

-----------------------------------------------------------------------------
(* What follows from it *)

\* A fill is lost only to a call that compared seals before another process wrote, or during
\* which the file was removed: seals find every other race out.
THEOREM SealsKeepFills == Spec => []FillsLostOnlyToRaces
<1>1. Recording => FillsLostOnlyToRaces
  BY DEF Recording, Counted, FillsLostOnlyToRaces
<1> QED BY <1>1, RecordingKept, PTL

\* Whatever the clock does, the number of trades that was reached on a day denies every entry
\* of that day, because numbers are of the day on file and a rollover only goes forward.
THEOREM ExhaustedStaysExhausted == Spec => []TradesNotReopened
<1>1. Recording => TradesNotReopened
  BY DEF Recording, Counted, TradesNotReopened
<1> QED BY <1>1, RecordingKept, PTL

\* DAILY_STATS_RESET tells the numbers of the day that ended.
THEOREM ResetsTellTheDay == Spec => []ResetsAreTrue
<1>1. Recording => ResetsAreTrue
  BY DEF Recording, Counted, ResetsAreTrue
<1> QED BY <1>1, RecordingKept, PTL

\* A clock that is set back does not take the day on file with it.
THEOREM DayForward == Spec => DayNeverGoesBack
<1>1. TypeOK /\ Recording /\ [Next]_vars =>
        [file.status = "OK" /\ file'.status = "OK" => spoiled' \/ file'.data.day >= file.data.day]_vars
  <2> SUFFICES ASSUME TypeOK, Recording, [Next]_vars, ~spoiled', file.status = "OK", file'.status = "OK"
               PROVE  file'.data.day >= file.data.day
    OBVIOUS
  <2>1. Drafted /\ Counted /\ Processes
    BY SpoiledStays DEF Recording
  <2> QED BY <2>1, UnspoiledStep
<1> QED BY <1>1, RecordingKept, TypeCorrect, PTL DEF Spec, DayNeverGoesBack
=============================================================================
