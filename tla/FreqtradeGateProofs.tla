------------------------ MODULE FreqtradeGateProofs ------------------------
(***************************************************************************)
(* Theorems about FreqtradeGate: its types, that a stop stops, that wrong  *)
(* numbers halt entries and that the entries of a day are bounded, for     *)
(* every policy, every set of pairs and quotes, and every bound.           *)
(***************************************************************************)
EXTENDS FreqtradeGate, FiniteSetTheorems, TLAPS

-----------------------------------------------------------------------------
(* Types *)

\* What record_fill and record_pnl make of the numbers are numbers of the same day.
LEMMA RecordedType ==
  ASSUME NEW st \in DayStats, NEW op \in {"fill", "unpriced", "gain", "loss"}
  PROVE  Recorded(op, st) \in DayStats /\ Recorded(op, st).day = st.day
<1>1. /\ st.trades + 1 \in Nat /\ st.net + 1 \in Int /\ st.net - 1 \in Int
  BY DEF DayStats
<1>7. \A n \in Nat : [st EXCEPT !.trades = n] \in DayStats /\ [st EXCEPT !.trades = n].day = st.day
  BY Zenon DEF DayStats
<1>8. \A i \in Int : [st EXCEPT !.net = i] \in DayStats /\ [st EXCEPT !.net = i].day = st.day
  BY Zenon DEF DayStats
<1>9. \A n \in Nat, i \in Int : [st EXCEPT !.trades = n, !.net = i] \in DayStats
  BY Zenon DEF DayStats
<1>10. \A n \in Nat : [st EXCEPT !.trades = n, !.unverified = TRUE] \in DayStats
  BY Zenon DEF DayStats
<1>2. CASE op = "fill"
  BY <1>1, <1>2 DEF Recorded, DayStats
<1>3. CASE op = "unpriced" /\ WorstCase
  BY <1>1, <1>3 DEF Recorded, DayStats
<1>4. CASE op = "unpriced" /\ ~WorstCase
  BY <1>1, <1>4 DEF Recorded, DayStats
<1>5. CASE op = "gain"
  BY <1>1, <1>5 DEF Recorded, DayStats
<1>6. CASE op = "loss"
  BY <1>1, <1>6 DEF Recorded, DayStats
<1> QED BY <1>2, <1>3, <1>4, <1>5, <1>6

\* A fresh day is one.
LEMMA FreshType == ASSUME NEW d \in Nat PROVE Fresh(d) \in DayStats /\ Fresh(d).day = d
BY DEF Fresh, DayStats

\* The numbers on file, rolled over or not, and those of the fills are numbers.
LEMMA NumbersType ==
  ASSUME TypeOK
  PROVE  /\ NumbersOf(stats) \in DayStats /\ NumbersOf(stats).day = clock
         /\ TruthOn(clock) \in DayStats /\ TruthOn(clock).day = clock
         /\ Rolled \in Files
         /\ NumbersOf(Rolled) = NumbersOf(stats)
         /\ Rolled.status = "UNREADABLE" <=> stats.status = "UNREADABLE"
<1>1. Fresh(clock) \in DayStats /\ Fresh(clock).day = clock
  BY FreshType DEF TypeOK
<1> QED BY <1>1 DEF TypeOK, NumbersOf, TruthOn, Rolled, Files

\* So is what a callback under way still owes.
LEMMA OwedType ==
  ASSUME TypeOK
  PROVE  Owed \in DayStats
<1>1. ASSUME NEW st \in DayStats PROVE WithPnl(st) \in DayStats
  BY <1>1, RecordedType DEF WithPnl, TypeOK, Call
<1>2. TruthOn(clock) \in DayStats
  BY NumbersType
<1>3. Recorded(call.fee, TruthOn(clock)) \in DayStats
  BY <1>2, RecordedType DEF TypeOK, Call
<1> QED BY <1>1, <1>2, <1>3 DEF Owed, TypeOK

\* A call that begins has its type.
LEMMA CallType ==
  /\ NoCall \in Call
  /\ \A p \in Pairs, s \in SUBSET {"kill", "halt"}, o \in {"entry", "exit"} :
       /\ [NoCall EXCEPT !.op = o, !.pair = p, !.stops = s] \in Call
       /\ [NoCall EXCEPT !.op = o, !.pair = p, !.stops = s].pair = p
BY DEF NoCall, Call

\* What order_filled begins with: nothing, or a fill to record.
LEMMA OrderEndsCall ==
  ASSUME TypeOK, NEW p \in Pairs, OrderEnds(p)
  PROVE  /\ clock' = now
         /\ \/ pc' = "idle" /\ call' = NoCall
            \/ /\ pc' = "record" /\ call' \in Call
               /\ call'.op = "filled" /\ call'.pair = p /\ call'.stops = {}
               /\ (call'.entry => order[p] = "buy")
<1>1. PICK q \in 0..(IF order[p] = "sell" THEN held[p] ELSE Size) :
        IF q = 0 THEN Begin(NoCall, "idle")
        ELSE \E fee \in {"fill", "unpriced"}, pnl \in PnlOf(p, q) :
               Begin([NoCall EXCEPT !.op = "filled", !.pair = p, !.entry = (order[p] = "buy"),
                                    !.fee = fee, !.pnl = pnl], "record")
  BY DEF OrderEnds
<1>2. CASE q = 0
  BY <1>1, <1>2 DEF Begin
<1>3. CASE q # 0
  <2>1. PICK fee \in {"fill", "unpriced"}, pnl \in {"none", "gain", "loss"} :
          Begin([NoCall EXCEPT !.op = "filled", !.pair = p, !.entry = (order[p] = "buy"),
                               !.fee = fee, !.pnl = pnl], "record")
    BY <1>1, <1>3 DEF PnlOf
  <2>2. CASE order[p] = "buy"
    <3>1. call' = [NoCall EXCEPT !.op = "filled", !.pair = p, !.entry = TRUE, !.fee = fee, !.pnl = pnl]
      BY <2>1, <2>2 DEF Begin
    <3> QED BY <2>1, <2>2, <3>1 DEF Begin, NoCall, Call
  <2>3. CASE order[p] # "buy"
    <3>1. call' = [NoCall EXCEPT !.op = "filled", !.pair = p, !.entry = FALSE, !.fee = fee, !.pnl = pnl]
      BY <2>1, <2>3 DEF Begin
    <3> QED BY <2>1, <2>3, <3>1 DEF Begin, NoCall, Call
  <2> QED BY <2>2, <2>3
<1> QED BY <1>2, <1>3

\* The bits of the state that a step of the gate or of the world moves keep their types.
LEMMA TypeStep ==
  ASSUME TypeOK, [Next]_vars
  PROVE  TypeOK'
<1> USE DEF TypeOK
<1>0. /\ pc' = "idle" /\ call' = NoCall => call' \in Call /\ pc' \in PCs
      /\ 0 \in Nat /\ Fresh(0) \in DayStats /\ Fresh(0).day = 0
  BY CallType, FreshType DEF PCs
<1>1. ASSUME NEW p \in Pairs, AskEntry(p) PROVE TypeOK'
  <2>1. Stops \in SUBSET {"kill", "halt"}
    BY DEF Stops
  <2>2. call' = [NoCall EXCEPT !.op = "entry", !.pair = p, !.stops = Stops]
    BY <1>1 DEF AskEntry, Begin
  <2>3. call' \in Call /\ call'.pair = p
    BY <2>1, <2>2, CallType
  <2>4. pc' \in PCs /\ clock' \in Nat /\ held' \in [Pairs -> Nat]
    BY <1>1 DEF AskEntry, Begin, PCs, freqtrade
  <2> QED BY <1>1, <2>3, <2>4 DEF AskEntry, Begin, files, freqtrade, history
<1>2. ASSUME NEW p \in Pairs, AskExit(p) PROVE TypeOK'
  <2>1. Stops \ {"halt"} \in SUBSET {"kill", "halt"}
    BY DEF Stops
  <2>2. call' = [NoCall EXCEPT !.op = "exit", !.pair = p, !.stops = Stops \ {"halt"}]
    BY <1>2 DEF AskExit, Begin
  <2>3. call' \in Call /\ call'.pair = p
    BY <2>1, <2>2, CallType
  <2>4. pc' \in PCs /\ clock' \in Nat /\ held' \in [Pairs -> Nat]
    BY <1>2 DEF AskExit, Begin, PCs, freqtrade
  <2> QED BY <1>2, <2>3, <2>4 DEF AskExit, Begin, files, freqtrade, history
<1>3. ASSUME NEW p \in Pairs, OrderEnds(p) PROVE TypeOK'
  <2>1. PICK q \in 0..(IF order[p] = "sell" THEN held[p] ELSE Size) :
          held' = [held EXCEPT ![p] = IF order[p] = "sell" THEN @ - q ELSE @ + q]
    BY <1>3 DEF OrderEnds
  <2>2. held' \in [Pairs -> Nat]
    <3>1. held[p] \in Nat /\ Size \in Nat
      BY GateAssumption
    <3>2. (IF order[p] = "sell" THEN held[p] - q ELSE held[p] + q) \in Nat
      <4>1. CASE order[p] = "sell"
        BY <4>1, <3>1
      <4>2. CASE order[p] # "sell"
        BY <4>2, <3>1
      <4> QED BY <4>1, <4>2
    <3> QED BY <2>1, <3>2
  <2>3. order' \in [Pairs -> {"none", "buy", "adjust", "sell"}]
    BY <1>3 DEF OrderEnds
  <2>4. call' \in Call /\ pc' \in PCs /\ clock' \in Nat
        /\ pc' # "pnl"
        /\ (pc' \notin {"down", "idle"} => call'.pair \in Pairs)
    <3>1. \/ pc' = "idle" /\ call' = NoCall
          \/ /\ pc' = "record" /\ call' \in Call /\ call'.pair = p
      BY <1>3, OrderEndsCall
    <3>2. clock' = now
      BY <1>3, OrderEndsCall
    <3> QED BY <1>0, <3>1, <3>2 DEF PCs
  <2> QED BY <1>3, <2>2, <2>3, <2>4 DEF OrderEnds, files, history
<1>4. ASSUME NEW p \in Pairs, NEW o \in {"adjust", "sell"}, Ungated(p, o) PROVE TypeOK'
  BY <1>4 DEF Ungated, files, history
<1>5. CASE KillCheck
  BY <1>5, <1>0 DEF KillCheck, Deny, Done, files, freqtrade, history, PCs, Call
<1>6. CASE HaltCheck
  BY <1>6, <1>0 DEF HaltCheck, Deny, Done, Goto, files, freqtrade, history, PCs
<1>7. CASE LimitsCheck
  BY <1>7, <1>0, NumbersType DEF LimitsCheck, Deny, Done, Goto, Raise, freqtrade, history, PCs
<1>8. CASE QuotesCheck
  BY <1>8, <1>0 DEF QuotesCheck, Deny, Done, Goto, Raise, Allow, files, freqtrade, history, PCs
<1>9. CASE Place
  BY <1>9, <1>0 DEF Place, Done, files, history
<1>10. CASE Break
  BY <1>10, <1>0 DEF Break, Allow, Goto, Done, freqtrade, PCs
<1>11. CASE RecordFill
  <2>1. /\ Recorded(call.fee, NumbersOf(stats)) \in DayStats
        /\ Recorded(call.fee, TruthOn(clock)) \in DayStats
    BY NumbersType, RecordedType DEF Call
  <2>2. stats' \in Files
    BY <1>11, <2>1 DEF RecordFill, Files
  <2>3. Entered \in Nat
    BY DEF Entered
  <2> QED BY <1>11, <1>0, <2>1, <2>2, <2>3 DEF RecordFill, Done, Goto, freqtrade, PCs
<1>12. CASE RecordPnl
  <2>1. call.pnl # "none" => Recorded(call.pnl, NumbersOf(stats)) \in DayStats
    BY NumbersType, RecordedType DEF Call
  <2>2. stats' \in Files
    BY <1>12, <2>1 DEF RecordPnl, Files
  <2>3. Owed \in DayStats
    BY OwedType
  <2> QED BY <1>12, <1>0, <2>2, <2>3 DEF RecordPnl, Done, freqtrade
<1>13. CASE RecordRaises
  <2>3. Entered \in Nat
    BY DEF Entered
  <2> QED BY <1>13, <2>3, NumbersType, OwedType DEF RecordRaises, Raise, Goto, freqtrade, PCs
<1>14. CASE Midnight
  BY <1>14 DEF Midnight, files, freqtrade, history
<1>15. CASE Crash
  <2>3. Entered \in Nat
    BY DEF Entered
  <2>1. Owed \in DayStats /\ NoCall \in Call
    BY OwedType, CallType
  <2>2. excused' \subseteq Nat /\ pc' \in PCs
    BY <1>15 DEF Crash, PCs
  <2> QED BY <1>15, <2>1, <2>2, <2>3 DEF Crash, files, freqtrade
<1>16. CASE BotStart
  BY <1>16, <1>0 DEF BotStart, files, freqtrade, history
<1>17. CASE Damage
  <2>1. [status |-> "UNREADABLE", st |-> Fresh(0)] \in Files
    BY <1>0 DEF Files
  <2>2. /\ [call EXCEPT !.stops = @ \ {"kill"}] \in Call
        /\ [call EXCEPT !.stops = @ \ {"kill"}].pair = call.pair
        /\ [call EXCEPT !.stops = @ \ {"kill"}].pnl = call.pnl
    BY DEF Call
  <2> QED BY <1>17, <2>1, <2>2 DEF Damage, freqtrade, history
<1>18. CASE Sighted
  BY <1>18 DEF Sighted, freqtrade, history
<1>19. CASE HumanTurnsKill
  <2>2. /\ [call EXCEPT !.stops = @ \ {"kill"}] \in Call
        /\ [call EXCEPT !.stops = @ \ {"kill"}].pair = call.pair
        /\ [call EXCEPT !.stops = @ \ {"kill"}].pnl = call.pnl
    BY DEF Call
  <2> QED BY <1>19, <2>2 DEF HumanTurnsKill, freqtrade, history
<1>20. CASE HumanClears
  <2>2. /\ [call EXCEPT !.stops = @ \ {"halt"}] \in Call
        /\ [call EXCEPT !.stops = @ \ {"halt"}].pair = call.pair
        /\ [call EXCEPT !.stops = @ \ {"halt"}].pnl = call.pnl
    BY DEF Call
  <2> QED BY <1>20, <2>2 DEF HumanClears, freqtrade
<1>21. CASE HumanDeletes
  <2>1. [status |-> "ABSENT", st |-> Fresh(0)] \in Files
    BY <1>0 DEF Files
  <2> QED BY <1>21, <1>0, <2>1 DEF HumanDeletes, freqtrade
<1>22. CASE UNCHANGED vars
  BY <1>22 DEF vars, files, freqtrade, history
<1> QED BY <1>1, <1>2, <1>3, <1>4, <1>5, <1>6, <1>7, <1>8, <1>9, <1>10, <1>11, <1>12, <1>13,
           <1>14, <1>15, <1>16, <1>17, <1>18, <1>19, <1>20, <1>21, <1>22 DEF Next, Gate

\* Every variable keeps its type.
THEOREM TypeCorrect == Spec => []TypeOK
<1>1. Init => TypeOK
  <2>1. Fresh(0) \in DayStats /\ NoCall \in Call
    BY CallType, FreshType
  <2>2. [status |-> "ABSENT", st |-> Fresh(0)] \in Files
    BY <2>1 DEF Files
  <2>3. Init => {kill, halt, blind} \subseteq BOOLEAN /\ excused \subseteq Nat
    BY Zenon DEF Init
  <2>4. Init => /\ held \in [Pairs -> Nat] /\ order \in [Pairs -> {"none", "buy", "adjust", "sell"}]
                /\ now \in Nat /\ clock \in Nat /\ entered \in Nat
    BY DEF Init
  <2>5. Init => stats \in Files /\ truth \in DayStats /\ call \in Call /\ pc \in PCs /\ pc = "idle"
    BY <2>1, <2>2 DEF Init, PCs
  <2> QED BY <2>3, <2>4, <2>5 DEF TypeOK
<1> QED BY <1>1, TypeStep, PTL DEF Spec

-----------------------------------------------------------------------------
(* A stop stops *)

\* A stop that was there when the callback began, and has been there since, is still to be seen;
\* what was asked after it was found missing has no such stop.
Stopping ==
  /\ "kill" \in call.stops => kill /\ ~blind
  /\ "halt" \in call.stops => halt /\ call.op = "entry"
  /\ pc = "halt" => "kill" \notin call.stops
  /\ pc \in {"limits", "quotes", "place", "record", "pnl", "break"} => call.stops = {}

LEMMA StoppingStep ==
  ASSUME TypeOK, Stopping, [Next]_vars
  PROVE  Stopping'
<1> USE DEF Stopping
<1>0. call.stops \in SUBSET {"kill", "halt"} /\ NoCall.stops = {}
  BY DEF TypeOK, Call, NoCall
<1>1. ASSUME NEW p \in Pairs, AskEntry(p) PROVE Stopping'
  <2>1. /\ call'.op = "entry" /\ call'.stops = Stops /\ pc' = "kill"
        /\ UNCHANGED <<kill, halt, blind>>
    BY <1>1 DEF AskEntry, Begin, files, NoCall
  <2> QED BY <2>1 DEF Stops
<1>2. ASSUME NEW p \in Pairs, AskExit(p) PROVE Stopping'
  <2>1. /\ call'.op = "exit" /\ call'.stops = Stops \ {"halt"} /\ pc' = "kill"
        /\ UNCHANGED <<kill, halt, blind>>
    BY <1>2 DEF AskExit, Begin, files, NoCall
  <2> QED BY <2>1 DEF Stops
<1>3. ASSUME NEW p \in Pairs, OrderEnds(p) PROVE Stopping'
  <2>1. call'.stops = {} /\ pc' \in {"idle", "record"}
    BY <1>0, <1>3, OrderEndsCall
  <2> QED BY <2>1
<1>4. ASSUME NEW p \in Pairs, NEW o \in {"adjust", "sell"}, Ungated(p, o) PROVE Stopping'
  BY <1>4 DEF Ungated, files
<1>5. CASE KillCheck
  <2>1. CASE kill /\ ~blind /\ call' = NoCall /\ pc' = "idle"
    BY <1>0, <2>1
  <2>2. CASE ~(kill /\ ~blind)
    <3>1. /\ "kill" \notin call.stops
          /\ pc' = IF call.op = "entry" THEN "halt" ELSE IF ExitSanity THEN "quotes" ELSE "place"
          /\ call' = [call EXCEPT !.unchecked = blind]
          /\ UNCHANGED files
      BY <1>5, <2>2 DEF KillCheck
    <3>2. call'.stops = call.stops /\ call'.op = call.op
      BY <3>1 DEF TypeOK, Call
    <3> QED BY <1>0, <3>1, <3>2 DEF files
  <2> QED BY <1>5, <2>1, <2>2 DEF KillCheck, Deny, Done
<1>6. CASE HaltCheck
  BY <1>0, <1>6 DEF HaltCheck, Deny, Done, Goto, files
<1>7. CASE LimitsCheck
  BY <1>0, <1>7 DEF LimitsCheck, Deny, Done, Goto, Raise
<1>8. CASE QuotesCheck
  <2>1. call' \in {call, NoCall} /\ pc' \in {"idle", "place", "break"} /\ pc = "quotes"
        /\ (pc' = "idle" => call' = NoCall)
    BY <1>8 DEF QuotesCheck, Deny, Done, Goto, Raise, Allow
  <2> QED BY <1>0, <2>1
<1>9. CASE Place
  BY <1>0, <1>9 DEF Place, Done
<1>10. CASE Break
  BY <1>0, <1>10 DEF Break, Allow, Goto, Done
<1>11. CASE RecordFill
  BY <1>0, <1>11 DEF RecordFill, Done, Goto
<1>12. CASE RecordPnl
  BY <1>0, <1>12 DEF RecordPnl, Done
<1>13. CASE RecordRaises
  BY <1>0, <1>13 DEF RecordRaises, Raise, Goto
<1>14. CASE Midnight
  BY <1>14 DEF Midnight, files
<1>15. CASE Crash
  BY <1>0, <1>15 DEF Crash
<1>16. CASE BotStart
  BY <1>0, <1>16 DEF BotStart
<1>17. CASE Damage
  <2>1. [call EXCEPT !.stops = @ \ {"kill"}].stops = call.stops \ {"kill"}
        /\ [call EXCEPT !.stops = @ \ {"kill"}].op = call.op
    BY DEF TypeOK, Call
  <2>2. CASE UNCHANGED <<blind, call>>
    BY <1>17, <2>2 DEF Damage
  <2>3. CASE call' = [call EXCEPT !.stops = @ \ {"kill"}]
    BY <1>0, <1>17, <2>1, <2>3 DEF Damage
  <2> QED BY <1>17, <2>2, <2>3 DEF Damage
<1>18. CASE Sighted
  BY <1>18 DEF Sighted
<1>19. CASE HumanTurnsKill
  <2>1. call'.stops = call.stops \ {"kill"} /\ call'.op = call.op /\ UNCHANGED <<halt, pc>>
    BY <1>19 DEF HumanTurnsKill, TypeOK, Call
  <2> QED BY <1>0, <2>1
<1>20. CASE HumanClears
  <2>1. call'.stops = call.stops \ {"halt"} /\ call'.op = call.op /\ UNCHANGED <<kill, blind, pc>>
    BY <1>20 DEF HumanClears, TypeOK, Call
  <2> QED BY <1>0, <2>1
<1>21. CASE HumanDeletes
  BY <1>21 DEF HumanDeletes
<1>22. CASE UNCHANGED vars
  BY <1>22 DEF vars, files
<1> QED BY <1>1, <1>2, <1>3, <1>4, <1>5, <1>6, <1>7, <1>8, <1>9, <1>10, <1>11, <1>12, <1>13,
           <1>14, <1>15, <1>16, <1>17, <1>18, <1>19, <1>20, <1>21, <1>22 DEF Next, Gate

\* No order gets out of a callback that began under a stop which has been there ever since.
THEOREM AStopStops == Spec => StopsHold
<1>1. Init => Stopping
  BY DEF Init, Stopping, NoCall
<1>2. TypeOK /\ Stopping /\ [Next]_vars => [pc = "place" /\ order' # order => call.stops = {}]_vars
  BY DEF Stopping
<1> QED BY <1>1, <1>2, TypeCorrect, StoppingStep, PTL DEF Spec, StopsHold

-----------------------------------------------------------------------------
(* Numbers which are wrong halt entries *)

\* The numbers are right, or what is wrong with them has halted entries or is excused.
Answered == Wrong => halt \/ clock \in excused \/ stats.status = "UNREADABLE"

\* No day on file or in the history is ahead of the clock, and the numbers are Answered except
\* while an exception that order_filled raised is on its way to _deadman_break.
Answering ==
  /\ clock <= now /\ truth.day <= clock
  /\ stats.status = "OK" => stats.st.day <= clock
  /\ pc \in {"record", "pnl"} => call.op = "filled"
  /\ Answered \/ (pc = "break" /\ call.op = "filled")

\* A later day begins with numbers that are right.
LEMMA LaterDay ==
  ASSUME TypeOK, Answering, pc = "idle", clock' = now, UNCHANGED <<files, now, history>>
  PROVE  Answered' /\ clock' <= now' /\ truth'.day <= clock'
         /\ (stats'.status = "OK" => stats'.st.day <= clock')
<1>1. /\ stats' = stats /\ truth' = truth /\ halt' = halt /\ excused' = excused /\ now' = now
      /\ clock \in Nat /\ now \in Nat /\ truth.day \in Nat /\ stats.st.day \in Nat
  BY DEF files, history, TypeOK, Files, DayStats
<1>2. CASE clock' = clock
  BY <1>1, <1>2 DEF Answering, Answered, Wrong, NumbersOf, TruthOn
<1>3. CASE clock' # clock
  <2>1. truth'.day # clock' /\ (stats'.status = "OK" => stats'.st.day # clock')
    BY <1>1, <1>3 DEF Answering
  <2>2. NumbersOf(stats)' = Fresh(clock') /\ TruthOn(clock)' = Fresh(clock')
    BY <2>1 DEF NumbersOf, TruthOn
  <2> QED BY <1>1, <2>2 DEF Answering, Answered, Wrong
<1> QED BY <1>2, <1>3

\* A step that leaves the numbers, their history and the clock alone leaves them as right or wrong
\* as they were.
LEMMA NumbersStay ==
  ASSUME Answering, UNCHANGED <<clock, truth, stats>>, now' \in {now, now + 1}, TypeOK
  PROVE  /\ Wrong' <=> Wrong
         /\ clock' <= now' /\ truth'.day <= clock'
         /\ stats'.status = "OK" => stats'.st.day <= clock'
BY DEF Answering, Wrong, NumbersOf, TruthOn, TypeOK

\* Recording the same thing in the file and in the history keeps them equal.
LEMMA RecordsAgree ==
  ASSUME TypeOK, NEW op \in {"fill", "unpriced", "gain", "loss"}, UNCHANGED clock,
         stats' = [status |-> "OK", st |-> Recorded(op, NumbersOf(stats))],
         truth' = Recorded(op, TruthOn(clock))
  PROVE  /\ Wrong' => Wrong
         /\ truth'.day = clock' /\ stats'.st.day = clock'
<1>1. /\ NumbersOf(stats) \in DayStats /\ NumbersOf(stats).day = clock
      /\ TruthOn(clock) \in DayStats /\ TruthOn(clock).day = clock
  BY NumbersType
<1>2. truth'.day = clock' /\ stats'.st.day = clock'
  BY <1>1, RecordedType
<1>3. NumbersOf(stats)' = Recorded(op, NumbersOf(stats)) /\ TruthOn(clock)' = Recorded(op, TruthOn(clock))
  BY <1>2 DEF NumbersOf, TruthOn
<1> QED BY <1>2, <1>3 DEF Wrong

\* What a callback owes is of no later day.
LEMMA OwedDay ==
  ASSUME TypeOK, Answering
  PROVE  Owed.day <= clock
<1>1. /\ TruthOn(clock) \in DayStats /\ TruthOn(clock).day = clock
  BY NumbersType
<1>2. ASSUME NEW st \in DayStats, st.day = clock
      PROVE  WithPnl(st) \in DayStats /\ WithPnl(st).day = clock
  BY <1>2, RecordedType DEF WithPnl, TypeOK, Call
<1>3. Recorded(call.fee, TruthOn(clock)) \in DayStats /\ Recorded(call.fee, TruthOn(clock)).day = clock
  BY <1>1, RecordedType DEF TypeOK, Call
<1>4. clock \in Nat
  BY DEF TypeOK
<1> QED BY <1>1, <1>2, <1>3, <1>4 DEF Owed, Answering

LEMMA AnsweringStep ==
  ASSUME TypeOK, Answering, [Next]_vars
  PROVE  Answering'
<1>0. NoCall.op = "none" /\ clock \in Nat /\ now \in Nat
  BY DEF NoCall, TypeOK
<1> DEFINE Still == UNCHANGED <<clock, truth, stats>> /\ now' \in {now, now + 1}
<1>s. Still => /\ UNCHANGED <<clock, stats>> /\ (Wrong' <=> Wrong)
               /\ clock' <= now' /\ truth'.day <= clock'
               /\ stats'.status = "OK" => stats'.st.day <= clock'
  BY NumbersStay DEF Still
<1> HIDE DEF Still
<1>1. ASSUME NEW p \in Pairs, AskEntry(p) PROVE Answering'
  <2>1. pc' = "kill"
    BY <1>1 DEF AskEntry, Begin
  <2> QED BY <1>1, <2>1, LaterDay DEF AskEntry, Begin, Answering
<1>2. ASSUME NEW p \in Pairs, AskExit(p) PROVE Answering'
  <2>1. pc' = "kill"
    BY <1>2 DEF AskExit, Begin
  <2> QED BY <1>2, <2>1, LaterDay DEF AskExit, Begin, Answering
<1>3. ASSUME NEW p \in Pairs, OrderEnds(p) PROVE Answering'
  <2>1. clock' = now
    BY <1>3, OrderEndsCall
  <2>3. pc' = "idle" \/ (pc' = "record" /\ call'.op = "filled")
    BY <1>3, OrderEndsCall
  <2>2. pc = "idle" /\ UNCHANGED <<files, now, history>>
    BY <1>3 DEF OrderEnds
  <2> QED BY <2>1, <2>2, <2>3, LaterDay DEF Answering
<1>4. ASSUME NEW p \in Pairs, NEW o \in {"adjust", "sell"}, Ungated(p, o) PROVE Answering'
  <2>1. Still /\ UNCHANGED <<files, pc, call, history>>
    BY <1>4 DEF Ungated, Still, files, history
  <2> QED BY <1>s, <2>1 DEF Answering, Answered, files, history
<1>5. CASE KillCheck
  <2>1. Still /\ UNCHANGED <<files, history>> /\ pc = "kill"
        /\ pc' \in {"idle", "halt", "quotes", "place"}
    BY <1>5 DEF KillCheck, Deny, Done, Still, files, history
  <2> QED BY <1>s, <2>1 DEF Answering, Answered, files, history
<1>6. CASE HaltCheck
  <2>1. Still /\ UNCHANGED <<files, history>> /\ pc = "halt" /\ pc' \in {"idle", "limits"}
    BY <1>6 DEF HaltCheck, Deny, Done, Goto, Still, files, history
  <2> QED BY <1>s, <2>1 DEF Answering, Answered, files, history
<1>7. CASE LimitsCheck
  <2>1. /\ stats' \in {stats, Rolled} /\ pc = "limits" /\ pc' \in {"idle", "quotes", "break"}
        /\ UNCHANGED <<halt, now, clock, truth, excused>>
    BY <1>7 DEF LimitsCheck, Deny, Done, Goto, Raise, history
  <2>2. NumbersOf(stats') = NumbersOf(stats) /\ (stats'.status = "UNREADABLE" <=> stats.status = "UNREADABLE")
    BY <2>1, NumbersType
  <2>3. NumbersOf(stats)' = NumbersOf(stats) /\ TruthOn(clock)' = TruthOn(clock)
    BY <2>1, <2>2 DEF NumbersOf, TruthOn
  <2>4. stats'.status = "OK" => stats'.st.day <= clock
    BY <1>0, <2>1, FreshType DEF Rolled, Answering
  <2> QED BY <2>1, <2>2, <2>3, <2>4 DEF Answering, Answered, Wrong
<1>8. CASE QuotesCheck
  <2>1. Still /\ UNCHANGED <<files, history>> /\ pc = "quotes" /\ pc' \in {"idle", "place", "break"}
    BY <1>8 DEF QuotesCheck, Deny, Done, Goto, Raise, Allow, Still, files, history
  <2> QED BY <1>s, <2>1 DEF Answering, Answered, files, history
<1>9. CASE Place
  <2>1. Still /\ UNCHANGED <<files, history>> /\ pc = "place" /\ pc' = "idle"
    BY <1>9 DEF Place, Done, Still, files, history
  <2> QED BY <1>s, <2>1 DEF Answering, Answered, files, history
<1>10. CASE Break
  <2>1. /\ Still /\ pc = "break" /\ pc' \in {"idle", "place"}
        /\ \/ halt' = TRUE /\ excused' = excused
           \/ halt' = halt /\ excused' = excused \cup (IF call.op = "filled" THEN {clock} ELSE {})
    BY <1>10 DEF Break, Allow, Goto, Done, Still
  <2>2. clock' = clock /\ stats' = stats
    BY <2>1 DEF Still
  <2>3. Answered'
    <3>1. CASE halt' = TRUE
      BY <3>1 DEF Answered
    <3>2. CASE halt' = halt /\ call.op = "filled"
      BY <2>1, <2>2, <3>2 DEF Answered
    <3>3. CASE halt' = halt /\ call.op # "filled"
      BY <1>s, <2>1, <2>2, <3>3 DEF Answered, Answering
    <3> QED BY <2>1, <3>1, <3>2, <3>3
  <2> QED BY <1>s, <2>1, <2>3 DEF Answering
<1>11. CASE RecordFill
  <2>0. call.fee \in {"fill", "unpriced"}
    BY DEF TypeOK, Call
  <2>1. /\ pc = "record" /\ stats.status # "UNREADABLE"
        /\ stats' = [status |-> "OK", st |-> Recorded(call.fee, NumbersOf(stats))]
        /\ truth' = Recorded(call.fee, TruthOn(clock))
        /\ UNCHANGED <<halt, now, clock, excused>>
        /\ pc' \in {"idle", "pnl"} /\ (pc' = "pnl" => UNCHANGED call)
    BY <1>11 DEF RecordFill, Unread, Done, Goto
  <2>2. (Wrong' => Wrong) /\ truth'.day = clock' /\ stats'.st.day = clock'
    BY <2>0, <2>1, RecordsAgree
  <2> QED BY <1>0, <2>1, <2>2 DEF Answering, Answered
<1>12. CASE RecordPnl
  <2>1. /\ pc = "pnl" /\ call.pnl \in {"gain", "loss"} /\ stats.status # "UNREADABLE"
        /\ stats' = [status |-> "OK", st |-> Recorded(call.pnl, NumbersOf(stats))]
        /\ truth' = Recorded(call.pnl, TruthOn(clock))
        /\ UNCHANGED <<halt, now, clock, excused>>
        /\ pc' = "idle"
    BY <1>12 DEF RecordPnl, Unread, TypeOK, Call, Done, Owed, WithPnl
  <2>2. (Wrong' => Wrong) /\ truth'.day = clock' /\ stats'.st.day = clock'
    BY <2>1, RecordsAgree
  <2> QED BY <1>0, <2>1, <2>2 DEF Answering, Answered
<1>13. CASE RecordRaises
  <2>1. /\ pc' = "break" /\ call' = call /\ call.op = "filled" /\ truth' = Owed
        /\ stats' \in {stats, Rolled} /\ UNCHANGED <<now, clock>>
    BY <1>13 DEF RecordRaises, Raise, Goto, Answering
  <2>4. stats'.status = "OK" => stats'.st.day <= clock
    BY <1>0, <2>1, FreshType DEF Rolled, Answering
  <2> QED BY <2>1, <2>4, OwedDay DEF Answering
<1>14. CASE Midnight
  <2>1. Still /\ UNCHANGED <<files, pc, call, history>>
    BY <1>14 DEF Midnight, Still, files, history
  <2> QED BY <1>s, <2>1 DEF Answering, Answered, files, history
<1>15. CASE Crash
  <2>1. /\ pc' = "down" /\ truth' = Owed /\ UNCHANGED <<halt, stats, now, clock>>
        /\ excused' = excused \cup (IF call.op = "filled" THEN {clock} ELSE {})
    BY <1>15 DEF Crash, files
  <2>2. CASE call.op = "filled"
    BY <2>1, <2>2, OwedDay DEF Answering, Answered
  <2>3. CASE call.op # "filled"
    <3>1. truth' = truth
      BY <2>1, <2>3 DEF Owed, Answering
    <3>2. Still
      BY <2>1, <3>1 DEF Still
    <3> QED BY <1>s, <2>1, <2>3, <3>2 DEF Answering, Answered
  <2> QED BY <2>2, <2>3
<1>16. CASE BotStart
  <2>1. Still /\ UNCHANGED <<files, history>> /\ pc = "down" /\ pc' = "idle"
    BY <1>16 DEF BotStart, Still, files, history
  <2> QED BY <1>s, <2>1 DEF Answering, Answered, files, history
<1>17. CASE Damage
  <2>1. call'.op = call.op /\ UNCHANGED <<halt, now, clock, pc, history>>
    BY <1>17 DEF Damage, TypeOK, Call
  <2>2. CASE stats' = [status |-> "UNREADABLE", st |-> Fresh(0)]
    BY <2>1, <2>2 DEF Answering, Answered, history
  <2>3. CASE stats' = stats
    <3>1. Still
      BY <2>1, <2>3 DEF Still, history
    <3> QED BY <1>s, <2>1, <2>3, <3>1 DEF Answering, Answered, history
  <2> QED BY <1>17, <2>2, <2>3 DEF Damage
<1>18. CASE Sighted
  <2>1. Still /\ UNCHANGED <<halt, stats, pc, call, history>>
    BY <1>18 DEF Sighted, Still, history
  <2> QED BY <1>s, <2>1 DEF Answering, Answered, history
<1>19. CASE HumanTurnsKill
  <2>1. Still /\ call'.op = call.op /\ UNCHANGED <<halt, stats, pc, history>>
    BY <1>19 DEF HumanTurnsKill, Still, history, TypeOK, Call
  <2> QED BY <1>s, <2>1 DEF Answering, Answered, history
<1>20. CASE HumanClears
  <2>1. Still /\ call'.op = call.op /\ UNCHANGED <<stats, pc, clock>>
        /\ excused' = excused \cup (IF Wrong THEN {clock} ELSE {})
    BY <1>20 DEF HumanClears, Still, TypeOK, Call
  <2> QED BY <1>s, <2>1 DEF Answering, Answered
<1>21. CASE HumanDeletes
  <2>1. /\ stats' = [status |-> "ABSENT", st |-> Fresh(0)] /\ truth' = Fresh(0)
        /\ UNCHANGED <<now, clock, pc, call>> /\ Fresh(0).day = 0
    BY <1>21, FreshType DEF HumanDeletes
  <2>2. NumbersOf(stats)' = Fresh(clock) /\ TruthOn(clock)' = Fresh(clock)
    BY <2>1 DEF NumbersOf, TruthOn
  <2> QED BY <1>0, <2>1, <2>2 DEF Answering, Answered, Wrong
<1>22. CASE UNCHANGED vars
  <2>1. Still /\ UNCHANGED <<files, pc, call, history>>
    BY <1>22 DEF vars, Still, files, history
  <2> QED BY <1>s, <2>1 DEF Answering, Answered, files, history
<1> QED BY <1>1, <1>2, <1>3, <1>4, <1>5, <1>6, <1>7, <1>8, <1>9, <1>10, <1>11, <1>12, <1>13,
           <1>14, <1>15, <1>16, <1>17, <1>18, <1>19, <1>20, <1>21, <1>22 DEF Next, Gate

LEMMA AnsweringInit == Init => Answering
<1>1. Fresh(0).day = 0
  BY FreshType
<1>2. Init => NumbersOf(stats) = Fresh(1) /\ TruthOn(1) = Fresh(1) /\ clock = 1
  BY <1>1 DEF Init, NumbersOf, TruthOn
<1> QED BY <1>1, <1>2 DEF Init, Answering, Answered, Wrong

\* Between callbacks, the numbers of the day are those of the fills and round trips that took
\* place, or the entry halt is set, unless the bot died in order_filled, the halt could not be
\* written or a human has cleared it over wrong numbers.
THEOREM WrongNumbersHalt == Spec => []NumbersTrueOrHalted
<1>1. Init => Answering
  BY AnsweringInit
<1>2. Answering => NumbersTrueOrHalted
  BY DEF Answering, Answered, NumbersTrueOrHalted
<1> QED BY <1>1, <1>2, TypeCorrect, AnsweringStep, PTL DEF Spec

-----------------------------------------------------------------------------
(* The entries of a day *)

\* The pairs an entry of the gate is under way for: past the limits, in flight, or filled and not
\* recorded.
Coming ==
  {p \in Pairs :
     \/ order[p] = "buy"
     \/ call.pair = p /\ call.op = "entry" /\ pc \in {"quotes", "place"}
     \/ call.pair = p /\ call.entry /\ pc = "record"}

\* The entries that were filled on the day of the clock.
Already == IF truth.day = clock THEN entered ELSE 0

Room == clock \in excused \/ Already + Cardinality(Coming) < MaxTrades + Cardinality(Pairs)

\* Each pair that an entry is under way for has room in the bound.  An entry is let past the limits
\* when less than MaxTrades were filled, since without a halt the numbers are right.
Entering ==
  /\ Room
  /\ DayEntriesBounded
  /\ entered <= truth.trades
  /\ pc = "limits" => ~halt
  /\ pc = "pnl" => truth.day = clock \/ entered = 0
  /\ pc = "record" => order[call.pair] = "none"

\* Pairs that are done with make room, and a fill takes that of its pair.
LEMMA RoomKept ==
  ASSUME TypeOK, TypeOK', Room, UNCHANGED clock, excused \subseteq excused',
         \/ Already' <= Already /\ Coming' \subseteq Coming
         \/ Already' <= Already + 1 /\ \E p \in Coming : Coming' \subseteq Coming \ {p}
  PROVE  Room'
<1>1. /\ IsFiniteSet(Coming) /\ Cardinality(Coming) \in Nat /\ Cardinality(Pairs) \in Nat
      /\ IsFiniteSet(Coming') /\ Cardinality(Coming') \in Nat
  <2>1. Coming \subseteq Pairs /\ Coming' \subseteq Pairs /\ IsFiniteSet(Pairs)
    BY GateAssumption DEF Coming
  <2> QED BY <2>1, FS_Subset, FS_CardinalityType
<1>2. Already \in Nat /\ Already' \in Nat /\ MaxTrades \in Nat
  BY DailyStatsAssumption DEF Already, TypeOK
<1>3. CASE Already' <= Already /\ Coming' \subseteq Coming
  <2>1. Cardinality(Coming') <= Cardinality(Coming)
    BY <1>1, <1>3, FS_Subset
  <2> QED BY <1>1, <1>2, <1>3, <2>1 DEF Room
<1>4. CASE Already' <= Already + 1 /\ \E p \in Coming : Coming' \subseteq Coming \ {p}
  <2>1. PICK p \in Coming : Coming' \subseteq Coming \ {p}
    BY <1>4
  <2>2. IsFiniteSet(Coming \ {p}) /\ Cardinality(Coming \ {p}) = Cardinality(Coming) - 1
    BY <1>1, FS_RemoveElement
  <2>3. Cardinality(Coming') <= Cardinality(Coming \ {p})
    BY <2>1, <2>2, FS_Subset
  <2> QED BY <1>1, <1>2, <1>4, <2>2, <2>3 DEF Room
<1> QED BY <1>3, <1>4

\* While less than MaxTrades were filled there is room for all of the pairs.
LEMMA RoomForAll ==
  ASSUME TypeOK', Already' < MaxTrades
  PROVE  Room'
<1>1. Coming' \subseteq Pairs /\ IsFiniteSet(Pairs)
  BY GateAssumption DEF Coming
<1>2. Cardinality(Coming') \in Nat /\ Cardinality(Pairs) \in Nat
      /\ Cardinality(Coming') <= Cardinality(Pairs)
  BY <1>1, FS_Subset, FS_CardinalityType
<1>3. Already' \in Nat /\ MaxTrades \in Nat
  BY DailyStatsAssumption DEF Already, TypeOK
<1> QED BY <1>2, <1>3 DEF Room

\* The room of the day of the clock bounds its entries.
LEMMA RoomBounds ==
  ASSUME TypeOK', Room', truth'.day = clock'
  PROVE  DayEntriesBounded'
<1>0. Coming' \subseteq Pairs /\ IsFiniteSet(Pairs)
  BY GateAssumption DEF Coming
<1>1. Cardinality(Coming') \in Nat /\ Cardinality(Pairs) \in Nat
  BY <1>0, FS_Subset, FS_CardinalityType
<1>2. entered' \in Nat /\ MaxTrades \in Nat
  BY DailyStatsAssumption DEF TypeOK
<1> QED BY <1>1, <1>2 DEF Room, Already, DayEntriesBounded

\* A step that fills nothing.
LEMMA NothingFilled ==
  ASSUME TypeOK, TypeOK', Entering, UNCHANGED <<clock, truth, entered>>, excused \subseteq excused',
         Coming' \subseteq Coming, pc' = "limits" => ~halt', pc' = "pnl" => pc = "pnl",
         pc' = "record" => order'[call'.pair] = "none"
  PROVE  Entering'
<1>1. Already' = Already
  BY DEF Already
<1>2. Already \in Nat
  BY DEF Already, TypeOK
<1>3. Room'
  BY <1>1, <1>2, RoomKept DEF Entering
<1>4. DayEntriesBounded'
  BY DEF Entering, DayEntriesBounded
<1> QED BY <1>3, <1>4 DEF Entering

\* A callback begins, and its day may be a new one.
LEMMA CallBegins ==
  ASSUME TypeOK, TypeOK', Answering, Entering, clock' = now, UNCHANGED <<files, history>>,
         Coming' \subseteq Coming, pc' \notin {"limits", "pnl"},
         pc' = "record" => order'[call'.pair] = "none"
  PROVE  Entering'
<1>1. CASE clock' = clock
  BY <1>1, NothingFilled DEF history
<1>2. CASE clock' # clock
  <2>1. truth' = truth /\ entered' = entered /\ excused' = excused
    BY DEF history
  <2>2. truth'.day # clock'
    BY <1>2, <2>1 DEF Answering, TypeOK, DayStats
  <2>3. Already' = 0 /\ 0 < MaxTrades
    BY <2>2, DailyStatsAssumption DEF Already
  <2>4. Room'
    BY <2>3, RoomForAll
  <2>5. DayEntriesBounded'
    BY <2>1 DEF Entering, DayEntriesBounded
  <2> QED BY <2>1, <2>4, <2>5 DEF Entering
<1> QED BY <1>1, <1>2

\* A fill is one trade, a round trip is none.
LEMMA RecordedTrades ==
  ASSUME NEW st \in DayStats, NEW op \in {"fill", "unpriced", "gain", "loss"}
  PROVE  Recorded(op, st).trades = IF op \in {"fill", "unpriced"} THEN st.trades + 1 ELSE st.trades
<1>1. \A n \in Nat, i \in Int : [st EXCEPT !.trades = n, !.net = i].trades = n
  BY Zenon DEF DayStats
<1>2. \A n \in Nat : [st EXCEPT !.trades = n, !.unverified = TRUE].trades = n
  BY Zenon DEF DayStats
<1>3. \A i \in Int : [st EXCEPT !.net = i].trades = st.trades
  BY Zenon DEF DayStats
<1>4. st.trades + 1 \in Nat /\ st.net + 1 \in Int /\ st.net - 1 \in Int
  BY DEF DayStats
<1>5. CASE op = "fill"
  BY <1>1, <1>4, <1>5 DEF Recorded
<1>6. CASE op = "unpriced"
  BY <1>1, <1>2, <1>4, <1>6 DEF Recorded
<1>7. CASE op = "gain"
  BY <1>3, <1>4, <1>7 DEF Recorded
<1>8. CASE op = "loss"
  BY <1>3, <1>4, <1>8 DEF Recorded
<1> QED BY <1>5, <1>6, <1>7, <1>8

\* What the callback under way owes, as trades of the day.
LEMMA OwedTrades ==
  ASSUME TypeOK
  PROVE  /\ pc = "record" => Owed.trades = TruthOn(clock).trades + 1 /\ Owed.day = clock
         /\ pc = "pnl" => Owed.trades = TruthOn(clock).trades /\ Owed.day = clock
         /\ pc \notin {"record", "pnl"} => Owed = truth
<1>1. /\ TruthOn(clock) \in DayStats /\ TruthOn(clock).day = clock
  BY NumbersType
<1>2. ASSUME NEW st \in DayStats
      PROVE  WithPnl(st).trades = st.trades /\ WithPnl(st).day = st.day
  BY <1>2, RecordedType, RecordedTrades DEF WithPnl, TypeOK, Call
<1>3. call.fee \in {"fill", "unpriced"}
  BY DEF TypeOK, Call
<1>4. /\ Recorded(call.fee, TruthOn(clock)) \in DayStats
      /\ Recorded(call.fee, TruthOn(clock)).day = clock
      /\ Recorded(call.fee, TruthOn(clock)).trades = TruthOn(clock).trades + 1
  BY <1>1, <1>3, RecordedType, RecordedTrades
<1> QED BY <1>1, <1>2, <1>4 DEF Owed

\* A fill is recorded, or should have been.
LEMMA FillRecorded ==
  ASSUME TypeOK, TypeOK', Entering, pc = "record", UNCHANGED <<clock, order>>,
         excused \subseteq excused', entered' = Entered,
         truth'.day = clock, truth'.trades = TruthOn(clock).trades + 1,
         pc' \in {"idle", "pnl", "break", "down"}
  PROVE  Entering'
<1>1. call.entry \in BOOLEAN /\ entered \in Nat /\ clock \in Nat /\ truth.trades \in Nat
  BY DEF TypeOK, Call, DayStats
<1>2. Entered = Already + (IF call.entry THEN 1 ELSE 0)
  BY DEF Entered, Already
<1>3. Already' = Entered
  BY DEF Already
<1>4. Room'
  <2>1. CASE call.entry
    <3>1. call.pair \in Coming
      BY <2>1 DEF Coming, TypeOK
    <3>3. Already' <= Already + 1 /\ Already \in Nat
      BY <1>1, <1>2, <1>3, <2>1 DEF Already
    <3>4. Coming' \subseteq Coming \ {call.pair}
      BY DEF Coming, Entering
    <3> QED BY <3>1, <3>3, <3>4, RoomKept DEF Entering
  <2>2. CASE ~call.entry
    <3>1. Coming' \subseteq Coming
      BY DEF Coming
    <3>2. Already' <= Already
      BY <1>1, <1>2, <1>3, <2>2 DEF Already
    <3> QED BY <3>1, <3>2, RoomKept DEF Entering
  <2> QED BY <1>1, <2>1, <2>2
<1>5. DayEntriesBounded'
  BY <1>4, RoomBounds
<1>6. entered' <= truth'.trades
  BY <1>1, FreshType DEF Entering, Entered, TruthOn, Fresh
<1> QED BY <1>4, <1>5, <1>6 DEF Entering

\* So is a round trip.
LEMMA PnlRecorded ==
  ASSUME TypeOK, TypeOK', Entering, pc = "pnl", UNCHANGED <<clock, order, entered>>,
         excused \subseteq excused', truth' = Owed, pc' \in {"idle", "break", "down"}
  PROVE  Entering'
<1>1. truth'.trades = TruthOn(clock).trades /\ truth'.day = clock
  BY OwedTrades
<1>2. entered \in Nat /\ truth.trades \in Nat
  BY DEF TypeOK, DayStats
<1>3. Already' = Already
  BY <1>1, <1>2 DEF Already, Entering
<1>4. Coming' \subseteq Coming
  BY DEF Coming
<1>5. Already \in Nat
  BY <1>2 DEF Already
<1>6. Room'
  BY <1>3, <1>4, <1>5, RoomKept DEF Entering
<1>7. DayEntriesBounded'
  BY <1>1, <1>6, RoomBounds
<1>8. entered' <= truth'.trades
  BY <1>1, <1>2 DEF Entering, TruthOn, Fresh
<1> QED BY <1>6, <1>7, <1>8 DEF Entering

LEMMA EnteringStep ==
  ASSUME TypeOK, TypeOK', Answering, Entering, [Next]_vars
  PROVE  Entering'
<1>0. NoCall.op = "none" /\ NoCall.pair = NoPair /\ NoPair \notin Pairs /\ ~NoCall.entry
  BY GateAssumption DEF NoCall
<1>1. ASSUME NEW p \in Pairs, AskEntry(p) PROVE Entering'
  <2>1. pc' = "kill" /\ order' = order /\ clock' = now /\ UNCHANGED <<files, history>>
    BY <1>1 DEF AskEntry, Begin, freqtrade
  <2>2. Coming' \subseteq Coming
    BY <2>1 DEF Coming
  <2> QED BY <2>1, <2>2, CallBegins
<1>2. ASSUME NEW p \in Pairs, AskExit(p) PROVE Entering'
  <2>1. pc' = "kill" /\ order' = order /\ clock' = now /\ UNCHANGED <<files, history>>
    BY <1>2 DEF AskExit, Begin, freqtrade
  <2>2. Coming' \subseteq Coming
    BY <2>1 DEF Coming
  <2> QED BY <2>1, <2>2, CallBegins
<1>3. ASSUME NEW p \in Pairs, OrderEnds(p) PROVE Entering'
  <2>1. clock' = now
    BY <1>3, OrderEndsCall
  <2>2. \/ pc' = "idle" /\ call' = NoCall
        \/ /\ pc' = "record" /\ call'.op = "filled" /\ call'.pair = p
           /\ (call'.entry => order[p] = "buy")
    BY <1>3, OrderEndsCall
  <2>3. UNCHANGED <<files, history>> /\ order' = [order EXCEPT ![p] = "none"]
    BY <1>3 DEF OrderEnds
  <2>4. order'[p] = "none" /\ \A q \in Pairs \ {p} : order'[q] = order[q]
    BY <2>3 DEF TypeOK
  <2>5. Coming' \subseteq Coming
    BY <1>0, <2>2, <2>4 DEF Coming
  <2> QED BY <2>1, <2>2, <2>3, <2>4, <2>5, CallBegins
<1>4. ASSUME NEW p \in Pairs, NEW o \in {"adjust", "sell"}, Ungated(p, o) PROVE Entering'
  <2>1. /\ UNCHANGED <<clock, pc, call, truth, entered, excused>> /\ pc = "idle"
        /\ order' = [order EXCEPT ![p] = o] /\ o # "buy"
    BY <1>4 DEF Ungated, history
  <2>2. Coming' \subseteq Coming
    BY <2>1 DEF Coming, TypeOK
  <2> QED BY <2>1, <2>2, NothingFilled
<1>5. CASE KillCheck
  <2>1. /\ UNCHANGED <<clock, truth, entered, excused, order>> /\ pc = "kill"
        /\ pc' \in {"idle", "halt", "quotes", "place"} /\ (pc' \in {"quotes", "place"} => call.op # "entry")
        /\ (pc' = "idle" => call' = NoCall)
        /\ (pc' # "idle" => call' = [call EXCEPT !.unchecked = blind])
    BY <1>5 DEF KillCheck, Deny, Done, history, freqtrade
  <2>2. pc' # "idle" => call'.op = call.op
    BY <2>1 DEF TypeOK, Call
  <2>3. Coming' \subseteq Coming
    BY <2>1, <2>2 DEF Coming
  <2> QED BY <2>1, <2>3, NothingFilled
<1>6. CASE HaltCheck
  <2>1. /\ UNCHANGED <<clock, truth, entered, excused, order, halt>> /\ pc = "halt"
        /\ (pc' = "idle" \/ (pc' = "limits" /\ ~halt))
    BY <1>6 DEF HaltCheck, Deny, Done, Goto, history, freqtrade, files
  <2>3. Coming' \subseteq Coming
    BY <2>1 DEF Coming
  <2> QED BY <2>1, <2>3, NothingFilled
<1>7. CASE LimitsCheck
  <2>1. UNCHANGED <<halt, clock, truth, entered, excused, order>> /\ pc = "limits"
    BY <1>7 DEF LimitsCheck, history, freqtrade
  <2>2. CASE pc' \in {"idle", "break"}
    <3>1. Coming' \subseteq Coming
      BY <2>1, <2>2 DEF Coming
    <3> QED BY <2>1, <2>2, <3>1, NothingFilled
  <2>3. CASE pc' = "quotes" /\ ~Unread /\ Limits(NumbersOf(stats)) = {}
    <3>1. NumbersOf(stats).trades < MaxTrades
      BY <2>3, NumbersType, DailyStatsAssumption DEF Limits, DayStats
    <3>2. CASE clock \in excused
      BY <2>1, <2>3, <3>2 DEF Entering, Room, DayEntriesBounded
    <3>3. CASE clock \notin excused
      <4>1. ~Wrong
        BY <2>1, <2>3, <3>3 DEF Answering, Answered, Entering, Unread
      <4>2. TruthOn(clock).trades < MaxTrades
        BY <3>1, <4>1 DEF Wrong
      <4>3. Already' < MaxTrades
        BY <2>1, <4>2, DailyStatsAssumption DEF Already, TruthOn, Entering, TypeOK, DayStats
      <4>4. Room'
        BY <4>3, RoomForAll
      <4> QED BY <2>1, <2>3, <4>4 DEF Entering, DayEntriesBounded
    <3> QED BY <3>2, <3>3
  <2> QED BY <1>7, <2>2, <2>3 DEF LimitsCheck, Deny, Done, Goto, Raise
<1>8. CASE QuotesCheck
  <2>1. /\ UNCHANGED <<clock, truth, entered, excused, order>> /\ pc = "quotes"
        /\ (pc' \in {"idle", "break"} \/ (pc' = "place" /\ call' = call))
    BY <1>8 DEF QuotesCheck, Deny, Done, Goto, Raise, Allow, history, freqtrade
  <2>3. Coming' \subseteq Coming
    BY <2>1 DEF Coming
  <2> QED BY <2>1, <2>3, NothingFilled
<1>9. CASE Place
  <2>1. /\ UNCHANGED <<clock, truth, entered, excused>> /\ pc = "place" /\ pc' = "idle"
        /\ order' = [order EXCEPT ![call.pair] = IF call.op = "entry" THEN "buy" ELSE "sell"]
    BY <1>9 DEF Place, Done, history
  <2>2. \A q \in Pairs : order'[q] = "buy" => order[q] = "buy" \/ (q = call.pair /\ call.op = "entry")
    BY <2>1 DEF TypeOK
  <2>3. Coming' \subseteq Coming
    BY <2>1, <2>2 DEF Coming
  <2> QED BY <2>1, <2>3, NothingFilled
<1>10. CASE Break
  <2>1. /\ UNCHANGED <<clock, truth, entered, order>> /\ excused \subseteq excused' /\ pc = "break"
        /\ (pc' = "idle" \/ (pc' = "place" /\ call' = call /\ call.op = "exit"))
    BY <1>10 DEF Break, Allow, Done, Goto, freqtrade
  <2>3. Coming' \subseteq Coming
    BY <2>1 DEF Coming
  <2> QED BY <2>1, <2>3, NothingFilled
<1>11. CASE RecordFill
  <2>1. /\ pc = "record" /\ UNCHANGED <<clock, order, excused>> /\ entered' = Entered
        /\ truth' = Recorded(call.fee, TruthOn(clock)) /\ pc' \in {"idle", "pnl"}
    BY <1>11 DEF RecordFill, freqtrade, Done, Goto
  <2>2. call.fee \in {"fill", "unpriced"}
    BY DEF TypeOK, Call
  <2>3. truth'.day = clock /\ truth'.trades = TruthOn(clock).trades + 1
    BY <2>1, <2>2, NumbersType, RecordedType, RecordedTrades
  <2> QED BY <2>1, <2>3, FillRecorded
<1>12. CASE RecordPnl
  <2>1. /\ pc = "pnl" /\ UNCHANGED <<clock, order, excused, entered>> /\ truth' = Owed /\ pc' = "idle"
    BY <1>12 DEF RecordPnl, Done, freqtrade
  <2> QED BY <2>1, PnlRecorded
<1>13. CASE RecordRaises
  <2>1. /\ UNCHANGED <<clock, order, excused>> /\ truth' = Owed /\ pc' = "break"
        /\ entered' = (IF pc = "record" THEN Entered ELSE entered) /\ pc \in {"record", "pnl"}
    BY <1>13 DEF RecordRaises, Raise, Goto, freqtrade
  <2>2. CASE pc = "record"
    BY <2>1, <2>2, OwedTrades, FillRecorded
  <2>3. CASE pc = "pnl"
    BY <2>1, <2>3, PnlRecorded
  <2> QED BY <2>1, <2>2, <2>3
<1>14. CASE Midnight
  <2>1. UNCHANGED <<clock, truth, entered, excused, order, call, pc, halt>>
    BY <1>14 DEF Midnight, history, freqtrade, files
  <2>3. Coming' \subseteq Coming
    BY <2>1 DEF Coming
  <2> QED BY <2>1, <2>3, NothingFilled DEF Entering
<1>15. CASE Crash
  <2>1. /\ UNCHANGED <<clock, order>> /\ excused \subseteq excused' /\ truth' = Owed /\ pc' = "down"
        /\ entered' = (IF pc = "record" THEN Entered ELSE entered)
    BY <1>15 DEF Crash, freqtrade
  <2>2. CASE pc = "record"
    BY <2>1, <2>2, OwedTrades, FillRecorded
  <2>3. CASE pc = "pnl"
    BY <2>1, <2>3, PnlRecorded
  <2>4. CASE pc \notin {"record", "pnl"}
    <3>1. UNCHANGED <<truth, entered>>
      BY <2>1, <2>4, OwedTrades
    <3>2. Coming' \subseteq Coming
      BY <2>1 DEF Coming
    <3> QED BY <2>1, <3>1, <3>2, NothingFilled
  <2> QED BY <2>2, <2>3, <2>4
<1>16. CASE BotStart
  <2>1. UNCHANGED <<clock, truth, entered, excused, order>> /\ pc' = "idle"
    BY <1>16 DEF BotStart, history, freqtrade
  <2>3. Coming' \subseteq Coming
    BY <2>1 DEF Coming
  <2> QED BY <2>1, <2>3, NothingFilled
<1>17. CASE Damage
  <2>1. /\ call'.op = call.op /\ call'.pair = call.pair /\ call'.entry = call.entry
        /\ UNCHANGED <<halt, clock, pc, order, truth, entered, excused>>
    BY <1>17 DEF Damage, TypeOK, Call, history, freqtrade
  <2>3. Coming' \subseteq Coming
    BY <2>1 DEF Coming
  <2> QED BY <2>1, <2>3, NothingFilled DEF Entering
<1>18. CASE Sighted
  <2>1. UNCHANGED <<halt, clock, pc, call, order, truth, entered, excused>>
    BY <1>18 DEF Sighted, history, freqtrade
  <2>3. Coming' \subseteq Coming
    BY <2>1 DEF Coming
  <2> QED BY <2>1, <2>3, NothingFilled DEF Entering
<1>19. CASE HumanTurnsKill
  <2>1. /\ call'.op = call.op /\ call'.pair = call.pair /\ call'.entry = call.entry
        /\ UNCHANGED <<halt, clock, pc, order, truth, entered, excused>>
    BY <1>19 DEF HumanTurnsKill, TypeOK, Call, history, freqtrade
  <2>3. Coming' \subseteq Coming
    BY <2>1 DEF Coming
  <2> QED BY <2>1, <2>3, NothingFilled DEF Entering
<1>20. CASE HumanClears
  <2>1. /\ call'.op = call.op /\ call'.pair = call.pair /\ call'.entry = call.entry /\ halt' = FALSE
        /\ UNCHANGED <<clock, pc, order, truth, entered>> /\ excused \subseteq excused'
    BY <1>20 DEF HumanClears, TypeOK, Call, freqtrade
  <2>3. Coming' \subseteq Coming
    BY <2>1 DEF Coming
  <2> QED BY <2>1, <2>3, NothingFilled DEF Entering
<1>21. CASE HumanDeletes
  <2>1. /\ truth' = Fresh(0) /\ entered' = 0 /\ UNCHANGED <<halt, clock, pc, call, order>>
        /\ Fresh(0).trades = 0 /\ 0 < MaxTrades
    BY <1>21, DailyStatsAssumption DEF HumanDeletes, Fresh, freqtrade
  <2>2. Already' = 0
    BY <2>1 DEF Already
  <2>3. Room'
    BY <2>1, <2>2, RoomForAll
  <2>4. Cardinality(Pairs) \in Nat /\ MaxTrades \in Nat
    BY GateAssumption, DailyStatsAssumption, FS_CardinalityType
  <2>5. DayEntriesBounded'
    BY <2>1, <2>4 DEF DayEntriesBounded
  <2> QED BY <2>1, <2>3, <2>5 DEF Entering
<1>22. CASE UNCHANGED vars
  <2>1. UNCHANGED <<clock, truth, entered, excused, order, call, pc, halt>>
    BY <1>22 DEF vars, history, freqtrade, files
  <2>3. Coming' \subseteq Coming
    BY <2>1 DEF Coming
  <2> QED BY <2>1, <2>3, NothingFilled DEF Entering
<1> QED BY <1>1, <1>2, <1>3, <1>4, <1>5, <1>6, <1>7, <1>8, <1>9, <1>10, <1>11, <1>12, <1>13,
           <1>14, <1>15, <1>16, <1>17, <1>18, <1>19, <1>20, <1>21, <1>22 DEF Next, Gate

\* A day has fewer than MaxTrades entries of the gate, and at most one more for each pair, unless
\* its numbers are excused.
THEOREM EntriesBounded == Spec => []DayEntriesBounded
<1>1. Init => Entering
  <2>1. ASSUME Init PROVE Coming = {} /\ Already = 0 /\ truth.trades = 0 /\ entered = 0
    BY <2>1, GateAssumption DEF Init, Coming, Already, NoCall, Fresh
  <2>2. /\ Cardinality({}) = 0 /\ Cardinality(Pairs) \in Nat /\ MaxTrades \in Nat \ {0}
    BY FS_EmptySet, FS_CardinalityType, GateAssumption, DailyStatsAssumption
  <2>3. Init => Room /\ DayEntriesBounded
    BY <2>1, <2>2 DEF Room, DayEntriesBounded
  <2>4. Init => pc = "idle"
    BY DEF Init
  <2> QED BY <2>1, <2>3, <2>4 DEF Entering
<1>2. Entering => DayEntriesBounded
  BY DEF Entering
<1>3. Init => Answering
  BY AnsweringInit
<1> QED BY <1>1, <1>2, <1>3, TypeCorrect, AnsweringStep, EnteringStep, PTL DEF Spec
=============================================================================
