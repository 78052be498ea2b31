--------------------------- MODULE FreqtradeGate ---------------------------
(***************************************************************************)
(* deadman inside a trading bot: the gate and the mixin of                 *)
(* examples/freqtrade/deadman_freqtrade.py, with the kill switch, the      *)
(* entry halt, the daily numbers and the order checks it is made of.       *)
(*                                                                         *)
(* freqtrade (external) asks before an order, places it, sees how it ends  *)
(* and reports the fill, one callback after another; every look at a file  *)
(* and the network call for a quote is a step.  Humans act on the files    *)
(* between any two steps.  The clock of the gate stands still in between:  *)
(* it is the time freqtrade passes to a callback.  What the ledger is told *)
(* decides nothing here (_ledger and engage only log a failure) and is     *)
(* left out; DailyLimits has what several writers do to the numbers.       *)
(***************************************************************************)
EXTENDS OrderChecks, DailyStats, FiniteSets

CONSTANTS
  Pairs,         \* allowed_pairs; freqtrade has one trade per pair
  NoPair,        \* no pair
  Size,          \* base units that an entry asks for
  Quotes,        \* what the quotes provider may answer
  ExitSanity,    \* exit_sanity
  MaxAsks,       \* bound: entries that freqtrade asks for
  MaxTurns       \* bound: midnights, human actions, orders placed without asking, crashes,
                 \* writes that fail and damaged files, together

ASSUME GateAssumption ==
  /\ IsFiniteSet(Pairs) /\ NoPair \notin Pairs
  /\ Size \in Nat \ {0} /\ Quotes \subseteq Feeds /\ ExitSanity \in BOOLEAN
  /\ MaxAsks \in Nat /\ MaxTurns \in Nat

VARIABLES
  kill,        \* the sentinel file is there
  halt,        \* entry_halt.json holds a halt
  stats,       \* daily_stats.json
  blind,       \* the state directory cannot be read or written
  now,         \* the day of freqtrade
  clock,       \* FreqtradeClock: the day of the last callback
  pc, call,    \* where the bot is, and the callback it is in
  held,        \* freqtrade: base units of the open trade of each pair
  order,       \* freqtrade: the order in flight of each pair
  truth,       \* history: the numbers of the last day with a fill, had each been recorded
  entered,     \* history: entries the gate let in that were filled that day
  excused,     \* history: days whose numbers are wrong and the gate cannot know, or a human knows
  asks, turns

freqtrade == <<held, order>>
files   == <<kill, halt, stats, blind>>
history == <<truth, entered, excused>>
bounds  == <<asks, turns>>
vars    == <<files, now, clock, pc, call, freqtrade, history, bounds>>

-----------------------------------------------------------------------------

PCs    == {"down", "idle", "kill", "halt", "limits", "quotes", "place", "record", "pnl", "break"}
Files  == [status: {"OK", "ABSENT", "UNREADABLE"}, st: DayStats]
Call   == [op: {"none", "entry", "exit", "filled"}, pair: Pairs \cup {NoPair},
           entry: BOOLEAN, fee: {"fill", "unpriced"}, pnl: {"none", "gain", "loss"},
           stops: SUBSET {"kill", "halt"}, unchecked: BOOLEAN]
NoCall == [op |-> "none", pair |-> NoPair, entry |-> FALSE, fee |-> "fill", pnl |-> "none",
           stops |-> {}, unchecked |-> FALSE]

\* The numbers that DailyLimits._load has for the day of the clock.
NumbersOf(f) == IF f.status = "OK" /\ f.st.day = clock THEN f.st ELSE Fresh(clock)
\* _load writes a fresh day over an older one.
Rolled == IF stats.status = "OK" /\ stats.st.day < clock
          THEN [status |-> "OK", st |-> Fresh(clock)] ELSE stats
Unread == blind \/ stats.status = "UNREADABLE"

Turn == turns < MaxTurns /\ turns' = turns + 1
Goto(l) == pc' = l /\ UNCHANGED call

\* A callback begins: _deadman_tick, and what stands against its order.
Begin(c, l) == call' = c /\ pc' = l /\ clock' = now
Stops == (IF kill /\ ~blind THEN {"kill"} ELSE {}) \cup (IF halt THEN {"halt"} ELSE {})

\* It ends: with nothing to do, with an order to place, with an exception in its try block.
Done  == pc' = "idle" /\ call' = NoCall
Deny  == Done
Allow == Goto("place")
Raise == Goto("break")

-----------------------------------------------------------------------------
(* confirm_trade_entry and confirm_trade_exit *)

\* freqtrade wants to open a trade.
AskEntry(p) ==
  /\ pc = "idle" /\ held[p] = 0 /\ order[p] = "none"
  /\ asks < MaxAsks /\ asks' = asks + 1
  /\ Begin([NoCall EXCEPT !.op = "entry", !.pair = p, !.stops = Stops], "kill")
  /\ UNCHANGED <<files, now, freqtrade, history, turns>>

\* freqtrade wants to close one.
AskExit(p) ==
  /\ pc = "idle" /\ held[p] > 0 /\ order[p] = "none"
  /\ Begin([NoCall EXCEPT !.op = "exit", !.pair = p, !.stops = Stops \ {"halt"}], "kill")
  /\ UNCHANGED <<files, now, freqtrade, history, bounds>>

\* Mutant: the sentinel is looked for when a position is opened only.
KillCheck_EntriesOnly ==
  /\ pc = "kill"
  /\ IF kill /\ ~blind /\ call.op = "entry" THEN Deny
     ELSE /\ pc' = IF call.op = "entry" THEN "halt" ELSE IF ExitSanity THEN "quotes" ELSE "place"
          /\ call' = [call EXCEPT !.unchecked = blind]
  /\ UNCHANGED <<files, now, clock, freqtrade, history, bounds>>
\* Mutant: a halt stops exits as the sentinel does.
KillCheck_HaltToo ==
  /\ pc = "kill"
  /\ IF (kill \/ halt) /\ ~blind THEN Deny
     ELSE /\ pc' = IF call.op = "entry" THEN "halt" ELSE IF ExitSanity THEN "quotes" ELSE "place"
          /\ call' = [call EXCEPT !.unchecked = blind]
  /\ UNCHANGED <<files, now, clock, freqtrade, history, bounds>>
\* KillSwitch.check: os.path.exists answers False where it cannot look.
KillCheck ==
  /\ pc = "kill"
  /\ IF kill /\ ~blind THEN Deny
     ELSE /\ pc' = IF call.op = "entry" THEN "halt" ELSE IF ExitSanity THEN "quotes" ELSE "place"
          /\ call' = [call EXCEPT !.unchecked = blind]
  /\ UNCHANGED <<files, now, clock, freqtrade, history, bounds>>

\* EntryHalt.active: a file nobody can read is a halt.
HaltCheck ==
  /\ pc = "halt"
  /\ IF halt \/ blind THEN Deny ELSE Goto("limits")
  /\ UNCHANGED <<files, now, clock, freqtrade, history, bounds>>

\* resolve_units, and DailyLimits.check, which may write a fresh day.
LimitsCheck ==
  /\ pc = "limits"
  /\ \/ Deny /\ UNCHANGED <<stats, turns>>      \* the rate is no price
     \/ Unread /\ Deny /\ UNCHANGED <<stats, turns>>
     \/ /\ ~Unread
        /\ stats' = Rolled
        /\ IF Limits(NumbersOf(stats)) # {} THEN Deny ELSE Goto("quotes")
        /\ UNCHANGED turns
     \/ ~Unread /\ Rolled # stats /\ Turn /\ Raise /\ UNCHANGED stats
  /\ UNCHANGED <<kill, halt, blind, now, clock, freqtrade, history, asks>>

\* The quotes provider answers or raises, and OrderSanity.check says what it is worth.  The
\* order of an exit whose units do not resolve is let out.
QuotesCheck ==
  /\ pc = "quotes"
  /\ \/ \E feed \in Quotes, free \in {None, Size} :
          IF Sane(call.pair, Resolved("BASE", Size, 1, None), feed, free, call.op = "exit")
          THEN Allow ELSE Deny
     \/ call.op = "exit" /\ Allow
     \/ Raise
  /\ UNCHANGED <<files, now, clock, freqtrade, history, bounds>>

\* freqtrade has its True.
Place ==
  /\ pc = "place"
  /\ order' = [order EXCEPT ![call.pair] = IF call.op = "entry" THEN "buy" ELSE "sell"]
  /\ Done
  /\ UNCHANGED <<files, now, clock, held, history, bounds>>

\* Mutant: the halt is left to a person who reads the log.
Break_LogsOnly ==
  /\ pc = "break"
  /\ IF call.op = "exit" THEN Allow ELSE Done
  /\ UNCHANGED <<files, now, clock, freqtrade, history, bounds>>
\* except Exception: _deadman_break sets a manual halt, or fails to, then the callback answers.
Break ==
  /\ pc = "break"
  /\ \/ ~blind /\ halt' = TRUE /\ UNCHANGED <<excused, turns>>
     \/ /\ (blind /\ UNCHANGED turns) \/ Turn
        /\ excused' = excused \cup (IF call.op = "filled" THEN {clock} ELSE {})
        /\ UNCHANGED halt
  /\ IF call.op = "exit" THEN Allow ELSE Done
  /\ UNCHANGED <<kill, stats, blind, now, clock, freqtrade, truth, entered, asks>>

-----------------------------------------------------------------------------
(* order_filled *)

TruthOn(day) == IF truth.day = day THEN truth ELSE Fresh(day)
WithPnl(st)  == IF call.pnl = "none" THEN st ELSE Recorded(call.pnl, st)
\* The numbers that the callback under way would have led to.
Owed == CASE pc = "record" -> WithPnl(Recorded(call.fee, TruthOn(clock)))
          [] pc = "pnl"    -> WithPnl(TruthOn(clock))
          [] OTHER         -> truth

\* _deadman_round_trip: P&L is attributed when all of the trade is sold.
PnlOf(p, q) == IF order[p] = "sell" /\ q = held[p] THEN {"gain", "loss"} ELSE {"none"}

\* freqtrade sees how an order ended, with q units filled, and calls order_filled.
OrderEnds(p) ==
  /\ pc = "idle" /\ order[p] # "none"
  /\ \E q \in 0..(IF order[p] = "sell" THEN held[p] ELSE Size) :
       /\ held' = [held EXCEPT ![p] = IF order[p] = "sell" THEN @ - q ELSE @ + q]
       /\ IF q = 0 THEN Begin(NoCall, "idle")
          ELSE \E fee \in {"fill", "unpriced"}, pnl \in PnlOf(p, q) :
                 Begin([NoCall EXCEPT !.op = "filled", !.pair = p, !.entry = (order[p] = "buy"),
                                      !.fee = fee, !.pnl = pnl], "record")
  /\ order' = [order EXCEPT ![p] = "none"]
  /\ UNCHANGED <<files, now, history, bounds>>

\* Entries the gate let in, among the fills of the day.
Entered == (IF truth.day = clock THEN entered ELSE 0) + (IF call.entry THEN 1 ELSE 0)

\* DailyLimits.record_fill
RecordFill ==
  /\ pc = "record" /\ ~Unread
  /\ stats' = [status |-> "OK", st |-> Recorded(call.fee, NumbersOf(stats))]
  /\ IF call.pnl = "none" THEN Done ELSE Goto("pnl")
  /\ truth' = Recorded(call.fee, TruthOn(clock)) /\ entered' = Entered
  /\ UNCHANGED <<kill, halt, blind, now, clock, freqtrade, excused, bounds>>

\* DailyLimits.record_pnl
RecordPnl ==
  /\ pc = "pnl" /\ ~Unread
  /\ stats' = [status |-> "OK", st |-> Recorded(call.pnl, NumbersOf(stats))]
  /\ Done
  /\ truth' = Owed
  /\ UNCHANGED <<kill, halt, blind, now, clock, freqtrade, entered, excused, bounds>>

\* Either of them raises, over a file nobody can read, another writer or a disk; the fresh day
\* may have been written.
RecordRaises ==
  /\ pc \in {"record", "pnl"}
  /\ \/ Unread /\ UNCHANGED <<stats, turns>>
     \/ ~Unread /\ Turn /\ stats' \in {stats, Rolled}
  /\ Raise
  /\ truth' = Owed /\ entered' = (IF pc = "record" THEN Entered ELSE entered)
  /\ UNCHANGED <<kill, halt, blind, now, clock, freqtrade, excused, asks>>

-----------------------------------------------------------------------------
(* freqtrade on its own, the machine and the humans *)

\* Position adjustments, partial and forced exits are placed without a question.
Ungated(p, o) ==
  /\ pc = "idle" /\ held[p] > 0 /\ order[p] = "none"
  /\ Turn
  /\ order' = [order EXCEPT ![p] = o]
  /\ UNCHANGED <<files, now, clock, pc, call, held, history, asks>>

Midnight ==
  /\ Turn /\ now' = now + 1
  /\ UNCHANGED <<files, clock, pc, call, freqtrade, history, asks>>

Crash ==
  /\ pc # "down" /\ Turn
  /\ pc' = "down" /\ call' = NoCall
  /\ truth' = Owed /\ entered' = (IF pc = "record" THEN Entered ELSE entered)
  /\ excused' = excused \cup (IF call.op = "filled" THEN {clock} ELSE {})
  /\ UNCHANGED <<files, now, clock, freqtrade, asks>>

\* bot_start: Paths must be able to write.  freqtrade goes on with the orders it knows.
BotStart ==
  /\ pc = "down" /\ ~blind
  /\ pc' = "idle" /\ call' = NoCall
  /\ UNCHANGED <<files, now, clock, freqtrade, history, bounds>>

\* The numbers become unreadable, or all of the directory.
Damage ==
  /\ Turn
  /\ \/ stats' = [status |-> "UNREADABLE", st |-> Fresh(0)] /\ UNCHANGED <<blind, call>>
     \/ /\ blind' = TRUE /\ call' = [call EXCEPT !.stops = @ \ {"kill"}]
        /\ UNCHANGED stats
  /\ UNCHANGED <<kill, halt, now, clock, pc, freqtrade, history, asks>>

Sighted ==
  /\ blind /\ blind' = FALSE
  /\ UNCHANGED <<kill, halt, stats, now, clock, pc, call, freqtrade, history, bounds>>

\* KillSwitch.engage and release, by hand too.
HumanTurnsKill ==
  /\ Turn /\ kill' = ~kill
  /\ call' = [call EXCEPT !.stops = @ \ {"kill"}]
  /\ UNCHANGED <<halt, stats, blind, now, clock, pc, freqtrade, history, asks>>

\* What the numbers on file say is not what happened that day.
Wrong == NumbersOf(stats) # TruthOn(clock)

\* A human clears the halt; the numbers are his from now on.
HumanClears ==
  /\ Turn /\ halt /\ halt' = FALSE
  /\ call' = [call EXCEPT !.stops = @ \ {"halt"}]
  /\ excused' = excused \cup (IF Wrong THEN {clock} ELSE {})
  /\ UNCHANGED <<kill, stats, blind, now, clock, pc, freqtrade, truth, entered, asks>>

\* A human deletes the statistics: a clean day.
HumanDeletes ==
  /\ Turn
  /\ stats' = [status |-> "ABSENT", st |-> Fresh(0)]
  /\ truth' = Fresh(0) /\ entered' = 0 /\ excused' = {}
  /\ UNCHANGED <<kill, halt, blind, now, clock, pc, call, freqtrade, asks>>

Init ==
  /\ kill \in BOOLEAN /\ halt \in BOOLEAN /\ blind = FALSE   \* files of an earlier run
  /\ stats = [status |-> "ABSENT", st |-> Fresh(0)]
  /\ now = 1 /\ clock = 1 /\ pc = "idle" /\ call = NoCall
  /\ held = [p \in Pairs |-> 0] /\ order = [p \in Pairs |-> "none"]
  /\ truth = Fresh(0) /\ entered = 0 /\ excused = {}
  /\ asks = 0 /\ turns = 0

Gate == KillCheck \/ HaltCheck \/ LimitsCheck \/ QuotesCheck \/ Place \/ Break
          \/ RecordFill \/ RecordPnl \/ RecordRaises

Next ==
  \/ \E p \in Pairs :
       \/ AskEntry(p) \/ AskExit(p) \/ OrderEnds(p)
       \/ \E o \in {"adjust", "sell"} : Ungated(p, o)
  \/ Gate
  \/ Midnight \/ Crash \/ BotStart \/ Damage \/ Sighted
  \/ HumanTurnsKill \/ HumanClears \/ HumanDeletes

Spec == Init /\ [][Next]_vars

\* The statements of a callback go on, and freqtrade asks again about an exit it wants in every
\* turn of its loop.
FairSpec == Spec /\ WF_vars(Gate) /\ \A p \in Pairs : SF_vars(AskExit(p))

-----------------------------------------------------------------------------
(* Properties *)

TypeOK ==
  /\ {kill, halt, blind} \subseteq BOOLEAN
  /\ stats \in Files
  /\ now \in Nat /\ clock \in Nat
  /\ pc \in PCs /\ call \in Call
  /\ pc \notin {"down", "idle"} => call.pair \in Pairs
  /\ pc = "pnl" => call.pnl # "none"
  /\ held \in [Pairs -> Nat] /\ order \in [Pairs -> {"none", "buy", "adjust", "sell"}]
  /\ truth \in DayStats /\ entered \in Nat /\ excused \subseteq Nat

\* No order gets out of a callback that began under a stop which has been there ever since: a
\* sentinel that can be seen stops every order, a halt stops entries, whatever raises, fails or
\* is restarted in between.
StopsHold == [][pc = "place" /\ order' # order => call.stops = {}]_vars

\* README of the example: "numbers we know are wrong must not be the basis for new exposure".
\* Between callbacks, the day's numbers are those of the fills and round trips that took place,
\* or the entry halt is set, unless the bot died in order_filled, the halt could not be written
\* or a human has cleared it over wrong numbers.
NumbersTrueOrHalted ==
  pc = "idle" /\ Wrong => halt \/ clock \in excused \/ stats.status = "UNREADABLE"

\* check() counts recorded fills and knows nothing of orders in flight.  A day has fewer than
\* MaxTrades entries, and at most one more for each pair.
DayEntriesBounded ==
  truth.day \in excused \/ entered < MaxTrades + Cardinality(Pairs)

\* README of the example: halts, limits, numbers nobody can read and an exception inside
\* deadman cannot stop an exit.  freqtrade gets its exit placed, if order sanity was not opted
\* in, or the kill switch is on, or the bot is down.
ExitsGetOut ==
  \A p \in Pairs :
    held[p] > 0 ~> held[p] = 0 \/ order[p] # "none" \/ kill \/ pc = "down" \/ ExitSanity

-----------------------------------------------------------------------------
(* What the documents say, and the code does not always do *)

\* kill_switch.py: "Any error while checking also blocks."
KillErrorBlocks == [][pc = "place" /\ order' # order => ~call.unchecked]_vars

\* max_trades_per_day, as its name says.
DayEntriesWithinLimit == truth.day \in excused \/ entered <= MaxTrades
=============================================================================
