----------------------------- MODULE DailyStats -----------------------------
(***************************************************************************)
(* The numbers of a day in deadman/daily_limits.py: what record_fill and   *)
(* record_pnl make of them, and the limits that check() finds reached.     *)
(* DailyLimits makes every access of the file that holds them a step;      *)
(* FreqtradeGate is a program that uses them.                              *)
(*                                                                         *)
(* Money is counted in units: a fee is one, a gain or a loss is one.  The  *)
(* sums that nothing decides on (filled_usd, fees_estimated) are left out. *)
(***************************************************************************)
EXTENDS Integers

CONSTANTS
  MaxTrades,   \* max_trades_per_day
  MaxLoss,     \* max_daily_loss_usd
  WorstCase    \* whether worst_case_fee_bps is set

ASSUME DailyStatsAssumption ==
  {MaxTrades, MaxLoss} \subseteq Nat \ {0} /\ WorstCase \in BOOLEAN

DayStats == [day: Nat, trades: Nat, net: Int, unverified: BOOLEAN]

Fresh(day) == [day |-> day, trades |-> 0, net |-> 0, unverified |-> FALSE]

\* Mutant: the count of the day is not carried over.
Recorded_FromZero(op, st) ==
  CASE op = "fill"     -> [st EXCEPT !.trades = 1, !.net = @ - 1]
    [] op = "unpriced" -> [st EXCEPT !.trades = 1, !.unverified = ~WorstCase]
    [] OTHER           -> st
\* The numbers after record_fill, with a fee or without one, and after record_pnl.
Recorded(op, st) ==
  CASE op = "fill"     -> [st EXCEPT !.trades = @ + 1, !.net = @ - 1]
    [] op = "unpriced" -> IF WorstCase THEN [st EXCEPT !.trades = @ + 1, !.net = @ - 1]
                                       ELSE [st EXCEPT !.trades = @ + 1, !.unverified = TRUE]
    [] op = "gain"     -> [st EXCEPT !.net = @ + 1]
    [] op = "loss"     -> [st EXCEPT !.net = @ - 1]

\* Mutant: the number of trades is recorded and never compared.
Limits_NotTrades(st) ==
  (IF st.unverified THEN {"fees"} ELSE {})
    \cup (IF st.net <= -MaxLoss THEN {"loss"} ELSE {})
\* The limits that check() finds reached.
Limits(st) ==
  (IF st.unverified THEN {"fees"} ELSE {})
    \cup (IF st.trades >= MaxTrades THEN {"trades"} ELSE {})
    \cup (IF st.net <= -MaxLoss THEN {"loss"} ELSE {})
=============================================================================
