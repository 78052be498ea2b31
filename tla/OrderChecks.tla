---------------------------- MODULE OrderChecks ----------------------------
(***************************************************************************)
(* What deadman asks of one order, without any state: the units contract   *)
(* and the exit predicates of deadman/intent.py, the sanity check and the  *)
(* quantizer of deadman/order_sanity.py.                                   *)
(*                                                                         *)
(* Amounts and prices are whole units, and an amount in USD is a multiple  *)
(* of the price.  None stands for a missing, NaN or infinite number.  The  *)
(* verdicts are kept without their codes: a denial is a denial.            *)
(***************************************************************************)
EXTENDS Integers

CONSTANT
  Policy   \* the configuration of OrderSanity; None omits an optional check

None == -1
Optional == Nat \cup {None}
Policies == [symbols: SUBSET STRING, latency: Nat, spread: Nat,
             least: Optional, most: Optional, deviation: Optional]

ASSUME OrderChecksAssumption ==
  /\ Policy \in Policies
  /\ Policy.least # None /\ Policy.most # None => Policy.least <= Policy.most

Sides == {"buy", "sell"}
Units == {"USD", "BASE", "CONTRACTS"}

Abs(n) == IF n < 0 THEN -n ELSE n
\* What an order does to the position.
Signed(side, base) == IF side = "buy" THEN base ELSE -base

-----------------------------------------------------------------------------
(* deadman/intent.py *)

\* resolve_units raises nothing.
Resolves(units, amount, price, contract) ==
  units \in Units /\ amount > 0 /\ price > 0 /\ (units = "CONTRACTS" => contract > 0)

\* resolve_units: the size in base and in USD.
Resolved(units, amount, price, contract) ==
  LET base == CASE units = "USD"       -> amount \div price
                [] units = "BASE"      -> amount
                [] units = "CONTRACTS" -> amount * contract
  IN [base |-> base, usd |-> IF units = "USD" THEN amount ELSE base * price]

\* spot_long_only_is_exit
SpotExit(side) == side = "sell"

\* net_position_is_exit: position holds the net position, if there is a snapshot of it.
NetExit(side, position, size) ==
  \E net \in position :
    /\ net # 0
    /\ IF size = None THEN (net > 0) <=> (side = "sell")
                      ELSE Abs(net + Signed(side, size)) < Abs(net)

-----------------------------------------------------------------------------
(* deadman/order_sanity.py *)

Feeds == [status: {"connected", "other", "none"}, latency: Optional,
          bid: Optional, ask: Optional, ref: Optional]

\* OrderSanity.check: the quote is there, uncrossed, and no wider than allowed.
Quoted(feed) ==
  /\ 0 < feed.bid /\ feed.bid < feed.ask
  /\ 2 * (feed.ask - feed.bid) * 10000 <= Policy.spread * (feed.ask + feed.bid)

\* The middle of the quote is near the reference price, which the policy makes obligatory.
Near(feed) ==
  /\ feed.ref > 0
  /\ Abs(feed.bid + feed.ask - 2 * feed.ref) * 10000 <= Policy.deviation * 2 * feed.ref

\* What the order needs is there: base for an exit, quote currency for an entry.
Covers(available, o, exit) == available >= (IF exit THEN o.base ELSE o.usd)

\* OrderSanity.check
Sane(symbol, o, feed, available, exit) ==
  /\ o.usd > 0 /\ o.base > 0
  /\ feed.status = "connected"
  /\ feed.latency # None /\ feed.latency <= Policy.latency
  /\ Quoted(feed)
  /\ symbol \in Policy.symbols
  /\ available # None /\ Covers(available, o, exit)
  /\ Policy.least # None => o.usd >= Policy.least
  /\ Policy.most # None => o.usd <= Policy.most
  /\ Policy.deviation # None => Near(feed)

\* quantize: whole steps, never more than asked.
Quantized(base, step) == step * (base \div step)

\* quantize denies a missing step, and an order that is less than a step.
Quantizes(base, step) == step > 0 /\ Quantized(base, step) > 0
=============================================================================
