--------------------------- MODULE OrderAdmission ---------------------------
(***************************************************************************)
(* The gates of execute() in deadman/executor.py (steps 1 to 7) with the   *)
(* size of the order and a venue where positions are long or short, for a  *)
(* caller who passes net_position_is_exit.  HonestExecutor has the rest of *)
(* execute(), and no sizes.                                                *)
(*                                                                         *)
(* The caller hands over the position as it is, and the feed is good.  The *)
(* daily limits are one answer: an entry is let in, or it is not.  One     *)
(* order is at the venue at a time: execute() itself refuses only an order *)
(* of the same client id (step 7), and a caller that overlaps orders hands *)
(* over a position that the one in flight is about to change.              *)
(***************************************************************************)
EXTENDS OrderChecks

CONSTANTS
  Amounts,   \* the amounts that a caller asks for
  Prices,    \* the prices of the market
  Steps,     \* amount_step; None: the caller gives none
  Margin     \* FALSE: what is available to an exit is the position and no more

\* What the theorems assume of the constants.
Parameters ==
  /\ Amounts \subseteq Nat /\ Prices \subseteq Nat \ {0} /\ Steps \subseteq Optional \ {0}
  /\ Margin \in BOOLEAN

VARIABLES
  net,      \* the position: long above zero, short below
  killed,   \* KillSwitch.check denies
  halted,   \* EntryHalt.active
  limited,  \* DailyLimits.check denies an entry
  order     \* the order at the venue: what is left of it, and how it was let in

vars == <<net, killed, halted, limited, order>>

NoOrder == [live |-> FALSE, side |-> "buy", base |-> 0, exit |-> FALSE, shut |-> FALSE]
Orders  == [live: BOOLEAN, side: Sides, base: Nat, exit: BOOLEAN, shut: BOOLEAN]

\* What the venue lets an exit dispose of.
Available == IF Margin THEN {Abs(net)} \cup Amounts ELSE {Abs(net)}

\* execute(), steps 1 to 7.  The predicate is called without the size: it has two parameters.
Execute(side, units, amount, price, step, available) ==
  LET exit == NetExit(side, {net}, None)
      o    == Resolved(units, amount, price, 1)
      feed == [status |-> "connected", latency |-> 0, bid |-> 10000, ask |-> 10001, ref |-> 10000]
      base == IF step = None THEN o.base ELSE Quantized(o.base, step)
  IN /\ ~order.live
     /\ ~killed
     /\ exit \/ ~halted
     /\ Resolves(units, amount, price, 1)
     /\ exit \/ ~limited
     /\ Sane("symbol", o, feed, IF exit THEN available ELSE o.usd, exit)
     /\ step # None => Quantizes(o.base, step)
     /\ order' = [live |-> TRUE, side |-> side, base |-> base, exit |-> exit,
                  shut |-> halted \/ limited]
     /\ UNCHANGED <<net, killed, halted, limited>>

\* The venue fills a part of what is left, or all of it.
Fill(q) ==
  /\ order.live /\ q \in 1..order.base
  /\ net' = net + Signed(order.side, q)
  /\ order' = IF q = order.base THEN NoOrder ELSE [order EXCEPT !.base = @ - q]
  /\ UNCHANGED <<killed, halted, limited>>

\* It is cancelled, with or without fills.
End == order.live /\ order' = NoOrder /\ UNCHANGED <<net, killed, halted, limited>>

\* Humans and the day set and clear the gates.
Gates == /\ killed' \in BOOLEAN /\ halted' \in BOOLEAN /\ limited' \in BOOLEAN
         /\ UNCHANGED <<net, order>>

Init == net = 0 /\ killed = FALSE /\ halted = FALSE /\ limited = FALSE /\ order = NoOrder

Next ==
  \/ \E side \in Sides, units \in Units, amount \in Amounts, price \in Prices, step \in Steps :
       \E available \in Available : Execute(side, units, amount, price, step, available)
  \/ \E q \in Amounts : Fill(q)
  \/ End \/ Gates

Spec == Init /\ [][Next]_vars

-----------------------------------------------------------------------------
(* Properties *)

TypeOK ==
  /\ net \in Int
  /\ {killed, halted, limited} \subseteq BOOLEAN
  /\ order \in Orders

\* docs/SPEC.md on net_position_is_exit(intent, position): "True si |net + delta(intent)| < |net|".
\* An order that was let in as an exit leaves less of a position than there is, however much of it
\* has been filled.  Violated under Margin, where it may leave a larger one on the other side.
ExitsReduce == order.live /\ order.exit => Abs(net + Signed(order.side, order.base)) < Abs(net)

\* While entries are halted or the day's limits are reached, no order that execute() sends makes
\* the position larger.
ShutNeverGrows == [][order.live /\ order.shut => Abs(net') <= Abs(net)]_vars
=============================================================================
