------------------------ MODULE OrderAdmissionProofs ------------------------
(***************************************************************************)
(* Theorems about OrderAdmission, for every amount, price, step and policy *)
(* and a caller who hands over the size of the position as what an exit    *)
(* may dispose of: an order let in as an exit never turns the position     *)
(* over, and behind a closed gate the position only shrinks.               *)
(***************************************************************************)
EXTENDS OrderAdmission, TLAPS

\* What quantize leaves is a whole amount and no more than was asked.
LEMMA QuantizedBounds ==
  ASSUME NEW base \in Nat, NEW step \in Nat \ {0}
  PROVE  Quantized(base, step) \in Int /\ Quantized(base, step) <= base
BY DEF Quantized

\* An exit that disposes of a part of the position, or all of it.
Opposes(o) == IF o.side = "sell" THEN o.base <= net ELSE o.base <= -net

\* The order at the venue is of a positive size; as an exit it is within the position; and
\* behind a closed gate it is an exit.
Within ==
  order.live =>
    /\ order.base > 0
    /\ order.exit => Opposes(order)
    /\ order.shut => order.exit

Inv == TypeOK /\ Within

\* What execute() sends.
LEMMA Sends ==
  ASSUME Parameters, ~Margin, Inv,
         NEW side \in Sides, NEW units \in Units, NEW amount \in Amounts, NEW price \in Prices,
         NEW step \in Steps, NEW available \in Available,
         Execute(side, units, amount, price, step, available)
  PROVE  Inv'
<1> DEFINE exit == NetExit(side, {net}, None)
           o    == Resolved(units, amount, price, 1)
           feed == [status |-> "connected", latency |-> 0, bid |-> 10000, ask |-> 10001, ref |-> 10000]
           base == IF step = None THEN o.base ELSE Quantized(o.base, step)
<1>1. /\ exit \/ ~halted
      /\ exit \/ ~limited
      /\ Sane("symbol", o, feed, IF exit THEN available ELSE o.usd, exit)
      /\ step # None => Quantizes(o.base, step)
      /\ order' = [live |-> TRUE, side |-> side, base |-> base, exit |-> exit,
                   shut |-> halted \/ limited]
      /\ UNCHANGED <<net, killed, halted, limited>>
  BY DEF Execute
<1>2. o.base \in Nat /\ o.base > 0
  <2>1. amount \in Nat /\ price \in Nat \ {0}
    BY DEF Parameters
  <2>2. amount \div price \in Int /\ amount * 1 = amount
    BY <2>1
  <2>3. o.base \in Int
    BY <2>1, <2>2 DEF Resolved, Units
  <2>4. o.base > 0
    BY <1>1 DEF Sane
  <2> QED BY <2>3, <2>4
<1>3. exit => available >= o.base
  BY <1>1 DEF Sane, Covers
<1>4. available = Abs(net) /\ net \in Int
  BY DEF Available, Inv, TypeOK
<1>5. exit \in BOOLEAN /\ (exit => net # 0 /\ (net > 0 <=> side = "sell"))
  BY DEF NetExit
<1> HIDE DEF o, exit
<1>6. base \in Nat /\ 0 < base /\ base <= o.base
  <2>1. CASE step = None
    BY <1>2, <2>1
  <2>2. CASE step # None
    <3>1. step \in Nat \ {0}
      BY <2>2 DEF Parameters, Optional
    <3>2. Quantized(o.base, step) > 0
      BY <1>1, <2>2 DEF Quantizes
    <3> QED BY <1>2, <2>2, <3>1, <3>2, QuantizedBounds
  <2> QED BY <2>1, <2>2
<1> HIDE DEF base
<1>7. order'.live = TRUE /\ order'.side = side /\ order'.base = base /\ order'.exit = exit
      /\ order'.shut = (halted \/ limited) /\ net' = net
  BY <1>1
<1>8. Within'
  <2>1. exit => IF side = "sell" THEN base <= net ELSE base <= -net
    BY <1>2, <1>3, <1>4, <1>5, <1>6 DEF Abs, Sides
  <2>2. (halted \/ limited) => exit
    BY <1>1
  <2> QED BY <1>6, <1>7, <2>1, <2>2 DEF Within, Opposes
<1>9. TypeOK'
  <2>1. order' \in Orders
    <3>1. halted \in BOOLEAN /\ limited \in BOOLEAN
      BY DEF Inv, TypeOK
    <3> QED BY <1>1, <1>5, <1>6, <3>1 DEF Orders
  <2> QED BY <1>1, <1>4, <2>1 DEF Inv, TypeOK
<1> QED BY <1>8, <1>9 DEF Inv

\* A fill takes from the order what it takes from the position.
LEMMA Fills ==
  ASSUME Parameters, Inv, NEW q \in Amounts, Fill(q)
  PROVE  Inv' /\ (order.shut => Abs(net') <= Abs(net))
<1>1. /\ order.live /\ order.base \in Nat /\ order.side \in Sides /\ order.exit \in BOOLEAN /\ net \in Int
      /\ order.shut \in BOOLEAN /\ order \in Orders
  BY DEF Fill, Inv, TypeOK, Orders
<1>2. q \in 1..order.base /\ q \in Nat
  BY DEF Fill, Parameters
<1>3. net' = (IF order.side = "buy" THEN net + q ELSE net - q) /\ net' \in Int
  BY <1>1, <1>2 DEF Fill, Signed
<1>4. UNCHANGED <<killed, halted, limited>>
  BY DEF Fill
<1>5. CASE q = order.base
  <2>1. order' = NoOrder
    BY <1>5 DEF Fill
  <2>2. NoOrder \in Orders /\ ~NoOrder.live
    BY DEF NoOrder, Orders, Sides
  <2>3. Inv'
    BY <1>3, <1>4, <2>1, <2>2 DEF Inv, TypeOK, Within
  <2>4. order.shut => Abs(net') <= Abs(net)
    BY <1>1, <1>2, <1>3 DEF Inv, Within, Opposes, Abs, Sides
  <2> QED BY <2>3, <2>4
<1>6. CASE q # order.base
  <2>1. order' = [order EXCEPT !.base = order.base - q]
    BY <1>6 DEF Fill
  <2>2. order.base - q \in Nat /\ order.base - q > 0
    BY <1>1, <1>2, <1>6
  <2>3. /\ order'.base = order.base - q /\ order'.live /\ order'.side = order.side
        /\ order'.exit = order.exit /\ order'.shut = order.shut /\ order' \in Orders
    BY <1>1, <2>1, <2>2 DEF Orders
  <2>4. order.exit => IF order.side = "sell" THEN order.base - q <= net' ELSE order.base - q <= -net'
    BY <1>1, <1>2, <1>3 DEF Inv, Within, Opposes, Sides
  <2>5. Within'
    BY <1>1, <2>2, <2>3, <2>4 DEF Inv, Within, Opposes
  <2>6. order.shut => Abs(net') <= Abs(net)
    BY <1>1, <1>2, <1>3 DEF Inv, Within, Opposes, Abs, Sides
  <2> QED BY <1>3, <1>4, <2>3, <2>5, <2>6 DEF Inv, TypeOK
<1> QED BY <1>5, <1>6

LEMMA InvStep ==
  ASSUME Parameters, ~Margin, Inv, [Next]_vars
  PROVE  Inv' /\ (order.live /\ order.shut => Abs(net') <= Abs(net))
<1>0. net \in Int /\ Abs(net) <= Abs(net)
  BY DEF Inv, TypeOK, Abs
<1>1. ASSUME NEW side \in Sides, NEW units \in Units, NEW amount \in Amounts, NEW price \in Prices,
             NEW step \in Steps, NEW available \in Available,
             Execute(side, units, amount, price, step, available)
      PROVE  Inv' /\ UNCHANGED net
  <2>1. Inv'
    BY <1>1, Sends
  <2>2. UNCHANGED net
    BY <1>1 DEF Execute
  <2> QED BY <2>1, <2>2
<1>2. ASSUME NEW q \in Amounts, Fill(q)
      PROVE  Inv' /\ (order.shut => Abs(net') <= Abs(net))
  BY <1>2, Fills
<1>3. ASSUME End PROVE Inv' /\ UNCHANGED net
  <2>1. NoOrder \in Orders /\ ~NoOrder.live
    BY DEF NoOrder, Orders, Sides
  <2> QED BY <1>3, <2>1 DEF End, Inv, TypeOK, Within
<1>4. ASSUME Gates PROVE Inv' /\ UNCHANGED net
  BY <1>4 DEF Gates, Inv, TypeOK, Within, Opposes
<1>5. ASSUME UNCHANGED vars PROVE Inv' /\ UNCHANGED net
  BY <1>5 DEF vars, Inv, TypeOK, Within, Opposes
<1> QED BY <1>0, <1>1, <1>2, <1>3, <1>4, <1>5 DEF Next

\* The types, the size of the order, and that behind a closed gate it is an exit.
THEOREM OrdersWithin == Parameters /\ ~Margin /\ Spec => []Inv
<1>1. Init => Inv
  <2>1. NoOrder \in Orders /\ ~NoOrder.live
    BY DEF NoOrder, Orders, Sides
  <2>2. Init => Within
    BY <2>1 DEF Init, Within
  <2>3. Init => TypeOK
    <3>1. 0 \in Int
      OBVIOUS
    <3> QED BY <2>1, <3>1, Zenon DEF Init, TypeOK
  <2> QED BY <2>2, <2>3 DEF Inv
<1>2. Parameters /\ ~Margin /\ Inv /\ [Next]_vars => Inv'
  BY InvStep
<1> SUFFICES ASSUME Parameters, ~Margin PROVE Spec => []Inv
  OBVIOUS
<1>3. Inv /\ [Next]_vars => Inv'
  BY <1>2
<1> QED BY <1>1, <1>3, PTL DEF Spec

\* net_position_is_exit is asked about the side alone.  What makes its answer right for the size
\* too is that the sanity check compares the size of an exit with the size available, when that
\* is the position.
THEOREM ExitsReduceWithoutMargin == Parameters /\ ~Margin /\ Spec => []ExitsReduce
<1>1. Inv => ExitsReduce
  BY DEF Inv, TypeOK, Within, Opposes, ExitsReduce, Orders, Sides, Abs, Signed
<1> SUFFICES ASSUME Parameters, ~Margin PROVE Spec => []ExitsReduce
  OBVIOUS
<1>2. Spec => []Inv
  BY OrdersWithin
<1> QED BY <1>1, <1>2, PTL

\* While entries are halted or the limits of the day are reached, nothing that is sent makes the
\* position larger: the gates of entries (steps 3 and 5) and the size of exits (step 6) together.
THEOREM ShutGatesNeverGrow == Parameters /\ ~Margin /\ Spec => ShutNeverGrows
<1> SUFFICES ASSUME Parameters, ~Margin PROVE Spec => ShutNeverGrows
  OBVIOUS
<1>1. Inv /\ [Next]_vars => [order.live /\ order.shut => Abs(net') <= Abs(net)]_vars
  BY InvStep
<1>2. Spec => []Inv
  BY OrdersWithin
<1> QED BY <1>1, <1>2, PTL DEF Spec, ShutNeverGrows
=============================================================================
