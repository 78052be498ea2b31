------------------------ MODULE HonestExecutorProofs ------------------------
(***************************************************************************)
(* Proofs about HonestExecutor, for every value of its constants.          *)
(***************************************************************************)
EXTENDS HonestExecutor, FiniteSetTheorems, SequenceTheorems, TLAPS

-----------------------------------------------------------------------------
(* Lemmas about the operators *)

\* The largest element of a set of sequence positions exists (Max is a CHOOSE).
LEMMA MaxOfBounded ==
  ASSUME NEW n \in Nat, NEW S \in SUBSET (1..n), S # {}
  PROVE  Max(S) \in S /\ \A x \in S : x <= Max(S)
<1> DEFINE Above(x) == {y \in S : x < y}
           T == {Above(x) : x \in S}
<1>1. IsFiniteSet(1..n) /\ T \subseteq SUBSET (1..n) /\ T # {}
  <2>1. IsFiniteSet(1..n)
    BY FS_Interval
  <2>2. T \subseteq SUBSET (1..n)
    OBVIOUS
  <2>3. PICK s \in S : TRUE
    OBVIOUS
  <2>4. Above(s) \in T
    OBVIOUS
  <2> QED BY <2>1, <2>2, <2>4
<1>2. T \subseteq FiniteSubsetsOf(1..n)
  BY <1>1, FS_FiniteSubsetsOfFinite
<1> HIDE DEF T
<1>3. PICK U \in T : \A V \in T : <<V, U>> \notin StrictSubsetOrdering(1..n)
  BY <1>1, <1>2, FS_StrictSubsetOrderingWellFounded, WFMin
<1>4. PICK m \in S : U = Above(m)
  BY DEF T
<1>5. \A x \in S : x <= m
  <2> SUFFICES ASSUME NEW x \in S, m < x PROVE FALSE
    OBVIOUS
  <2>0. x \in Int /\ m \in Int /\ \A y \in S : y \in Int
    OBVIOUS
  <2>1. /\ \A y \in Above(x) : y \in Above(m)
        /\ x \in Above(m)
        /\ x \notin Above(x)
    BY <2>0
  <2>2. Above(x) \in T
    BY DEF T
  <2>3. <<Above(x), U>> \in StrictSubsetOrdering(1..n)
    BY <2>1, <2>2, <1>1, <1>4 DEF StrictSubsetOrdering
  <2> QED BY <2>2, <2>3, <1>3
<1>6. m \in S /\ \A y \in S : m >= y
  BY <1>5
<1>7. Max(S) \in S /\ \A y \in S : Max(S) >= y
  BY <1>6 DEF Max
<1> QED BY <1>7

\* The newest order of a client id is one of its orders.
LEMMA NewestOrder ==
  ASSUME NEW b \in Seq(Order), NEW c, OrdersOf(b, c) # {}
  PROVE  LET o == Max(OrdersOf(b, c))
         IN  o \in OrdersOf(b, c) /\ o \in DOMAIN b /\ o \in Nat /\ o # 0
<1> DEFINE o == Max(OrdersOf(b, c))
<1>1. Len(b) \in Nat /\ DOMAIN b = 1..Len(b)
  BY LenProperties
<1>2. OrdersOf(b, c) \subseteq 1..Len(b)
  BY <1>1 DEF OrdersOf
<1>3. o \in OrdersOf(b, c)
  BY <1>1, <1>2, MaxOfBounded
<1>4. o \in 1..Len(b)
  BY <1>2, <1>3
<1> QED BY <1>1, <1>3, <1>4

\* Whatever the broker answers about an order it has is a report; a report that would end the
\* order is the truth.
LEMMA AnswersType ==
  ASSUME NEW b \in Seq(Order), NEW o \in DOMAIN b
  PROVE  \A s \in Answers(b, o) :
           /\ s \in Report
           /\ Finished(s) => s = Truth(b, o) /\ b[o].status # "open"
<1>1. b[o] \in Order /\ Requested \in Nat /\ Requested # 0
  BY LenProperties, ExecutorAssumption
<1>2. Truth(b, o) \in Report /\ Truth(b, o).status = b[o].status
  BY <1>1 DEF Truth, Report, Order
<1>3. \A s \in Garbage : s \in Report /\ ~Finished(s)
  BY <1>1 DEF Garbage, Report, Finished, Filled, Unfilled, Sane
<1>4. Finished(Truth(b, o)) => b[o].status # "open"
  BY <1>2 DEF Finished, Filled, Unfilled
<1> QED BY <1>2, <1>3, <1>4 DEF Answers

\* What _rebuild_index derives is an index record, and its order id is 0 or one that an entry
\* of that client id names.
LEMMA RebuiltType ==
  ASSUME NEW led \in Seq(Entry), NEW c
  PROVE  /\ Rebuilt(led, c) \in IndexRec
         /\ Rebuilt(led, c).oid # 0 => \E i \in EntriesOf(led, c) : Rebuilt(led, c).oid = led[i].oid
<1> DEFINE sent  == SentOf(led, c)
           named == {i \in EntriesOf(led, c) : led[i].oid # 0}
<1>1. Len(led) \in Nat /\ DOMAIN led = 1..Len(led) /\ \A i \in DOMAIN led : led[i] \in Entry
  BY LenProperties
<1>2. sent \subseteq 1..Len(led) /\ named \subseteq 1..Len(led)
  BY <1>1 DEF SentOf, EntriesOf
<1>3. sent # {} => Max(sent) \in sent
  BY <1>1, <1>2, MaxOfBounded
<1>4. named # {} => Max(named) \in named
  BY <1>1, <1>2, MaxOfBounded
<1>5. (IF sent = {} THEN "-" ELSE led[Max(sent)].stage) \in Stages \cup {"-"}
  BY <1>1, <1>2, <1>3 DEF Entry
<1>6. (IF named = {} THEN 0 ELSE led[Max(named)].oid) \in Nat
  BY <1>1, <1>2, <1>4 DEF Entry
<1>7. Closed(led, c) \in BOOLEAN
  BY DEF Closed
<1> HIDE DEF sent, named
<1>8. Rebuilt(led, c) = [stage    |-> IF sent = {} THEN "-" ELSE led[Max(sent)].stage,
                         oid      |-> IF named = {} THEN 0 ELSE led[Max(named)].oid,
                         terminal |-> Closed(led, c)]
  BY DEF Rebuilt, sent, named
<1>9. Rebuilt(led, c) \in IndexRec
  BY <1>5, <1>6, <1>7, <1>8 DEF IndexRec
<1>10. named # {} => Max(named) \in EntriesOf(led, c)
  BY <1>4 DEF named
<1> QED BY <1>8, <1>9, <1>10

-----------------------------------------------------------------------------
(* How the book and the ledger may change *)

\* Orders are never forgotten or handed to another client, and a finished order stays as it is.
Extends(b, b2) ==
  /\ b2 \in Seq(Order)
  /\ Len(b) <= Len(b2)
  /\ \A o \in DOMAIN b : /\ b2[o].client = b[o].client
                         /\ b[o].status # "open" => b2[o] = b[o]

\* What an extension keeps: positions, the orders of every client id, the truth about finished orders.
LEMMA ExtendsKeeps ==
  ASSUME NEW b \in Seq(Order), NEW b2, Extends(b, b2)
  PROVE  /\ DOMAIN b \subseteq DOMAIN b2
         /\ \A c : OrdersOf(b, c) \subseteq OrdersOf(b2, c)
         /\ \A o \in DOMAIN b : b[o].status # "open" => Truth(b2, o) = Truth(b, o)
<1>1. DOMAIN b = 1..Len(b) /\ DOMAIN b2 = 1..Len(b2) /\ Len(b) \in Nat /\ Len(b2) \in Nat
  BY LenProperties DEF Extends
<1>2. DOMAIN b \subseteq DOMAIN b2
  BY <1>1 DEF Extends
<1> QED BY <1>2 DEF Extends, OrdersOf, Truth

\* A book extends itself.
LEMMA ExtendsReflexive ==
  ASSUME NEW b \in Seq(Order)
  PROVE  Extends(b, b)
BY LenProperties DEF Extends

\* The books a create_order may leave behind: the same, or one order more, of this client id.
LEMMA SendExtends ==
  ASSUME book \in Seq(Order), NEW c \in Intents, NEW b \in {book} \cup BooksAfterSend(c)
  PROVE  /\ Extends(book, b)
         /\ \A o \in DOMAIN b : o \in DOMAIN book \/ b[o].client = c
         /\ b \in BooksAfterSend(c) => OrdersOf(b, c) # {}
<1>1. CASE b = book /\ (b \in BooksAfterSend(c) => OrdersOf(b, c) # {})
  BY <1>1, ExtendsReflexive
<1>2. ASSUME NEW r \in Order, r.client = c, b = Append(book, r)
      PROVE  Extends(book, b) /\ OrdersOf(b, c) # {} /\ \A o \in DOMAIN b : o \in DOMAIN book \/
         b[o].client = c
  <2>1. /\ b \in Seq(Order) /\ Len(b) = Len(book) + 1 /\ b[Len(book) + 1] = r
        /\ \A i \in 1..Len(book) : b[i] = book[i]
    BY <1>2, AppendProperties
  <2>2. Len(book) \in Nat /\ DOMAIN book = 1..Len(book) /\ DOMAIN b = 1..(Len(book) + 1)
    BY <2>1, LenProperties
  <2>3. Extends(book, b)
    BY <2>1, <2>2 DEF Extends
  <2> DEFINE new == Len(book) + 1
  <2>a. b[new].client = c
    BY <1>2, <2>1
  <2>b. new \in DOMAIN b /\ \A o \in DOMAIN b : o \in DOMAIN book \/ o = new
    BY <2>2
  <2> HIDE DEF new
  <2>4. new \in OrdersOf(b, c)
    BY <2>a, <2>b DEF OrdersOf
  <2>5. \A o \in DOMAIN b : o \in DOMAIN book \/ b[o].client = c
    BY <2>a, <2>b
  <2> QED BY <2>3, <2>4, <2>5
<1>3. /\ [client |-> c, status |-> "open", filled |-> 0] \in Order
      /\ [client |-> c, status |-> "closed", filled |-> Requested] \in Order
  BY ExecutorAssumption DEF Order
<1>4. CASE Dedups /\ OrdersOf(book, c) # {}
  <2>1. BooksAfterSend(c) = {book}
    BY <1>4 DEF BooksAfterSend
  <2> QED BY <1>1, <1>4, <2>1
<1>5. CASE ~(Dedups /\ OrdersOf(book, c) # {})
  <2>1. BooksAfterSend(c) = {Append(book, [client |-> c, status |-> "open", filled |-> 0]),
                             Append(book, [client |-> c, status |-> "closed", filled |-> Requested])}
    BY <1>5 DEF BooksAfterSend
  <2>2. CASE b \in BooksAfterSend(c)
    BY <1>2, <1>3, <2>1, <2>2
  <2>3. CASE b \notin BooksAfterSend(c)
    BY <1>1, <2>3
  <2> QED BY <2>2, <2>3
<1> QED BY <1>4, <1>5

\* A cancel_order extends the book, whether it takes effect or not.
LEMMA CancelExtends ==
  ASSUME book \in Seq(Order), NEW o \in DOMAIN book, NEW b \in BooksAfterCancel(o)
  PROVE  Extends(book, b) /\ DOMAIN b = DOMAIN book
<1>1. CASE b = book
  BY <1>1, ExtendsReflexive
<1>2. CASE book[o].status = "open" /\ b = [book EXCEPT ![o].status = "canceled"]
  <2> DEFINE r == [book[o] EXCEPT !.status = "canceled"]
  <2>1. book[o] \in Order /\ DOMAIN book = 1..Len(book)
    BY LenProperties
  <2>2. r \in Order /\ r.client = book[o].client
    BY <2>1 DEF Order
  <2>3. b = [book EXCEPT ![o] = r]
    BY <1>2
  <2>4. /\ b \in Seq(Order) /\ Len(b) = Len(book)
        /\ \A j \in 1..Len(book) : b[j] = IF j = o THEN r ELSE book[j]
    BY <2>1, <2>2, <2>3, ExceptSeq
  <2> QED BY <1>2, <2>1, <2>2, <2>4, LenProperties DEF Extends
<1> QED BY <1>1, <1>2 DEF BooksAfterCancel

-----------------------------------------------------------------------------
(* The inductive invariant *)

\* FinalEntriesAreTrue alone is not inductive: that an entry is true when it is written rests
\* on the answer in hand (OrdersInHand), and which order is in hand on the order ids of the
\* index, and after a restart of the ledger (OwnOrdersNamed).
IInv == TypeOK /\ OrdersInHand /\ OwnOrdersNamed /\ WriteAheadDurable /\ FinalEntriesAreTrue

\* The order in hand exists and belongs to the intent in hand.
LEMMA OrderInHand ==
  ASSUME OrdersInHand, pc \in HoldsOrder
  PROVE  op.cur \in Intents /\ op.oid \in OrdersOf(book, op.cur) /\ op.oid \in DOMAIN book
<1>1. pc \in HoldsIntent
  BY DEF HoldsIntent
<1>2. op.cur \in Intents /\ op.oid \in OrdersOf(book, op.cur)
  BY <1>1 DEF OrdersInHand
<1> QED BY <1>2 DEF OrdersOf

\* What a step does to the book: it extends it, and only create_order adds an order, which
\* belongs to the intent in hand.
LEMMA BookStep ==
  ASSUME TypeOK, OrdersInHand, [Next]_vars
  PROVE  /\ Extends(book, book')
         /\ \A o \in DOMAIN book' : o \in DOMAIN book \/ (pc = "create" /\ book'[o].client = op.cur)
<1>1. book \in Seq(Order)
  BY DEF TypeOK
<1>2. CASE book' = book
  BY <1>1, <1>2, ExtendsReflexive
<1>3. ASSUME pc = "create", book' \in {book} \cup BooksAfterSend(op.cur)
      PROVE  /\ Extends(book, book')
             /\ \A o \in DOMAIN book' : o \in DOMAIN book \/ (pc = "create" /\ book'[o].client = op.cur)
  <2>1. op.cur \in Intents
    BY <1>3 DEF OrdersInHand, HoldsIntent
  <2> QED BY <1>1, <1>3, <2>1, SendExtends
<1>4. ASSUME NEW o \in DOMAIN book, book' \in BooksAfterCancel(o)
      PROVE  /\ Extends(book, book')
             /\ DOMAIN book' = DOMAIN book
  BY <1>1, <1>4, CancelExtends
<1>5. CASE CreateAcked
  BY <1>3, <1>5 DEF CreateAcked
<1>6. CASE CreateUncertain("maybe_sent") \/ CreateUncertain("raised")
  BY <1>3, <1>6 DEF CreateUncertain
<1>7. CASE Cancel
  <2>1. op.oid \in DOMAIN book
    BY <1>7, OrderInHand DEF Cancel, HoldsOrder
  <2> QED BY <1>4, <1>7, <2>1 DEF Cancel
<1>8. CASE \E o \in run.strays : StrayOrder(o)
  BY <1>4, <1>8 DEF StrayOrder, OrdersInHand
<1>9. ASSUME NEW o \in DOMAIN book, BrokerFill(o) \/ BrokerExpire(o)
      PROVE  Extends(book, book') /\ DOMAIN book' = DOMAIN book
  <2>1. book[o] \in Order /\ DOMAIN book = 1..Len(book) /\ Len(book) \in Nat /\ Requested \in Nat
    BY <1>1, LenProperties, ExecutorAssumption
  <2>2. book[o].status = "open"
    BY <1>9 DEF BrokerFill, BrokerExpire
  <2>3. PICK r \in Order : book' = [book EXCEPT ![o] = r] /\ r.client = book[o].client
    <3>1. CASE BrokerFill(o)
      <4> DEFINE q == book[o].filled + 1
                 r == [book[o] EXCEPT !.filled = q, !.status = IF q = Requested THEN "closed" ELSE "open"]
      <4>1. book' = [book EXCEPT ![o] = r]
        BY <3>1 DEF BrokerFill
      <4>2. q \in 0..Requested
        BY <2>1, <3>1 DEF Order, BrokerFill
      <4>3. r \in Order /\ r.client = book[o].client
        BY <2>1, <4>2 DEF Order
      <4> QED BY <4>1, <4>3
    <3>2. CASE BrokerExpire(o)
      <4> DEFINE r == [book[o] EXCEPT !.status = "canceled"]
      <4>1. book' = [book EXCEPT ![o] = r]
        BY <3>2 DEF BrokerExpire
      <4>2. r \in Order /\ r.client = book[o].client
        BY <2>1 DEF Order
      <4> QED BY <4>1, <4>2
    <3> QED BY <1>9, <3>1, <3>2
  <2>4. /\ book' \in Seq(Order) /\ Len(book') = Len(book)
        /\ \A j \in 1..Len(book) : book'[j] = IF j = o THEN r ELSE book[j]
    BY <1>1, <2>1, <2>3, ExceptSeq
  <2> QED BY <2>1, <2>2, <2>3, <2>4, LenProperties DEF Extends
<1>10. CASE BrokerStep
  BY <1>9, <1>10 DEF BrokerStep
<1>11. ASSUME Next, ~CreateAcked, ~CreateUncertain("maybe_sent"), ~CreateUncertain("raised"), ~Cancel,
              ~(\E o \in run.strays : StrayOrder(o)), ~BrokerStep
       PROVE  book' = book
  <2>1. CASE \/ \E c \in Intents : Admit(c)
             \/ Startup \/ Crash \/ LedgerBreaks \/ ManualHalt \/ ManualClear
    BY <2>1 DEF Admit, Startup, Crash, LedgerBreaks, ManualHalt, ManualClear, HaltFileChanges, Abandon
  <2>2. CASE ExecuteStep
    BY <1>11, <2>2 DEF ExecuteStep, WriteAhead, WriteAheadFails, CreateRejected, SentNoAck,
       LookupFound, LookupNone, LookupUncertain, Ack
  <2>3. CASE SettleStep
    BY <1>11, <2>3 DEF SettleStep, RecordFill, CountFill, CountFillRaises, RecordNoFill, Poll, PollIf,
       Timeout,
       OutsideTheMachine, Reread, RecordUnknown, ReadHalt, HaltOnUnknown
  <2>4. CASE ReconcileStep
    BY <1>11, <2>4 DEF ReconcileStep, ReconcileError, ReconcileNone, ReconcileFound, LeftOpenRaises,
       ScanOpenOrders, StrayRaises, Summary, HaltPolicy, PolicyRaises
  <2>5. CASE \E e \in UnguardedEntries : LedgerRaises(e)
    BY <2>5 DEF LedgerRaises
  <2> QED BY <1>11, <2>1, <2>2, <2>3, <2>4, <2>5 DEF Next, ProcessStep
<1> QED BY <1>2, <1>5, <1>6, <1>7, <1>8, <1>10, <1>11, <1>4 DEF vars

\* What a step may write: an entry that names no order or the order in hand, and a final entry
\* only when the answer in hand is final, with the amount of that answer.
FinalKinds == {"FILL", "PARTIAL_FILL", "NO_FILL_CANCELED"}
Writable(e) ==
  /\ e \in Entry
  /\ e.oid = 0 \/ (e.coid = op.cur /\ e.oid = op.oid)
  /\ e.kind \in FinalKinds =>
       /\ pc = "settle" /\ Finished(op.seen)
       /\ e.coid = op.cur /\ e.oid = op.oid /\ e.filled = op.seen.filled
       /\ e.kind = "FILL" <=> e.filled = Requested
       /\ e.kind = "NO_FILL_CANCELED" <=> e.filled = 0

\* The three stages of ORDER_SENT may be written.
LEMMA SentWritable ==
  ASSUME TypeOK, NEW stage \in Stages, NEW o \in {0, op.oid}
  PROVE  Writable(SentEntry(op.cur, stage, o))
BY ExecutorAssumption DEF TypeOK, Op, Writable, SentEntry, Entry, Kinds, FinalKinds, TERMINAL_KINDS

\* So may an entry that closes an intent without a final amount.
LEMMA CloseWritable ==
  ASSUME TypeOK, NEW kind \in Kinds, kind \notin FinalKinds, NEW c \in Intents \cup {NoIntent},
         NEW o, o = 0 \/ (o = op.oid /\ c = op.cur)
  PROVE  Writable(CloseEntry(kind, c, o, 0))
BY ExecutorAssumption DEF TypeOK, Op, Writable, CloseEntry, Entry

\* _record_fill writes the amount of the answer in hand.
LEMMA FillWritable ==
  ASSUME TypeOK, pc = "settle", Filled(op.seen)
  PROVE  Writable(FillEntry)
<1>1. op.cur \in Intents \cup {NoIntent} /\ op.oid \in Nat
  BY DEF TypeOK, Op
<1>2. op.seen.filled \in 0..Requested /\ op.seen.filled # 0 /\ Requested \in Nat
  BY ExecutorAssumption DEF Filled, Sane
<1>3. Finished(op.seen)
  BY DEF Finished
<1>4. FillKind(op.seen) \in {"FILL", "PARTIAL_FILL"} /\ (FillKind(op.seen) = "FILL" <=> op.seen.filled =
   Requested)
  BY <1>2 DEF FillKind
<1>5. FillEntry \in Entry
  BY <1>1, <1>2, <1>4 DEF FillEntry, CloseEntry, Entry, Kinds, TERMINAL_KINDS
<1> QED BY <1>1, <1>2, <1>3, <1>4, <1>5 DEF Writable, FillEntry, CloseEntry

\* A canceled order without a fill gives NO_FILL_CANCELED.
LEMMA NoFillWritable ==
  ASSUME TypeOK, pc = "settle", Unfilled(op.seen)
  PROVE  Writable(CloseEntry("NO_FILL_CANCELED", op.cur, op.oid, 0))
<1>1. op.cur \in Intents \cup {NoIntent} /\ op.oid \in Nat /\ Requested \in Nat /\ Requested # 0
  BY ExecutorAssumption DEF TypeOK, Op
<1>2. op.seen.filled = 0 /\ Finished(op.seen)
  BY DEF Unfilled, Finished
<1> QED BY <1>1, <1>2 DEF Writable, CloseEntry, Entry, Kinds, TERMINAL_KINDS

\* What a step does to the ledger: nothing, or one entry more.
LEMMA LedgerStep ==
  ASSUME TypeOK, [Next]_vars
  PROVE  ledger' = ledger \/ \E e : Writable(e) /\ ledger' = Append(ledger, e)
<1> DEFINE Goal == ledger' = ledger \/ \E e : Writable(e) /\ ledger' = Append(ledger, e)
<1>1. ASSUME NEW e, Writable(e), ledger' \in {ledger, Append(ledger, e)}
      PROVE  Goal
  BY <1>1
<1> SUFFICES Goal
  OBVIOUS
<1> HIDE DEF Goal
<1>2. op.cur \in Intents \cup {NoIntent}
  BY DEF TypeOK, Op
<1>3. {"INTENT_DENIED", "RECONCILE_REPORT", "UNKNOWN_STATE"} \subseteq Kinds \ FinalKinds
  BY DEF Kinds, TERMINAL_KINDS, FinalKinds
<1>4. {"write_ahead", "sent_no_ack", "acked"} \subseteq Stages
  BY DEF Stages
<1> DEFINE sent(stage, o) == SentEntry(op.cur, stage, o)
           close(kind)    == CloseEntry(kind, op.cur, op.oid, 0)
           denied         == CloseEntry("INTENT_DENIED", op.cur, 0, 0)
<1>a. Writable(sent("write_ahead", 0)) /\ Writable(sent("sent_no_ack", 0)) /\ Writable(sent("acked",
   op.oid))
  BY <1>4, SentWritable
<1>b. Writable(close("UNKNOWN_STATE")) /\ Writable(denied)
  BY <1>2, <1>3, CloseWritable
<1>5. ASSUME NEW c \in run.todo
      PROVE  Writable(CloseEntry("RECONCILE_REPORT", c, 0, 0))
  <2>1. c \in Intents
    BY DEF TypeOK, Run
  <2> QED BY <2>1, <1>3, CloseWritable
<1>c. ASSUME NEW e, Unguarded(e)
      PROVE  Writable(e)
  <2>1. CASE \/ pc \in {"maybe_sent", "raised"} /\ e = SentEntry(op.cur, "sent_no_ack", 0)
             \/ pc = "ack" /\ e = SentEntry(op.cur, "acked", op.oid)
    BY <1>a, <2>1
  <2>2. CASE pc = "settle" /\ Filled(op.seen) /\ e = FillEntry
    BY <2>2, FillWritable
  <2>3. CASE pc = "settle" /\ Unfilled(op.seen) /\ e = CloseEntry("NO_FILL_CANCELED", op.cur, op.oid, 0)
    BY <2>3, NoFillWritable
  <2>4. CASE \E c \in run.todo : e = CloseEntry("RECONCILE_REPORT", c, 0, 0)
    BY <1>5, <2>4
  <2> QED BY <1>c, <2>1, <2>2, <2>3, <2>4 DEF Unguarded
<1>d. ASSUME NEW e, Guarded(e)
      PROVE  Writable(e)
  BY <1>a, <1>b, <1>d DEF Guarded
<1>6. CASE ExecuteStep
  <2>1. CASE WriteAhead \/ WriteAheadFails
    BY <1>1, <1>a, <2>1 DEF WriteAhead, WriteAheadFails, Appends, AppendRaises
  <2>2. CASE SentNoAck
    BY <1>1, <1>a, <2>2 DEF SentNoAck, Appends
  <2>3. CASE Ack
    BY <1>1, <1>a, <2>3 DEF Ack, Appends
  <2>4. CASE CreateRejected \/ LookupNone
    BY <1>1, <1>b, <2>4 DEF CreateRejected, LookupNone, BestEffort, Appends, AppendRaises
  <2>5. CASE \/ CreateAcked \/ CreateUncertain("maybe_sent") \/ CreateUncertain("raised")
             \/ LookupFound \/ LookupUncertain
    BY <2>5 DEF CreateAcked, CreateUncertain, LookupFound, LookupUncertain, durable, Goal
  <2> QED BY <1>6, <2>1, <2>2, <2>3, <2>4, <2>5 DEF ExecuteStep
<1>7. CASE SettleStep
  <2>1. CASE RecordFill
    BY <1>1, <2>1, FillWritable DEF RecordFill, Appends
  <2>2. CASE RecordNoFill
    BY <1>1, <2>2, NoFillWritable DEF RecordNoFill, Appends
  <2>3. CASE RecordUnknown
    BY <1>1, <1>b, <2>3 DEF RecordUnknown, BestEffort, Appends, AppendRaises
  <2>4. CASE \/ CountFill \/ CountFillRaises \/ Poll \/ Timeout \/ OutsideTheMachine \/ Cancel \/ Reread
     \/ ReadHalt \/ HaltOnUnknown
    BY <2>4 DEF CountFill, CountFillRaises, Poll, PollIf, Timeout, OutsideTheMachine, Cancel, Reread,
       ReadHalt, HaltOnUnknown, durable, Goal
  <2> QED BY <1>7, <2>1, <2>2, <2>3, <2>4 DEF SettleStep
<1>8. CASE ReconcileStep
  <2>1. ASSUME NEW c \in run.todo, ReconcileNone(c)
        PROVE  Goal
    BY <1>1, <1>5, <2>1 DEF ReconcileNone, Appends
  <2>2. ASSUME NEW c \in run.todo, ReconcileError(c) \/ ReconcileFound(c) \/ LeftOpenRaises(c)
        PROVE  Goal
    BY <2>2 DEF ReconcileError, ReconcileFound, LeftOpenRaises, OtherAppendRaises, durable, Goal
  <2>3. ASSUME NEW o \in run.strays, StrayOrder(o)
        PROVE  Goal
    BY <2>3 DEF StrayOrder, durable, Goal
  <2>4. CASE ScanOpenOrders \/ StrayRaises \/ Summary \/ HaltPolicy \/ PolicyRaises
    BY <2>4 DEF ScanOpenOrders, StrayRaises, Summary, HaltPolicy, PolicyRaises, OtherAppendRaises,
       durable, Goal
  <2> QED BY <1>8, <2>1, <2>2, <2>3, <2>4 DEF ReconcileStep
<1>9. ASSUME NEW e, LedgerRaises(e)
      PROVE  Goal
  BY <1>1, <1>c, <1>9 DEF LedgerRaises, AppendRaises
<1>10. CASE \/ (\E c \in Intents : Admit(c)) \/ Startup \/ LedgerBreaks \/ ManualHalt \/ ManualClear
            \/ UNCHANGED vars
  BY <1>10 DEF Admit, Startup, LedgerBreaks, ManualHalt, ManualClear, HaltFileChanges, durable, vars, Goal
<1>e. CASE Crash
  <2>1. ledger' = ledger \/ \E e : (Unguarded(e) \/ Guarded(e)) /\ ledger' = Append(ledger, e)
    BY <1>e DEF Crash, CutsLedger
  <2> QED BY <1>1, <1>c, <1>d, <2>1 DEF Goal
<1>11. CASE BrokerStep
  BY <1>11 DEF BrokerStep, BrokerFill, BrokerExpire, durable, Goal
<1>12. CASE ProcessStep
  BY <1>6, <1>7, <1>8, <1>9, <1>12 DEF ProcessStep
<1> QED BY <1>10, <1>e, <1>11, <1>12 DEF Next

\* The ledger only grows.
LEMMA LedgerGrows ==
  ASSUME TypeOK, [Next]_vars
  PROVE  /\ ledger' \in Seq(Entry)
         /\ DOMAIN ledger \subseteq DOMAIN ledger'
         /\ \A i \in DOMAIN ledger : ledger'[i] = ledger[i]
         /\ \A i \in DOMAIN ledger' : i \in DOMAIN ledger \/ Writable(ledger'[i])
<1>1. ledger \in Seq(Entry) /\ DOMAIN ledger = 1..Len(ledger) /\ Len(ledger) \in Nat
  BY LenProperties DEF TypeOK
<1>2. CASE ledger' = ledger
  BY <1>1, <1>2
<1>3. ASSUME NEW e, Writable(e), ledger' = Append(ledger, e)
      PROVE  /\ ledger' \in Seq(Entry)
             /\ DOMAIN ledger \subseteq DOMAIN ledger'
             /\ \A i \in DOMAIN ledger : ledger'[i] = ledger[i]
             /\ \A i \in DOMAIN ledger' : i \in DOMAIN ledger \/ Writable(ledger'[i])
  <2>1. e \in Entry
    BY <1>3 DEF Writable
  <2>2. /\ ledger' \in Seq(Entry) /\ Len(ledger') = Len(ledger) + 1
        /\ \A i \in 1..Len(ledger) : ledger'[i] = ledger[i]
        /\ ledger'[Len(ledger) + 1] = e
    BY <1>1, <1>3, <2>1, AppendProperties
  <2>3. DOMAIN ledger' = 1..(Len(ledger) + 1)
    BY <2>2, LenProperties
  <2>4. \A i \in DOMAIN ledger' : i \in DOMAIN ledger \/ i = Len(ledger) + 1
    BY <1>1, <2>3
  <2>5. \A i \in DOMAIN ledger' : i \in DOMAIN ledger \/ ledger'[i] = e
    BY <2>2, <2>4
  <2>6. DOMAIN ledger \subseteq DOMAIN ledger'
    BY <1>1, <2>3
  <2> QED BY <1>1, <1>3, <2>2, <2>5, <2>6
<1> QED BY <1>2, <1>3, LedgerStep

-----------------------------------------------------------------------------
(* Types *)

\* The history of the crashes has its type.
CrashesType == crashes \in Seq(Nat) /\ Len(crashes) <= MaxCrashes

\* The part of TypeOK that BookStep and LedgerGrows leave.
MemoryType ==
  /\ disk \in Disks /\ halt \in Halts /\ counted \in [Intents -> Nat]
  /\ started \in BOOLEAN /\ index \in [Intents -> IndexRec] /\ pc \in PCs
  /\ op \in Op /\ run \in Run /\ outcome \in [Intents -> Result]
  /\ CrashesType /\ faults \in 0..MaxFaults

\* The empty locals have their types and hold no order.
LEMMA Initials ==
  /\ NoOp \in Op /\ NoOp.cur = NoIntent /\ NoOp.oid = 0 /\ ~Finished(NoOp.seen)
  /\ NoRun \in Run /\ NoRun.strays = {}
  /\ NoRec \in IndexRec /\ NoRec.oid = 0
BY ExecutorAssumption DEF NoOp, Op, NoReport, Report, Modes, NoRun, Run, NoRec, IndexRec,
   Finished, Filled, Unfilled

\* Where the process goes when it is done with an order.
LEMMA ReturnType ==
  ASSUME Return
  PROVE  op' = NoOp /\ pc' \in {"idle", "strays", "reconcile"}
BY DEF Return

\* What execute() answers and what startup() keeps of it have their types.
LEMMA TellType ==
  ASSUME TypeOK, NEW o \in Nat, NEW q \in 0..Requested,
         NEW status \in {"FILLED", "PARTIAL", "NO_FILL_CANCELED", "DENIED", "UNKNOWN"},
         Tell(status, o, q)
  PROVE  outcome' \in [Intents -> Result] /\ run' \in Run /\ run'.strays = run.strays
<1>1. outcome \in [Intents -> Result] /\ run \in Run
  BY DEF TypeOK
<1>2. CASE op.mode = "execute"
  <2> DEFINE r == [outcome[op.cur] EXCEPT !.status = status, !.oid = o, !.filled = q]
  <2>1. outcome' = [outcome EXCEPT ![op.cur] = r] /\ run' = run
    BY <1>2 DEF Tell
  <2>2. op.cur \in Intents => r \in Result
    BY <1>1 DEF Result
  <2> QED BY <1>1, <2>1, <2>2
<1>3. CASE op.mode # "execute"
  <2>1. /\ outcome' = outcome
        /\ run' = [run EXCEPT !.found = TRUE,
                              !.unknown = @ \/ (status = "UNKNOWN" /\ op.mode # "reconcile_cancel")]
    BY <1>3 DEF Tell
  <2> QED BY <1>1, <2>1 DEF Run
<1> QED BY <1>2, <1>3

\* Closing an index record keeps its type; its order id is the old one or the one given.
LEMMA CloseIndexType ==
  ASSUME TypeOK, NEW o \in Nat, CloseIndex(o)
  PROVE  /\ index' \in [Intents -> IndexRec]
         /\ \A c \in Intents : index'[c].oid = index[c].oid \/ (c = op.cur /\ index'[c].oid = o)
<1>1. index \in [Intents -> IndexRec]
  BY DEF TypeOK
<1>2. CASE op.cur = NoIntent
  BY <1>1, <1>2 DEF CloseIndex
<1>3. CASE op.cur # NoIntent
  <2> DEFINE r == [index[op.cur] EXCEPT !.terminal = TRUE, !.oid = IF o = 0 THEN index[op.cur].oid ELSE o]
  <2>1. op.cur \in Intents
    BY <1>3 DEF TypeOK, Op
  <2>2. index' = [index EXCEPT ![op.cur] = r]
    BY <1>3 DEF CloseIndex
  <2>3. r \in IndexRec /\ (r.oid = index[op.cur].oid \/ r.oid = o)
    BY <1>1, <2>1 DEF IndexRec
  <2> QED BY <1>1, <2>1, <2>2, <2>3
<1> QED BY <1>2, <1>3

\* What is decided about the halt, and what its write leaves, is one of the three states.
LEMMA HaltType ==
  ASSUME TypeOK
  PROVE  /\ HaltToSet \in Halts
         /\ HaltWritten(op.next) \subseteq Halts
BY DEF TypeOK, Op, HaltToSet, HaltWritten, Halts

\* What is decided is kept in hand.
LEMMA NextType ==
  ASSUME op \in Op, NEW h \in Halts \cup {"-"}
  PROVE  [op EXCEPT !.next = h] \in Op
BY DEF Op

\* The counter of failed writes stays within its bound, and the ledger file in its states.
LEMMA FaultsType ==
  ASSUME TypeOK
  PROVE  /\ \A e : Appends(e) \/ AppendRaises(e) \/ BestEffort(e) =>
                   faults' \in 0..MaxFaults /\ disk' \in Disks
         /\ OtherAppendRaises => faults' \in 0..MaxFaults /\ disk' \in Disks
         /\ Fault => faults' \in 0..MaxFaults
<1>1. disk \in Disks /\ faults \in 0..MaxFaults /\ MaxFaults \in Nat /\ {"ok", "torn", "frozen"} \subseteq Disks
  BY ExecutorAssumption DEF TypeOK, Disks
<1>2. Fault => faults' \in 0..MaxFaults
  BY <1>1 DEF Fault
<1> QED BY <1>1, <1>2 DEF Appends, AppendRaises, BestEffort, OtherAppendRaises

\* So does giving up: nothing is left in hand.
LEMMA RaiseType ==
  ASSUME TypeOK, Raise
  PROVE  /\ outcome' \in [Intents -> Result]
         /\ op' \in Op /\ op'.cur = NoIntent /\ run' \in Run /\ run'.strays = {}
         /\ pc' = "idle" /\ pc' \in PCs /\ pc' \notin HoldsIntent
<1>1. outcome' \in [Intents -> Result]
  <2>1. CASE op.mode = "execute" /\ op.cur # NoIntent
    <3>1. op.cur \in Intents /\ outcome \in [Intents -> Result]
      BY <2>1 DEF TypeOK, Op
    <3>2. [outcome[op.cur] EXCEPT !.status = "RAISED"] \in Result
      BY <3>1 DEF Result
    <3>3. outcome' = [outcome EXCEPT ![op.cur].status = "RAISED"]
      BY <2>1 DEF Raise
    <3> QED BY <3>1, <3>2, <3>3
  <2>2. CASE ~(op.mode = "execute" /\ op.cur # NoIntent)
    BY <2>2 DEF Raise, TypeOK
  <2> QED BY <2>1, <2>2
<1>2. pc' = "idle" /\ op' = NoOp /\ run' = NoRun
  BY DEF Raise, Abandon, Goto
<1> QED BY <1>1, <1>2, Initials DEF PCs, HoldsIntent, HoldsOrder

\* The statements of execute() keep the types.
LEMMA ExecuteType ==
  ASSUME TypeOK, OrdersInHand, ExecuteStep
  PROVE  MemoryType'
<1> USE DEF MemoryType, TypeOK, CrashesType
<1> DEFINE Id == Intents \cup {NoIntent}
<1>0. /\ op \in Op /\ op.cur \in Id /\ op.oid \in Nat /\ index \in [Intents -> IndexRec]
      /\ pc \in HoldsIntent => op.cur \in Intents
      /\ Requested \in Nat /\ 0 \in 0..Requested
  BY ExecutorAssumption DEF Op, OrdersInHand
<1>1. /\ "manual" \in Halts
      /\ \A e : Appends(e) \/ AppendRaises(e) \/ BestEffort(e) =>
               faults' \in 0..MaxFaults /\ disk' \in Disks
  BY FaultsType DEF Halts
<1>2. ASSUME NEW b \in Seq(Order), NEW c, OrdersOf(b, c) # {}, NEW s \in Answers(b, Max(OrdersOf(b, c)))
      PROVE  [op EXCEPT !.oid = Max(OrdersOf(b, c)), !.seen = s] \in Op
  <2>1. Max(OrdersOf(b, c)) \in DOMAIN b /\ Max(OrdersOf(b, c)) \in Nat
    BY <1>2, NewestOrder
  <2>2. s \in Report
    BY <2>1, <1>2, AnswersType
  <2> QED BY <1>0, <2>1, <2>2 DEF Op
<1>3. CASE WriteAhead
  <2>1. [stage |-> "write_ahead", oid |-> 0, terminal |-> FALSE] \in IndexRec
    BY DEF IndexRec, Stages
  <2>2. index' \in [Intents -> IndexRec]
    BY <1>0, <1>3, <2>1 DEF WriteAhead
  <2> QED BY <1>1, <1>3, <2>2 DEF WriteAhead, Goto, PCs
<1>4. CASE WriteAheadFails
  <2>1. outcome' \in [Intents -> Result] /\ run' \in Run
    BY <1>0, <1>4, TellType DEF WriteAheadFails
  <2> QED BY <1>1, <1>4, <2>1, ReturnType, Initials DEF WriteAheadFails, PCs
<1>5. CASE CreateAcked
  <2>1. PICK b \in BooksAfterSend(op.cur) : \E s \in Answers(b, Max(OrdersOf(b, op.cur))) :
          op' = [op EXCEPT !.oid = Max(OrdersOf(b, op.cur)), !.seen = s]
    BY <1>5 DEF CreateAcked
  <2>2. op.cur \in Intents
    BY <1>0, <1>5 DEF CreateAcked, HoldsIntent
  <2>3. b \in Seq(Order) /\ OrdersOf(b, op.cur) # {}
    BY <2>2, SendExtends DEF Extends
  <2>4. PICK s \in Answers(b, Max(OrdersOf(b, op.cur))) :
          op' = [op EXCEPT !.oid = Max(OrdersOf(b, op.cur)), !.seen = s]
    BY <2>1
  <2>5. [op EXCEPT !.oid = Max(OrdersOf(b, op.cur)), !.seen = s] \in Op
    BY <1>2, <2>3
  <2>6. op' \in Op
    BY <2>4, <2>5
  <2> QED BY <1>5, <2>6 DEF CreateAcked, Goto, PCs, durable
<1>6. CASE CreateRejected
  <2>1. outcome' \in [Intents -> Result] /\ run' \in Run
    BY <1>0, <1>6, TellType DEF CreateRejected
  <2>2. index' \in [Intents -> IndexRec]
    BY <1>6, CloseIndexType DEF CreateRejected
  <2> QED BY <1>1, <1>6, <2>1, <2>2, ReturnType, Initials DEF CreateRejected, PCs
<1>7. CASE CreateUncertain("maybe_sent") \/ CreateUncertain("raised")
  BY <1>7 DEF CreateUncertain, Goto, PCs, durable
<1>8. CASE SentNoAck
  <2>1. index' \in [Intents -> IndexRec]
    BY <1>0, <1>8 DEF SentNoAck, IndexRec, Stages
  <2> QED BY <1>1, <1>8, <2>1 DEF SentNoAck, Goto, PCs
<1>9. CASE LookupFound
  <2>1. PICK s \in Answers(book, Max(OrdersOf(book, op.cur))) :
          op' = [op EXCEPT !.oid = Max(OrdersOf(book, op.cur)), !.seen = s]
    BY <1>9 DEF LookupFound
  <2>a. OrdersOf(book, op.cur) # {}
    BY <1>9 DEF LookupFound
  <2>b. [op EXCEPT !.oid = Max(OrdersOf(book, op.cur)), !.seen = s] \in Op
    BY <1>2, <2>a
  <2>2. op' \in Op
    BY <2>1, <2>b
  <2> QED BY <1>9, <2>2 DEF LookupFound, Goto, PCs, durable
<1>10. CASE LookupNone
  <2>1. outcome' \in [Intents -> Result] /\ run' \in Run
    BY <1>0, <1>10, TellType DEF LookupNone
  <2>2. index' \in [Intents -> IndexRec]
    BY <1>10, CloseIndexType DEF LookupNone
  <2> QED BY <1>1, <1>10, <2>1, <2>2, ReturnType, Initials DEF LookupNone, PCs
<1>11. CASE LookupUncertain
  BY <1>11 DEF LookupUncertain, Goto, PCs, durable
<1>12. CASE Ack
  <2>1. index' \in [Intents -> IndexRec]
    BY <1>0, <1>12 DEF Ack, IndexRec, Stages
  <2> QED BY <1>1, <1>12, <2>1 DEF Ack, Goto, PCs
<1> QED BY <1>3, <1>4, <1>5, <1>6, <1>7, <1>8, <1>9, <1>10, <1>11, <1>12 DEF ExecuteStep

\* So do _settle, _finalize_if_terminal, _record_fill and _unknown.
LEMMA SettleType ==
  ASSUME TypeOK, OrdersInHand, SettleStep
  PROVE  MemoryType'
<1> USE DEF MemoryType, TypeOK, CrashesType
<1>0. /\ op \in Op /\ op.oid \in Nat /\ index \in [Intents -> IndexRec]
      /\ Requested \in Nat /\ 0 \in 0..Requested
  BY ExecutorAssumption DEF Op
<1>1. /\ HaltToSet \in Halts /\ "manual" \in Halts
      /\ HaltWritten(op.next) \subseteq Halts
      /\ \A e : Appends(e) \/ AppendRaises(e) \/ BestEffort(e) =>
               faults' \in 0..MaxFaults /\ disk' \in Disks
      /\ Fault => faults' \in 0..MaxFaults
  BY HaltType, FaultsType DEF Halts
<1>2. \A s \in Answers(book, op.oid) : pc \in HoldsOrder => s \in Report
  BY OrderInHand, AnswersType
<1>3. CASE RecordFill
  <2>1. index' \in [Intents -> IndexRec]
    BY <1>0, <1>3, CloseIndexType DEF RecordFill
  <2> QED BY <1>1, <1>3, <2>1 DEF RecordFill, Goto, PCs
<1>4. CASE CountFill
  <2>1. op.seen.filled \in 0..Requested /\ op.seen.filled \in Nat
    BY <1>0, <1>4 DEF CountFill, OrdersInHand, Filled, Sane
  <2>2. outcome' \in [Intents -> Result] /\ run' \in Run
    <3>1. CASE op.seen.filled < Requested
      BY <1>0, <1>4, <2>1, <3>1, TellType DEF CountFill
    <3>2. CASE ~(op.seen.filled < Requested)
      BY <1>0, <1>4, <2>1, <3>2, TellType DEF CountFill
    <3> QED BY <3>1, <3>2
  <2>3. counted' \in [Intents -> Nat]
    <3>1. op.cur \in Intents
      BY <1>4, OrderInHand DEF CountFill, HoldsOrder
    <3>2. counted' = counted \/ counted' = [counted EXCEPT ![op.cur] = @ + op.seen.filled]
      BY <1>4 DEF CountFill
    <3>3. counted \in [Intents -> Nat] /\ counted[op.cur] + op.seen.filled \in Nat
      BY <2>1, <3>1
    <3> QED BY <3>1, <3>2, <3>3
  <2>4. halt' \in Halts /\ faults' \in 0..MaxFaults
    BY <1>1, <1>4 DEF CountFill
  <2> QED BY <1>4, <2>2, <2>3, <2>4, ReturnType, Initials DEF CountFill, PCs
<1>a. CASE CountFillRaises
  BY <1>1, <1>a, RaiseType DEF CountFillRaises, durable
<1>5. CASE RecordNoFill
  <2>1. outcome' \in [Intents -> Result] /\ run' \in Run
    BY <1>0, <1>5, TellType DEF RecordNoFill
  <2>2. index' \in [Intents -> IndexRec]
    BY <1>5, CloseIndexType DEF RecordNoFill
  <2> QED BY <1>1, <1>5, <2>1, <2>2, ReturnType, Initials DEF RecordNoFill, PCs
<1>6. CASE Poll
  <2>1. op' \in Op
    <3>1. CASE UNCHANGED op
      BY <3>1
    <3>2. ASSUME NEW s \in Answers(book, op.oid), op' = [op EXCEPT !.seen = s, !.polls = op.polls + 1]
          PROVE  op' \in Op
      <4>1. s \in Report
        BY <1>2, <1>6 DEF Poll, PollIf, HoldsOrder
      <4>2. op.polls + 1 \in 0..MaxPolls
        <5>1. MaxPolls \in Nat /\ op.polls \in 0..MaxPolls
          BY <1>0, ExecutorAssumption DEF Op
        <5>2. op.polls < MaxPolls
          BY <1>6 DEF Poll, PollIf
        <5> QED BY <5>1, <5>2
      <4> QED BY <1>0, <3>2, <4>1, <4>2 DEF Op
    <3> QED BY <1>6, <3>1, <3>2 DEF Poll, PollIf
  <2> QED BY <1>6, <2>1 DEF Poll, PollIf, Goto, PCs, durable
<1>7. CASE Timeout \/ OutsideTheMachine \/ Cancel
  BY <1>7 DEF Timeout, OutsideTheMachine, Cancel, Goto, PCs, durable
<1>8. CASE Reread
  <2>1. op' \in Op
    <3>1. CASE UNCHANGED op
      BY <3>1
    <3>2. ASSUME NEW s \in Answers(book, op.oid), NEW m \in Modes, op' = [op EXCEPT !.seen = s, !.mode = m]
          PROVE  op' \in Op
      <4>1. s \in Report
        BY <1>2, <1>8 DEF Reread, HoldsOrder
      <4> QED BY <1>0, <3>2, <4>1 DEF Op
    <3>3. op.mode \in Modes /\ "reconcile_cancel" \in Modes
      BY <1>0 DEF Op, Modes
    <3> QED BY <1>8, <3>1, <3>2, <3>3 DEF Reread
  <2> QED BY <1>8, <2>1 DEF Reread, Goto, PCs, durable
<1>9. CASE RecordUnknown
  BY <1>1, <1>9 DEF RecordUnknown, Goto, PCs
<1>b. CASE ReadHalt
  <2>1. op' \in Op
    BY <1>0, <1>1, <1>b, NextType DEF ReadHalt
  <2> QED BY <1>b, <2>1 DEF ReadHalt, Goto, PCs, durable
<1>10. CASE HaltOnUnknown
  <2>1. outcome' \in [Intents -> Result] /\ run' \in Run
    BY <1>0, <1>10, TellType DEF HaltOnUnknown
  <2>2. index' \in [Intents -> IndexRec]
    BY <1>0, <1>10, CloseIndexType DEF HaltOnUnknown
  <2>3. halt' \in Halts /\ faults' \in 0..MaxFaults
    BY <1>1, <1>10 DEF HaltOnUnknown
  <2> QED BY <1>10, <2>1, <2>2, <2>3, ReturnType, Initials DEF HaltOnUnknown, PCs
<1> QED BY <1>3, <1>4, <1>a, <1>5, <1>6, <1>7, <1>8, <1>9, <1>b, <1>10 DEF SettleStep

\* What the reconciliation looks up for an intent is one of its orders.
LEMMA FindableOwn ==
  ASSUME TypeOK, OwnOrdersNamed, NEW c \in Intents, NEW o \in Findable(c)
  PROVE  o \in OrdersOf(book, c) /\ o \in DOMAIN book /\ o \in Nat /\ o # 0
<1>1. book \in Seq(Order) /\ DOMAIN book = 1..Len(book) /\ Len(book) \in Nat
  BY LenProperties DEF TypeOK
<1>2. CASE OrdersOf(book, c) # {} /\ o = Max(OrdersOf(book, c))
  BY <1>1, <1>2, NewestOrder
<1>3. CASE o = index[c].oid /\ o # 0
  <2>1. o \in OrdersOf(book, c)
    BY <1>3 DEF OwnOrdersNamed
  <2>2. o \in DOMAIN book
    BY <2>1 DEF OrdersOf
  <2> QED BY <1>1, <1>3, <2>1, <2>2
<1> QED BY <1>2, <1>3 DEF Findable

\* So does startup().
LEMMA ReconcileType ==
  ASSUME TypeOK, OrdersInHand, OwnOrdersNamed, ReconcileStep
  PROVE  MemoryType'
<1> USE DEF MemoryType, TypeOK, CrashesType
<1>0. /\ run \in Run /\ run.todo \subseteq Intents /\ run.strays \subseteq Nat
      /\ index \in [Intents -> IndexRec] /\ book \in Seq(Order)
      /\ MaxPolls \in Nat
  BY ExecutorAssumption DEF Run
<1>1. /\ HaltToSet \in Halts /\ {"none", "manual"} \subseteq Halts
      /\ HaltWritten(op.next) \subseteq Halts
      /\ \A e : Appends(e) => faults' \in 0..MaxFaults /\ disk' \in Disks
      /\ OtherAppendRaises => faults' \in 0..MaxFaults /\ disk' \in Disks
      /\ Fault => faults' \in 0..MaxFaults
  BY HaltType, FaultsType DEF Halts
<1>2. ASSUME NEW c \in run.todo
      PROVE  [run EXCEPT !.todo = @ \ {c}, !.found = TRUE] \in Run
  BY <1>0 DEF Run
<1>3. ASSUME NEW c \in Intents \cup {NoIntent}, NEW o \in Nat, NEW s \in Report, NEW m \in {"startup",
   "stray"}
      PROVE  /\ [NoOp EXCEPT !.cur = c, !.oid = o, !.seen = s, !.mode = m] \in Op
             /\ [NoOp EXCEPT !.cur = c, !.oid = o, !.mode = m] \in Op
             /\ [NoOp EXCEPT !.oid = o, !.mode = m] \in Op
  <2>1. NoOp \in Op /\ m \in Modes
    BY Initials DEF Modes
  <2> QED BY <2>1 DEF Op
<1>4. ASSUME NEW c \in run.todo, ReconcileError(c)
      PROVE  MemoryType'
  <2>1. op' = [NoOp EXCEPT !.cur = c, !.oid = index[c].oid, !.mode = "startup"]
    BY <1>4 DEF ReconcileError
  <2>2. c \in Intents /\ index[c].oid \in Nat
    BY <1>0 DEF IndexRec
  <2>3. NoReport \in Report
    BY DEF NoReport, Report
  <2>4. op' \in Op
    BY <1>3, <2>1, <2>2, <2>3
  <2> QED BY <1>2, <1>4, <2>4 DEF ReconcileError, Goto, PCs, durable
<1>5. ASSUME NEW c \in run.todo, ReconcileNone(c)
      PROVE  MemoryType'
  <2>1. index' \in [Intents -> IndexRec]
    BY <1>0, <1>5 DEF ReconcileNone, IndexRec
  <2> QED BY <1>1, <1>2, <1>5, <2>1 DEF ReconcileNone
<1>6. ASSUME NEW c \in run.todo, ReconcileFound(c)
      PROVE  MemoryType'
  <2>a. PICK o \in Findable(c) : \E s \in Answers(book, o) :
          /\ index' = [index EXCEPT ![c].oid = o]
          /\ \/ UNCHANGED <<pc, op>>
             \/ /\ op' = [NoOp EXCEPT !.cur = c, !.oid = o, !.seen = s, !.mode = "startup"]
                /\ Goto(IF s.status = "open" THEN "cancel" ELSE "settle")
    BY <1>6 DEF ReconcileFound
  <2>1. PICK s \in Answers(book, o) :
          /\ index' = [index EXCEPT ![c].oid = o]
          /\ \/ UNCHANGED <<pc, op>>
             \/ /\ op' = [NoOp EXCEPT !.cur = c, !.oid = o, !.seen = s, !.mode = "startup"]
                /\ Goto(IF s.status = "open" THEN "cancel" ELSE "settle")
    BY <2>a
  <2>2. c \in Intents /\ o \in OrdersOf(book, c) /\ o \in DOMAIN book /\ o \in Nat
    BY <1>0, FindableOwn
  <2>3. s \in Report
    BY <1>0, <2>2, AnswersType
  <2>b. [NoOp EXCEPT !.cur = c, !.oid = o, !.seen = s, !.mode = "startup"] \in Op
    BY <1>3, <2>2, <2>3
  <2>4. op' \in Op
    BY <2>1, <2>b
  <2>5. index' \in [Intents -> IndexRec]
    BY <1>0, <2>1, <2>2 DEF IndexRec
  <2>6. pc' \in PCs
    BY <2>1 DEF Goto, PCs
  <2>7. run' \in Run
    BY <1>2, <1>6 DEF ReconcileFound
  <2> QED BY <1>6, <2>4, <2>5, <2>6, <2>7 DEF ReconcileFound, durable
<1>a. ASSUME NEW c \in run.todo, LeftOpenRaises(c)
      PROVE  MemoryType'
  <2>1. PICK o \in Findable(c) : index' = [index EXCEPT ![c].oid = o]
    BY <1>a DEF LeftOpenRaises
  <2>2. o \in Nat
    BY <1>0, FindableOwn
  <2>3. index' \in [Intents -> IndexRec]
    BY <1>0, <2>1, <2>2 DEF IndexRec
  <2> QED BY <1>1, <1>a, <2>3, Initials DEF LeftOpenRaises, Abandon, Goto, PCs, durable
<1>7. CASE ScanOpenOrders
  <2>1. OpenOrders \subseteq Nat
    BY <1>0, LenProperties DEF OpenOrders
  <2>2. run' \in Run
    BY <1>0, <1>7, <2>1 DEF ScanOpenOrders, Run
  <2> QED BY <1>7, <2>2 DEF ScanOpenOrders, Goto, PCs, durable
<1>8. ASSUME NEW o \in run.strays, StrayOrder(o)
      PROVE  MemoryType'
  <2>1. o \in Nat /\ NoReport \in Report /\ NoIntent \in Intents \cup {NoIntent}
    BY <1>0 DEF NoReport, Report
  <2>2. op' \in Op
    BY <1>3, <1>8, <2>1 DEF StrayOrder
  <2>3. run' \in Run
    BY <1>0, <1>8 DEF StrayOrder, Run
  <2> QED BY <1>8, <2>2, <2>3 DEF StrayOrder, Goto, PCs, durable
<1>b. CASE StrayRaises
  BY <1>b, Initials DEF StrayRaises, Abandon, Goto, PCs, durable
<1>c. CASE Summary
  <2>1. op' \in Op
    BY <1>1, <1>c, NextType DEF Summary
  <2> QED BY <1>c, <2>1 DEF Summary, Goto, PCs, durable
<1>9. CASE HaltPolicy
  BY <1>1, <1>9, Initials DEF HaltPolicy, Goto, PCs
<1>10. CASE PolicyRaises
  BY <1>1, <1>10, Initials DEF PolicyRaises, Abandon, Goto, PCs, durable
<1> QED BY <1>4, <1>5, <1>6, <1>a, <1>7, <1>8, <1>b, <1>c, <1>9, <1>10 DEF ReconcileStep

\* Everything else: the gates, startup() reading the ledger, exceptions, crashes, the broker.
LEMMA OtherType ==
  ASSUME TypeOK,
         \/ \E c \in Intents : Admit(c)
         \/ Startup \/ BrokerStep \/ Crash \/ LedgerBreaks \/ ManualHalt \/ ManualClear
         \/ UNCHANGED vars
         \/ \E e \in UnguardedEntries : LedgerRaises(e)
  PROVE  MemoryType'
<1> USE DEF MemoryType, TypeOK, CrashesType
<1>1. ASSUME NEW c \in Intents, Admit(c)
      PROVE  MemoryType'
  <2>1. [NoOp EXCEPT !.cur = c] \in Op
    BY Initials DEF Op
  <2>2. [status |-> "NONE", oid |-> 0, filled |-> 0, after |-> Len(book)] \in Result
    BY LenProperties, ExecutorAssumption DEF Result
  <2>3. outcome' \in [Intents -> Result]
    BY <1>1, <2>2 DEF Admit
  <2> QED BY <1>1, <2>1, <2>3 DEF Admit, Goto, PCs, durable
<1>2. CASE Startup
  <2>1. index' \in [Intents -> IndexRec]
    BY <1>2, RebuiltType DEF Startup
  <2>2. Pending(index') \subseteq Intents
    BY DEF Pending
  <2>3. run' \in Run
    <3>1. [NoRun EXCEPT !.todo = Pending(index')] \in Run
      BY <2>2 DEF NoRun, Run
    <3> QED BY <1>2, <3>1 DEF Startup
  <2> QED BY <1>2, <2>1, <2>3 DEF Startup, Goto, PCs, durable
<1>3. CASE BrokerStep
  BY <1>3 DEF BrokerStep, BrokerFill, BrokerExpire, durable
<1>4. CASE Crash
  <2>1. crashes' \in Seq(Nat) /\ Len(crashes') <= MaxCrashes
    <3>1. Len(ledger) \in Nat /\ Len(crashes) \in Nat /\ MaxCrashes \in Nat
      BY LenProperties, ExecutorAssumption
    <3>2. crashes' = Append(crashes, Len(ledger)) /\ Len(crashes) < MaxCrashes
      BY <1>4 DEF Crash
    <3>3. crashes' \in Seq(Nat) /\ Len(crashes') = Len(crashes) + 1
      BY <3>1, <3>2, AppendProperties
    <3> QED BY <3>1, <3>2, <3>3
  <2>2. disk' \in Disks
    BY <1>4 DEF Crash, CutsLedger, Disks
  <2>3. /\ pc' = "idle" /\ op' = NoOp /\ run' = NoRun /\ started' = FALSE
        /\ index' = [c \in Intents |-> NoRec]
        /\ UNCHANGED <<halt, counted, outcome, faults>>
    BY <1>4 DEF Crash, Abandon, Goto
  <2> QED BY <2>1, <2>2, <2>3, Initials DEF PCs
<1>5. CASE ManualHalt \/ ManualClear
  BY <1>5 DEF ManualHalt, ManualClear, HaltFileChanges, Halts
<1>8. CASE LedgerBreaks
  <2>1. faults' \in 0..MaxFaults /\ disk' \in Disks
    BY <1>8, FaultsType DEF LedgerBreaks, Disks
  <2> QED BY <1>8, <2>1 DEF LedgerBreaks
<1>6. ASSUME NEW e, LedgerRaises(e)
      PROVE  MemoryType'
  <2>1. faults' \in 0..MaxFaults /\ disk' \in Disks
    BY <1>6, FaultsType DEF LedgerRaises
  <2> QED BY <1>6, <2>1, RaiseType DEF LedgerRaises
<1>7. CASE UNCHANGED vars
  BY <1>7 DEF vars, durable
<1> QED BY <1>1, <1>2, <1>3, <1>4, <1>5, <1>6, <1>7, <1>8

\* Every step keeps every type.
LEMMA TypeStep ==
  ASSUME IInv, [Next]_vars
  PROVE  TypeOK'
<1>1. TypeOK /\ OrdersInHand /\ OwnOrdersNamed
  BY DEF IInv
<1>2. ledger' \in Seq(Entry) /\ book' \in Seq(Order)
  BY <1>1, LedgerGrows, BookStep DEF Extends
<1>3. MemoryType'
  BY <1>1, ExecuteType, SettleType, ReconcileType, OtherType DEF Next, ProcessStep
<1> QED BY <1>2, <1>3 DEF TypeOK, MemoryType, CrashesType

-----------------------------------------------------------------------------
(* The order in hand *)

\* Statements that hand the order over as it is.
HandsOn == {<<"admitted", "create">>, <<"create", "maybe_sent">>, <<"create", "raised">>,
            <<"maybe_sent", "lookup_maybe">>, <<"raised", "lookup_raised">>, <<"ack", "settle">>,
            <<"settle", "cancel">>, <<"cancel", "reread">>}

\* A step that keeps the order in hand keeps OrdersInHand, if the next statement needs nothing
\* of it that the last one did not.
LEMMA HandKept ==
  ASSUME TypeOK, OrdersInHand, Extends(book, book'), op' = op, run'.strays \subseteq DOMAIN book,
         \/ pc' = pc \/ pc' \notin HoldsIntent \/ <<pc, pc'>> \in HandsOn
         \/ pc = "settle" /\ pc' = "count" /\ Filled(op.seen)
  PROVE  OrdersInHand'
<1>1. DOMAIN book \subseteq DOMAIN book' /\ OrdersOf(book, op.cur) \subseteq OrdersOf(book', op.cur)
  BY ExtendsKeeps DEF TypeOK
<1>2. /\ pc' \in HoldsIntent => pc \in HoldsIntent
      /\ pc' \in HoldsOrder => pc \in HoldsOrder
      /\ pc' \in {"ack", "settle", "count"} => pc \in {"ack", "settle", "count"}
      /\ pc' = "count" => Filled(op.seen)
  BY DEF HandsOn, HoldsIntent, HoldsOrder, OrdersInHand
<1>3. ASSUME pc' \in {"ack", "settle", "count"}, Finished(op.seen)
      PROVE  op.seen = Truth(book', op.oid)
  <2>1. op.seen = Truth(book, op.oid) /\ pc \in HoldsOrder
    BY <1>2, <1>3 DEF OrdersInHand, HoldsOrder
  <2>2. op.oid \in DOMAIN book
    BY <2>1, OrderInHand
  <2>3. op.seen.status # "open"
    BY <1>3 DEF Finished, Filled, Unfilled
  <2>4. book[op.oid].status # "open"
    BY <2>1, <2>3 DEF Truth
  <2> QED BY <2>1, <2>2, <2>4, ExtendsKeeps DEF TypeOK
<1> QED BY <1>1, <1>2, <1>3 DEF OrdersInHand

\* The process turns to another order, or reads one again.
LEMMA HandNew ==
  ASSUME TypeOK, OrdersInHand, Extends(book, book'), run'.strays \subseteq DOMAIN book,
         NEW o \in OrdersOf(book', op'.cur), o # 0, NEW s \in Answers(book', o),
         book' \in Seq(Order), op'.oid = o, op'.seen = s, op'.cur \in Intents, pc' # "count"
  PROVE  OrdersInHand'
<1>1. o \in DOMAIN book'
  BY DEF OrdersOf
<1>2. Finished(s) => s = Truth(book', o)
  BY <1>1, AnswersType
<1>3. DOMAIN book \subseteq DOMAIN book'
  BY ExtendsKeeps DEF TypeOK
<1> QED BY <1>2, <1>3 DEF OrdersInHand

\* The process lets go of the order.
LEMMA HandEmpty ==
  ASSUME TypeOK, Extends(book, book'), run'.strays \subseteq DOMAIN book,
         op'.cur = NoIntent, pc' \notin HoldsIntent
  PROVE  OrdersInHand'
<1>1. DOMAIN book \subseteq DOMAIN book'
  BY ExtendsKeeps DEF TypeOK
<1>2. pc' \notin HoldsOrder /\ pc' \notin {"ack", "settle", "count"}
  BY DEF HoldsIntent, HoldsOrder
<1> QED BY <1>1, <1>2, ExecutorAssumption DEF OrdersInHand

\* Returning lets go of the order.
LEMMA ReturnHand ==
  ASSUME TypeOK, Extends(book, book'), run'.strays \subseteq DOMAIN book, Return
  PROVE  OrdersInHand'
<1>1. op'.cur = NoIntent /\ pc' \notin HoldsIntent
  BY ReturnType, Initials DEF HoldsIntent, HoldsOrder
<1> QED BY <1>1, HandEmpty

\* The statements of execute() keep OrdersInHand.
LEMMA ExecuteHand ==
  ASSUME TypeOK, OrdersInHand, Extends(book, book'), ExecuteStep
  PROVE  OrdersInHand'
<1>0. run.strays \subseteq DOMAIN book /\ (pc \in HoldsIntent => op.cur \in Intents)
  BY DEF OrdersInHand
<1>1. ASSUME NEW o \in Nat, NEW q \in 0..Requested, Tell("DENIED", o, q)
      PROVE  run'.strays \subseteq DOMAIN book
  BY <1>0, <1>1, TellType
<1>2. CASE \/ WriteAhead \/ CreateUncertain("maybe_sent") \/ CreateUncertain("raised")
           \/ SentNoAck \/ LookupUncertain \/ Ack
  <2>1. op' = op /\ run' = run
    BY <1>2 DEF WriteAhead, CreateUncertain, SentNoAck, LookupUncertain, Ack
  <2>2. <<pc, pc'>> \in HandsOn \/ pc' \notin HoldsIntent
    BY <1>2 DEF WriteAhead, CreateUncertain, SentNoAck, LookupUncertain, Ack, Goto, HandsOn,
       HoldsIntent, HoldsOrder
  <2> QED BY <1>0, <2>1, <2>2, HandKept
<1>3. CASE WriteAheadFails \/ CreateRejected \/ LookupNone
  <2>1. Tell("DENIED", 0, 0) /\ Return
    BY <1>3 DEF WriteAheadFails, CreateRejected, LookupNone
  <2>2. 0 \in 0..Requested
    BY ExecutorAssumption
  <2> QED BY <1>1, <2>1, <2>2, ReturnHand
<1>4. CASE CreateAcked
  <2>1. PICK b \in BooksAfterSend(op.cur) :
          /\ book' = b
          /\ \E s \in Answers(b, Max(OrdersOf(b, op.cur))) :
               op' = [op EXCEPT !.oid = Max(OrdersOf(b, op.cur)), !.seen = s]
    BY <1>4 DEF CreateAcked
  <2>2. PICK s \in Answers(b, Max(OrdersOf(b, op.cur))) :
          op' = [op EXCEPT !.oid = Max(OrdersOf(b, op.cur)), !.seen = s]
    BY <2>1
  <2>3. op.cur \in Intents /\ book \in Seq(Order)
    BY <1>0, <1>4 DEF CreateAcked, HoldsIntent, TypeOK
  <2>4. b \in Seq(Order) /\ OrdersOf(b, op.cur) # {}
    BY <2>3, SendExtends DEF Extends
  <2> DEFINE o == Max(OrdersOf(b, op.cur))
  <2>5. o \in OrdersOf(b, op.cur) /\ o # 0
    BY <2>4, NewestOrder
  <2>6. op'.cur = op.cur /\ op'.oid = o /\ op'.seen = s
    BY <2>2 DEF TypeOK, Op
  <2>7. pc' = "ack" /\ run' = run
    BY <1>4 DEF CreateAcked, Goto
  <2> HIDE DEF o
  <2>8. s \in Answers(book', o) /\ o \in OrdersOf(book', op'.cur) /\ book' \in Seq(Order)
    BY <2>1, <2>2, <2>4, <2>5, <2>6 DEF o
  <2> QED BY <1>0, <2>3, <2>5, <2>6, <2>7, <2>8, HandNew
<1>5. CASE LookupFound
  <2>1. PICK s \in Answers(book, Max(OrdersOf(book, op.cur))) :
          op' = [op EXCEPT !.oid = Max(OrdersOf(book, op.cur)), !.seen = s]
    BY <1>5 DEF LookupFound
  <2> DEFINE o == Max(OrdersOf(book, op.cur))
  <2>2. OrdersOf(book, op.cur) # {} /\ book' = book /\ pc' = "ack" /\ run' = run
    BY <1>5 DEF LookupFound, Goto
  <2>3. op.cur \in Intents /\ book \in Seq(Order)
    BY <1>0, <1>5 DEF LookupFound, HoldsIntent, TypeOK
  <2>4. o \in OrdersOf(book, op.cur) /\ o # 0
    BY <2>2, <2>3, NewestOrder
  <2>5. op'.cur = op.cur /\ op'.oid = o /\ op'.seen = s
    BY <2>1 DEF TypeOK, Op
  <2> HIDE DEF o
  <2>6. s \in Answers(book', o) /\ o \in OrdersOf(book', op'.cur) /\ book' \in Seq(Order)
    BY <2>1, <2>2, <2>3, <2>4, <2>5 DEF o
  <2> QED BY <1>0, <2>2, <2>3, <2>4, <2>5, <2>6, HandNew
<1> QED BY <1>2, <1>3, <1>4, <1>5 DEF ExecuteStep

\* So does the settling of an order.
LEMMA SettleHand ==
  ASSUME TypeOK, OrdersInHand, Extends(book, book'), SettleStep
  PROVE  OrdersInHand'
<1>0. /\ run.strays \subseteq DOMAIN book /\ book \in Seq(Order) /\ op.oid \in Nat
      /\ Requested \in Nat /\ 0 \in 0..Requested
      /\ pc \in HoldsOrder => op.cur \in Intents /\ op.oid \in OrdersOf(book, op.cur) /\ op.oid # 0
  BY OrderInHand, ExecutorAssumption DEF OrdersInHand, TypeOK, Op
<1>1. CASE RecordFill
  BY <1>0, <1>1, HandKept DEF RecordFill, Goto
<1>2. CASE CountFill
  <2>1. op.seen.filled \in 0..Requested
    BY <1>2 DEF CountFill, OrdersInHand, Filled, Sane
  <2>2. run'.strays = run.strays
    <3>1. CASE op.seen.filled < Requested
      BY <1>0, <1>2, <2>1, <3>1, TellType DEF CountFill
    <3>2. CASE ~(op.seen.filled < Requested)
      BY <1>0, <1>2, <2>1, <3>2, TellType DEF CountFill
    <3> QED BY <3>1, <3>2
  <2> QED BY <1>0, <1>2, <2>2, ReturnHand DEF CountFill
<1>a. CASE CountFillRaises
  BY <1>a, RaiseType, HandEmpty DEF CountFillRaises
<1>3. CASE RecordNoFill
  <2>1. run'.strays = run.strays
    BY <1>0, <1>3, TellType DEF RecordNoFill
  <2> QED BY <1>0, <1>3, <2>1, ReturnHand DEF RecordNoFill
<1>4. CASE HaltOnUnknown
  <2>1. run'.strays = run.strays
    BY <1>0, <1>4, TellType DEF HaltOnUnknown
  <2> QED BY <1>0, <1>4, <2>1, ReturnHand DEF HaltOnUnknown
<1>b. CASE ReadHalt
  <2>1. op'.cur = op.cur /\ op'.oid = op.oid /\ pc' = "put_halt" /\ run' = run /\ book' = book
    BY <1>b DEF ReadHalt, Goto, TypeOK, Op
  <2>2. pc' \notin HoldsIntent /\ pc' \notin HoldsOrder /\ pc' \notin {"ack", "settle", "count"}
    BY <2>1 DEF HoldsIntent, HoldsOrder
  <2> QED BY <1>0, <2>1, <2>2 DEF OrdersInHand
<1>5. CASE Timeout \/ OutsideTheMachine \/ Cancel \/ RecordUnknown
  <2>1. op' = op /\ run' = run
    BY <1>5 DEF Timeout, OutsideTheMachine, Cancel, RecordUnknown
  <2>2. <<pc, pc'>> \in HandsOn \/ pc' \notin HoldsIntent
    BY <1>5 DEF Timeout, OutsideTheMachine, Cancel, RecordUnknown, Goto, HandsOn, HoldsIntent, HoldsOrder
  <2> QED BY <1>0, <2>1, <2>2, HandKept
<1>6. ASSUME pc \in HoldsOrder, run' = run, book' = book, pc' # "count",
             NEW s \in Answers(book, op.oid), op'.cur = op.cur, op'.oid = op.oid, op'.seen = s
      PROVE  OrdersInHand'
  BY <1>0, <1>6, HandNew
<1>7. ASSUME run' = run, op' = op, pc' = "unknown"
      PROVE  OrdersInHand'
  <2>1. pc' \notin HoldsIntent
    BY <1>7 DEF HoldsIntent, HoldsOrder
  <2> QED BY <1>0, <1>7, <2>1, HandKept
<1>8. CASE Poll
  <2>1. pc \in HoldsOrder /\ run' = run /\ book' = book
    BY <1>8 DEF Poll, PollIf, HoldsOrder
  <2>2. CASE Goto("unknown") /\ UNCHANGED op
    BY <1>7, <2>1, <2>2 DEF Goto
  <2>3. ASSUME NEW s \in Answers(book, op.oid), op' = [op EXCEPT !.seen = s, !.polls = op.polls + 1], pc'
     = pc
        PROVE  OrdersInHand'
    <3>1. op'.cur = op.cur /\ op'.oid = op.oid /\ op'.seen = s
      BY <2>3 DEF TypeOK, Op
    <3>2. pc' # "count"
      BY <1>8, <2>3 DEF Poll, PollIf
    <3> QED BY <1>6, <2>1, <3>1, <3>2
  <2> QED BY <1>8, <2>2, <2>3 DEF Poll, PollIf
<1>9. CASE Reread
  <2>1. pc \in HoldsOrder /\ run' = run /\ book' = book
    BY <1>9 DEF Reread, HoldsOrder
  <2>2. CASE Goto("unknown") /\ UNCHANGED op
    BY <1>7, <2>1, <2>2 DEF Goto
  <2>3. ASSUME NEW s \in Answers(book, op.oid), NEW m, op' = [op EXCEPT !.seen = s, !.mode = m], pc' =
     "settle"
        PROVE  OrdersInHand'
    <3>1. op'.cur = op.cur /\ op'.oid = op.oid /\ op'.seen = s
      BY <2>3 DEF TypeOK, Op
    <3> QED BY <1>6, <2>1, <2>3, <3>1
  <2> QED BY <1>9, <2>2, <2>3 DEF Reread, Goto
<1> QED BY <1>1, <1>2, <1>a, <1>3, <1>4, <1>b, <1>5, <1>8, <1>9 DEF SettleStep

\* So does startup().
LEMMA ReconcileHand ==
  ASSUME TypeOK, OrdersInHand, OwnOrdersNamed, Extends(book, book'), ReconcileStep
  PROVE  OrdersInHand'
<1>0. /\ run \in Run /\ run.strays \subseteq DOMAIN book /\ run.todo \subseteq Intents
      /\ book \in Seq(Order) /\ op \in Op
  BY DEF OrdersInHand, TypeOK, Run
<1>1. \A c : [run EXCEPT !.todo = @ \ {c}, !.found = TRUE].strays = run.strays
  BY <1>0 DEF Run
<1>2. ASSUME NEW c \in run.todo, ReconcileError(c)
      PROVE  OrdersInHand'
  <2>1. op'.cur = c /\ op'.oid = index[c].oid /\ pc' = "unknown" /\ run'.strays = run.strays /\ book' = book
    BY <1>1, <1>2, Initials DEF ReconcileError, Op, Goto
  <2>2. index[c].oid \in OrdersOf(book, c) \cup {0}
    BY <1>0 DEF OwnOrdersNamed
  <2>3. pc' \notin HoldsIntent /\ pc' \notin HoldsOrder /\ pc' \notin {"ack", "settle", "count"}
    BY <2>1 DEF HoldsIntent, HoldsOrder
  <2> QED BY <1>0, <2>1, <2>2, <2>3 DEF OrdersInHand
<1>3. ASSUME NEW c \in run.todo, ReconcileNone(c)
      PROVE  OrdersInHand'
  <2>1. op' = op /\ pc' = pc /\ run'.strays = run.strays
    BY <1>1, <1>3 DEF ReconcileNone
  <2> QED BY <1>0, <2>1, HandKept
<1>4. ASSUME NEW c \in run.todo, ReconcileFound(c)
      PROVE  OrdersInHand'
  <2>a. PICK o \in Findable(c) : \E s \in Answers(book, o) :
          \/ UNCHANGED <<pc, op>>
          \/ /\ op' = [NoOp EXCEPT !.cur = c, !.oid = o, !.seen = s, !.mode = "startup"]
             /\ Goto(IF s.status = "open" THEN "cancel" ELSE "settle")
    BY <1>4 DEF ReconcileFound
  <2>b. PICK s \in Answers(book, o) :
          \/ UNCHANGED <<pc, op>>
          \/ /\ op' = [NoOp EXCEPT !.cur = c, !.oid = o, !.seen = s, !.mode = "startup"]
             /\ Goto(IF s.status = "open" THEN "cancel" ELSE "settle")
    BY <2>a
  <2>1. run'.strays = run.strays /\ book' = book
    BY <1>1, <1>4 DEF ReconcileFound
  <2>2. CASE UNCHANGED <<pc, op>>
    BY <1>0, <2>1, <2>2, HandKept
  <2>3. CASE /\ op' = [NoOp EXCEPT !.cur = c, !.oid = o, !.seen = s, !.mode = "startup"]
             /\ Goto(IF s.status = "open" THEN "cancel" ELSE "settle")
    <3>1. op'.cur = c /\ op'.oid = o /\ op'.seen = s /\ pc' # "count"
      BY <2>3, Initials DEF Op, Goto
    <3>2. o \in OrdersOf(book, c) /\ o # 0 /\ c \in Intents
      BY <1>0, FindableOwn
    <3> QED BY <1>0, <2>1, <3>1, <3>2, HandNew
  <2> QED BY <2>b, <2>2, <2>3
<1>5. CASE ScanOpenOrders
  <2>1. op' = op /\ pc' = "strays" /\ pc' \notin HoldsIntent
    BY <1>5 DEF ScanOpenOrders, Goto, HoldsIntent, HoldsOrder
  <2>2. run'.strays \subseteq DOMAIN book
    BY <1>0, <1>5 DEF ScanOpenOrders, OpenOrders, Run
  <2> QED BY <2>1, <2>2, HandKept
<1>6. ASSUME NEW o \in run.strays, StrayOrder(o)
      PROVE  OrdersInHand'
  <2>1. op'.cur = NoIntent /\ pc' = "unknown" /\ pc' \notin HoldsIntent
    BY <1>6, Initials DEF StrayOrder, Op, Goto, HoldsIntent, HoldsOrder
  <2>2. run'.strays \subseteq DOMAIN book
    BY <1>0, <1>6 DEF StrayOrder, Run
  <2> QED BY <2>1, <2>2, HandEmpty
<1>7. CASE HaltPolicy
  <2>1. op'.cur = NoIntent /\ pc' = "idle" /\ pc' \notin HoldsIntent /\ run'.strays = {}
    BY <1>7, Initials DEF HaltPolicy, Goto, HoldsIntent, HoldsOrder
  <2> QED BY <2>1, HandEmpty
<1>8. CASE StrayRaises \/ PolicyRaises \/ \E c \in run.todo : LeftOpenRaises(c)
  <2>1. op'.cur = NoIntent /\ pc' = "idle" /\ pc' \notin HoldsIntent /\ run'.strays = {}
    BY <1>8, Initials DEF StrayRaises, PolicyRaises, LeftOpenRaises, Abandon, Goto, HoldsIntent, HoldsOrder
  <2> QED BY <2>1, HandEmpty
<1>9. CASE Summary
  <2>1. op'.cur = op.cur /\ op'.oid = op.oid /\ pc' = "policy" /\ run' = run /\ book' = book
    BY <1>0, <1>9 DEF Summary, Goto, Op
  <2>2. pc' \notin HoldsIntent /\ pc' \notin HoldsOrder /\ pc' \notin {"ack", "settle", "count"}
    BY <2>1 DEF HoldsIntent, HoldsOrder
  <2> QED BY <1>0, <2>1, <2>2 DEF OrdersInHand
<1> QED BY <1>2, <1>3, <1>4, <1>5, <1>6, <1>7, <1>8, <1>9 DEF ReconcileStep

\* So do the gates, exceptions, crashes, the broker and the human.
LEMMA OtherHand ==
  ASSUME TypeOK, OrdersInHand, Extends(book, book'),
         \/ \E c \in Intents : Admit(c)
         \/ Startup \/ BrokerStep \/ Crash \/ LedgerBreaks \/ ManualHalt \/ ManualClear
         \/ UNCHANGED vars
         \/ \E e \in UnguardedEntries : LedgerRaises(e)
  PROVE  OrdersInHand'
<1>0. run.strays \subseteq DOMAIN book /\ op \in Op /\ book \in Seq(Order)
  BY DEF OrdersInHand, TypeOK
<1>1. ASSUME NEW c \in Intents, Admit(c)
      PROVE  OrdersInHand'
  <2>1. op'.cur = c /\ op'.oid = 0 /\ pc' = "admitted" /\ run' = run /\ book' = book
    BY <1>1, Initials DEF Admit, Op, Goto
  <2>2. pc' \notin HoldsOrder
    BY <2>1 DEF HoldsOrder
  <2> QED BY <1>0, <2>1, <2>2 DEF OrdersInHand
<1>2. CASE Startup
  <2>1. op' = op /\ pc' \notin HoldsIntent /\ (run' = run \/ run'.strays = {})
    BY <1>2 DEF Startup, Goto, HoldsIntent, HoldsOrder, NoRun
  <2> QED BY <1>0, <2>1, HandKept
<1>3. CASE BrokerStep
  <2>1. op' = op /\ pc' = pc /\ run' = run
    BY <1>3 DEF BrokerStep, BrokerFill, BrokerExpire
  <2> QED BY <1>0, <2>1, HandKept
<1>4. CASE LedgerBreaks \/ ManualHalt \/ ManualClear \/ UNCHANGED vars
  <2>1. op' = op /\ pc' = pc /\ run' = run
    BY <1>4 DEF LedgerBreaks, ManualHalt, ManualClear, HaltFileChanges, vars
  <2> QED BY <1>0, <2>1, HandKept
<1>5. ASSUME Abandon
      PROVE  OrdersInHand'
  <2>1. op'.cur = NoIntent /\ pc' = "idle" /\ pc' \notin HoldsIntent /\ run'.strays = {}
    BY <1>5, Initials DEF Abandon, Goto, HoldsIntent, HoldsOrder
  <2> QED BY <2>1, HandEmpty
<1>6. CASE Crash \/ \E e \in UnguardedEntries : LedgerRaises(e)
  BY <1>5, <1>6 DEF Crash, LedgerRaises, Raise
<1> QED BY <1>1, <1>2, <1>3, <1>4, <1>6

\* Every step keeps OrdersInHand.
LEMMA HandStep ==
  ASSUME IInv, [Next]_vars
  PROVE  OrdersInHand'
<1>1. TypeOK /\ OrdersInHand /\ OwnOrdersNamed
  BY DEF IInv
<1>2. Extends(book, book')
  BY <1>1, BookStep
<1> QED BY <1>1, <1>2, ExecuteHand, SettleHand, ReconcileHand, OtherHand DEF Next, ProcessStep

-----------------------------------------------------------------------------
(* Order ids *)

\* What an index names after a step: what it named before, the order in hand, an order that
\* the reconciliation found, or one that the ledger names.
LEMMA IndexStep ==
  ASSUME TypeOK, OrdersInHand, OwnOrdersNamed, [Next]_vars, NEW c \in Intents
  PROVE  index'[c].oid \in OrdersOf(book, c) \cup {0}
<1> DEFINE Goal == index'[c].oid \in OrdersOf(book, c) \cup {0}
<1>0. /\ index \in [Intents -> IndexRec] /\ index[c].oid \in OrdersOf(book, c) \cup {0}
      /\ op.oid \in Nat /\ (op.cur = c => op.oid \in OrdersOf(book, c) \cup {0})
      /\ pc \in HoldsIntent => op.cur \in Intents
  BY DEF TypeOK, OwnOrdersNamed, OrdersInHand, Op
<1>1. ASSUME NEW o \in {0, op.oid}, CloseIndex(o)
      PROVE  Goal
  <2>1. index'[c].oid = index[c].oid \/ (c = op.cur /\ index'[c].oid = o)
    BY <1>0, <1>1, CloseIndexType
  <2> QED BY <1>0, <2>1
<1>2. CASE UNCHANGED index
  BY <1>0, <1>2
<1>3. CASE ExecuteStep
  <2>1. CASE WriteAhead
    BY <1>0, <2>1 DEF WriteAhead, HoldsIntent
  <2>2. CASE CreateRejected \/ LookupNone
    BY <1>1, <2>2 DEF CreateRejected, LookupNone
  <2>3. CASE SentNoAck
    BY <1>0, <2>3 DEF SentNoAck, IndexRec
  <2>4. CASE Ack
    BY <1>0, <2>4 DEF Ack, IndexRec
  <2>5. CASE \/ WriteAheadFails \/ CreateAcked \/ CreateUncertain("maybe_sent") \/ CreateUncertain("raised")
             \/ LookupFound \/ LookupUncertain
    BY <1>2, <2>5 DEF WriteAheadFails, CreateAcked, CreateUncertain, LookupFound, LookupUncertain
  <2> QED BY <1>3, <2>1, <2>2, <2>3, <2>4, <2>5 DEF ExecuteStep
<1>4. CASE SettleStep
  <2>1. CASE RecordFill \/ RecordNoFill \/ HaltOnUnknown
    BY <1>1, <2>1 DEF RecordFill, RecordNoFill, HaltOnUnknown
  <2>2. CASE CountFill \/ CountFillRaises \/ Poll \/ Timeout \/ OutsideTheMachine \/ Cancel \/ Reread \/
     RecordUnknown \/ ReadHalt
    BY <1>2, <2>2 DEF CountFill, CountFillRaises, Poll, PollIf, Timeout, OutsideTheMachine, Cancel,
       Reread, RecordUnknown, ReadHalt
  <2> QED BY <1>4, <2>1, <2>2 DEF SettleStep
<1>5. CASE ReconcileStep
  <2>1. ASSUME NEW d \in run.todo, ReconcileNone(d)
        PROVE  Goal
    BY <1>0, <2>1 DEF ReconcileNone, IndexRec
  <2>2. ASSUME NEW d \in run.todo, ReconcileFound(d)
        PROVE  Goal
    <3>1. PICK o \in Findable(d) : index' = [index EXCEPT ![d].oid = o]
      BY <2>2 DEF ReconcileFound
    <3>2. d \in Intents /\ o \in OrdersOf(book, d)
      BY FindableOwn DEF TypeOK, Run
    <3> QED BY <1>0, <3>1, <3>2 DEF IndexRec
  <2>a. ASSUME NEW d \in run.todo, LeftOpenRaises(d)
        PROVE  Goal
    <3>1. PICK o \in Findable(d) : index' = [index EXCEPT ![d].oid = o]
      BY <2>a DEF LeftOpenRaises
    <3>2. d \in Intents /\ o \in OrdersOf(book, d)
      BY FindableOwn DEF TypeOK, Run
    <3> QED BY <1>0, <3>1, <3>2 DEF IndexRec
  <2>3. ASSUME NEW d \in run.todo, ReconcileError(d)
        PROVE  Goal
    BY <1>2, <2>3 DEF ReconcileError
  <2>4. ASSUME NEW o \in run.strays, StrayOrder(o)
        PROVE  Goal
    BY <1>2, <2>4 DEF StrayOrder
  <2>5. CASE ScanOpenOrders \/ StrayRaises \/ Summary \/ HaltPolicy \/ PolicyRaises
    BY <1>2, <2>5 DEF ScanOpenOrders, StrayRaises, Summary, HaltPolicy, PolicyRaises
  <2> QED BY <1>5, <2>1, <2>2, <2>a, <2>3, <2>4, <2>5 DEF ReconcileStep
<1>6. CASE Startup
  <2>1. index'[c] = Rebuilt(ledger, c)
    BY <1>6 DEF Startup
  <2>2. CASE Rebuilt(ledger, c).oid = 0
    BY <2>1, <2>2
  <2>3. CASE Rebuilt(ledger, c).oid # 0
    <3>1. PICK i \in EntriesOf(ledger, c) : Rebuilt(ledger, c).oid = ledger[i].oid
      BY <2>3, RebuiltType DEF TypeOK
    <3> QED BY <2>1, <3>1 DEF EntriesOf, OwnOrdersNamed
  <2> QED BY <2>2, <2>3
<1>7. CASE Crash
  BY <1>7, Initials DEF Crash
<1>8. CASE \/ (\E d \in Intents : Admit(d)) \/ LedgerBreaks \/ ManualHalt \/ ManualClear \/ UNCHANGED vars
  BY <1>2, <1>8 DEF Admit, LedgerBreaks, ManualHalt, ManualClear, HaltFileChanges, vars
<1>9. CASE BrokerStep
  BY <1>2, <1>9 DEF BrokerStep, BrokerFill, BrokerExpire
<1>10. CASE \E e \in UnguardedEntries : LedgerRaises(e)
  BY <1>2, <1>10 DEF LedgerRaises
<1> QED BY <1>3, <1>4, <1>5, <1>6, <1>7, <1>8, <1>9, <1>10 DEF Next, ProcessStep

\* Every step keeps OwnOrdersNamed: new entries name the order in hand.
LEMMA OwnStep ==
  ASSUME IInv, [Next]_vars
  PROVE  OwnOrdersNamed'
<1>0. TypeOK /\ OrdersInHand /\ OwnOrdersNamed
  BY DEF IInv
<1>1. \A c : OrdersOf(book, c) \subseteq OrdersOf(book', c)
  BY <1>0, BookStep, ExtendsKeeps DEF TypeOK
<1>2. ASSUME NEW c \in Intents
      PROVE  index'[c].oid \in OrdersOf(book', c) \cup {0}
  BY <1>0, <1>1, IndexStep
<1>3. ASSUME NEW i \in DOMAIN ledger', ledger'[i].coid \in Intents
      PROVE  ledger'[i].oid \in OrdersOf(book', ledger'[i].coid) \cup {0}
  <2>1. CASE i \in DOMAIN ledger
    <3>1. ledger'[i] = ledger[i]
      BY <1>0, <2>1, LedgerGrows
    <3> QED BY <1>0, <1>1, <1>3, <2>1, <3>1 DEF OwnOrdersNamed
  <2>2. CASE Writable(ledger'[i])
    <3>1. ledger'[i].oid = 0 \/ (ledger'[i].coid = op.cur /\ ledger'[i].oid = op.oid)
      BY <2>2 DEF Writable
    <3> QED BY <1>0, <1>1, <1>3, <3>1 DEF OrdersInHand
  <2> QED BY <1>0, <1>3, <2>1, <2>2, LedgerGrows
<1> QED BY <1>2, <1>3 DEF OwnOrdersNamed

-----------------------------------------------------------------------------
(* The write-ahead *)

\* Every step keeps WriteAheadDurable: only WriteAhead leads to the create_order.
LEMMA WriteAheadStep ==
  ASSUME IInv, [Next]_vars
  PROVE  WriteAheadDurable'
<1>0. TypeOK /\ OrdersInHand /\ WriteAheadDurable
  BY DEF IInv
<1>1. \A c : Attempts(ledger, c) # {} => Attempts(ledger', c) # {}
  BY <1>0, LedgerGrows DEF Attempts, SentOf, EntriesOf
<1>2. ASSUME NEW o \in DOMAIN book', book'[o].client \in Intents
      PROVE  Attempts(ledger', book'[o].client) # {}
  <2>1. CASE o \in DOMAIN book
    <3>1. book'[o].client = book[o].client
      BY <1>0, <2>1, BookStep DEF Extends
    <3> QED BY <1>0, <1>1, <1>2, <2>1, <3>1 DEF WriteAheadDurable
  <2>2. CASE pc = "create" /\ book'[o].client = op.cur
    BY <1>0, <1>1, <2>2 DEF WriteAheadDurable
  <2> QED BY <1>0, <1>2, <2>1, <2>2, BookStep
<1>3. ASSUME pc' = "create"
      PROVE  Attempts(ledger', op'.cur) # {}
  <2>1. CASE WriteAhead
    <3> DEFINE e == SentEntry(op.cur, "write_ahead", 0)
    <3>1. ledger' = Append(ledger, e) /\ op' = op /\ ledger \in Seq(Entry)
      BY <1>0, <2>1 DEF WriteAhead, Appends, TypeOK
    <3>2. e \in Entry
      BY <1>0, SentWritable DEF Stages, Writable
    <3>3. Len(ledger) + 1 \in DOMAIN ledger' /\ ledger'[Len(ledger) + 1] = e
      BY <3>1, <3>2, AppendProperties, LenProperties
    <3>4. e.coid = op.cur /\ e.kind = "ORDER_SENT" /\ e.stage = "write_ahead"
      BY DEF SentEntry
    <3> HIDE DEF e
    <3> QED BY <3>1, <3>3, <3>4 DEF Attempts, SentOf, EntriesOf
  <2>2. CASE pc = "create" /\ op' = op
    BY <1>0, <1>1, <2>2 DEF WriteAheadDurable
  <2>3. CASE ExecuteStep
    BY <1>3, <2>1, <2>2, <2>3, ReturnType DEF ExecuteStep, WriteAheadFails, CreateAcked, CreateRejected,
       CreateUncertain,
       SentNoAck, LookupFound, LookupNone, LookupUncertain, Ack, Goto
  <2>4. CASE SettleStep
    BY <1>3, <2>4, ReturnType DEF SettleStep, RecordFill, CountFill, CountFillRaises, RecordNoFill, Poll,
       PollIf,
       Timeout, OutsideTheMachine, Cancel, Reread, RecordUnknown, ReadHalt, HaltOnUnknown, Raise,
       Abandon, Goto
  <2>5. CASE ReconcileStep
    <3>1. ASSUME NEW c \in run.todo, ReconcileError(c) \/ ReconcileNone(c) \/ ReconcileFound(c) \/
       LeftOpenRaises(c)
          PROVE  FALSE
      BY <1>3, <3>1 DEF ReconcileError, ReconcileNone, ReconcileFound, LeftOpenRaises, Reconciling,
         Abandon, Goto
    <3>2. ASSUME NEW o \in run.strays, StrayOrder(o)
          PROVE  FALSE
      BY <1>3, <3>2 DEF StrayOrder, Goto
    <3> QED BY <1>3, <2>5, <3>1, <3>2 DEF ReconcileStep, ScanOpenOrders, StrayRaises, Summary, HaltPolicy,
       PolicyRaises, Abandon, Goto
  <2>6. CASE \/ \E c \in Intents : Admit(c)
             \/ Startup \/ Crash \/ LedgerBreaks \/ ManualHalt \/ ManualClear
             \/ UNCHANGED vars
    BY <1>3, <2>2, <2>6 DEF Admit, Startup, Crash, Abandon, LedgerBreaks, ManualHalt, ManualClear,
       HaltFileChanges, vars, Goto
  <2>7. CASE BrokerStep
    BY <1>3, <2>2, <2>7 DEF BrokerStep, BrokerFill, BrokerExpire
  <2>8. CASE \E e \in UnguardedEntries : LedgerRaises(e)
    BY <1>3, <2>8 DEF LedgerRaises, Raise, Abandon, Goto
  <2> QED BY <2>3, <2>4, <2>5, <2>6, <2>7, <2>8 DEF Next, ProcessStep
<1> QED BY <1>2, <1>3 DEF WriteAheadDurable

-----------------------------------------------------------------------------
(* Final entries *)

\* Every step keeps FinalEntriesAreTrue: old entries name finished orders, which do not change.
LEMMA FinalStep ==
  ASSUME IInv, [Next]_vars
  PROVE  FinalEntriesAreTrue'
<1>0. TypeOK /\ OrdersInHand /\ OwnOrdersNamed /\ FinalEntriesAreTrue
  BY DEF IInv
<1>1. Extends(book, book')
  BY <1>0, BookStep
<1> DEFINE True(b, e) == /\ e.oid \in OrdersOf(b, e.coid)
                         /\ b[e.oid].status # "open"
                         /\ b[e.oid].filled = e.filled
                         /\ e.kind = "FILL" <=> e.filled = Requested
                         /\ e.kind = "NO_FILL_CANCELED" <=> e.filled = 0
<1>2. ASSUME NEW e, True(book, e)
      PROVE  True(book', e)
  <2>1. e.oid \in DOMAIN book
    BY <1>2 DEF OrdersOf
  <2>2. e.oid \in OrdersOf(book', e.coid)
    BY <1>0, <1>1, <1>2, ExtendsKeeps DEF TypeOK
  <2>3. book'[e.oid] = book[e.oid]
    BY <1>1, <1>2, <2>1 DEF Extends
  <2> QED BY <1>2, <2>2, <2>3
<1>3. ASSUME NEW i \in DOMAIN ledger', ledger'[i].kind \in FinalKinds
      PROVE  True(book', ledger'[i])
  <2>1. CASE i \in DOMAIN ledger
    <3>1. ledger'[i] = ledger[i]
      BY <1>0, <2>1, LedgerGrows
    <3>2. True(book, ledger[i])
      BY <1>0, <1>3, <2>1, <3>1 DEF FinalEntriesAreTrue, FinalKinds
    <3> QED BY <1>2, <3>1, <3>2
  <2>2. CASE Writable(ledger'[i])
    <3> DEFINE e == ledger'[i]
    <3>1. /\ pc = "settle" /\ Finished(op.seen)
          /\ e.coid = op.cur /\ e.oid = op.oid /\ e.filled = op.seen.filled
          /\ e.kind = "FILL" <=> e.filled = Requested
          /\ e.kind = "NO_FILL_CANCELED" <=> e.filled = 0
      BY <1>3, <2>2 DEF Writable
    <3>2. op.oid \in OrdersOf(book, op.cur) /\ op.oid \in DOMAIN book
      BY <1>0, <3>1, OrderInHand DEF HoldsOrder
    <3>3. op.seen = Truth(book, op.oid)
      BY <1>0, <3>1 DEF OrdersInHand
    <3>4. op.seen.status # "open"
      BY <3>1 DEF Finished, Filled, Unfilled
    <3>5. book[op.oid].client = op.cur /\ book[op.oid].filled = op.seen.filled /\ book[op.oid].status #
       "open"
      BY <3>2, <3>3, <3>4 DEF OrdersOf, Truth
    <3>6. True(book, e)
      BY <3>1, <3>2, <3>5
    <3> QED BY <1>2, <3>6
  <2> QED BY <1>0, <1>3, <2>1, <2>2, LedgerGrows
<1> QED BY <1>3 DEF FinalEntriesAreTrue, FinalKinds

-----------------------------------------------------------------------------
(* Theorems *)

\* The invariant holds at the beginning.
LEMMA InitInv == Init => IInv
<1> SUFFICES ASSUME Init PROVE IInv
  OBVIOUS
<1> USE DEF Init
<1>1. PICK n \in 0..MaxStrays : book = [o \in 1..n |-> [client |-> NoIntent, status |-> "open", filled
   |-> 0]]
  OBVIOUS
<1>2. book \in Seq(Order) /\ \A o \in DOMAIN book : book[o].client = NoIntent
  <2>1. n \in Nat /\ [client |-> NoIntent, status |-> "open", filled |-> 0] \in Order
    BY ExecutorAssumption DEF Order
  <2>2. book \in [1..n -> Order]
    BY <1>1, <2>1
  <2>3. book \in Seq(Order)
    BY <2>1, <2>2, SeqDef
  <2> QED BY <1>1, <2>3
<1>3. ledger \in Seq(Entry) /\ DOMAIN ledger = {}
  BY EmptySeq, LenProperties
<1>4. TypeOK
  <2>1. outcome \in [Intents -> Result]
    BY ExecutorAssumption DEF Result
  <2>2. counted \in [Intents -> Nat] /\ index \in [Intents -> IndexRec]
    BY Initials
  <2>3. op \in Op /\ run \in Run
    BY Initials
  <2>4. crashes \in Seq(Nat) /\ Len(crashes) <= MaxCrashes /\ faults \in 0..MaxFaults
    BY ExecutorAssumption, EmptySeq
  <2>5. disk \in Disks /\ halt \in Halts /\ started \in BOOLEAN /\ pc \in PCs
    BY DEF PCs, Disks, Halts
  <2>6. ledger \in Seq(Entry) /\ book \in Seq(Order)
    BY <1>2, <1>3
  <2> HIDE DEF Init
  <2> QED BY <2>1, <2>2, <2>3, <2>4, <2>5, <2>6 DEF TypeOK
<1>5. OrdersInHand
  BY Initials, ExecutorAssumption DEF OrdersInHand, HoldsIntent, HoldsOrder
<1>6. OwnOrdersNamed
  BY <1>3, Initials DEF OwnOrdersNamed
<1>7. WriteAheadDurable
  BY <1>2, ExecutorAssumption DEF WriteAheadDurable
<1>8. FinalEntriesAreTrue
  BY <1>3 DEF FinalEntriesAreTrue
<1> QED BY <1>4, <1>5, <1>6, <1>7, <1>8 DEF IInv

\* Every step keeps it.
LEMMA NextInv == IInv /\ [Next]_vars => IInv'
BY TypeStep, HandStep, OwnStep, WriteAheadStep, FinalStep DEF IInv

\* The inductive invariant holds in every behaviour.
THEOREM Inductive == Spec => []IInv
BY InitInv, NextInv, PTL DEF Spec

\* Every variable keeps its type, in every behaviour of the executor.
THEOREM TypeCorrect == Spec => []TypeOK
<1>1. IInv => TypeOK
  BY DEF IInv
<1> QED BY <1>1, Inductive, PTL

\* Whatever the broker does and wherever the process dies, an order of ours, and one that is
\* being created, has its ORDER_SENT{write_ahead} in the ledger.
THEOREM WriteAheadBeforeExposure == Spec => []WriteAheadDurable
<1>1. IInv => WriteAheadDurable
  BY DEF IInv
<1> QED BY <1>1, Inductive, PTL

\* An answer that is about to be recorded as final is the state of the order now, and the order
\* belongs to the intent at hand: no step of the broker between the read and the ledger
\* entry makes it stale.
THEOREM AnswersInHandHold == Spec => []OrdersInHand
<1>1. IInv => OrdersInHand
  BY DEF IInv
<1> QED BY <1>1, Inductive, PTL

\* Index and ledger never attribute an order to an intent it is not an order of.
THEOREM OrderIdsNeverMixed == Spec => []OwnOrdersNamed
<1>1. IInv => OwnOrdersNamed
  BY DEF IInv
<1> QED BY <1>1, Inductive, PTL

\* FILL, PARTIAL_FILL and NO_FILL_CANCELED entries are the broker's final word and stay so.
THEOREM LedgerTellsTheTruth == Spec => []FinalEntriesAreTrue
<1>1. IInv => FinalEntriesAreTrue
  BY DEF IInv
<1> QED BY <1>1, Inductive, PTL

-----------------------------------------------------------------------------
(* A broken ledger *)

\* Only a process that startup() has opened is on its way to the broker, or has an answer of
\* create_order to deal with.
Sending == {"admitted", "create", "maybe_sent", "raised", "lookup_maybe", "lookup_raised", "ack"}
OnlyStartedSends == pc \in Sending => started

\* Every step keeps OnlyStartedSends: Admit comes first, and only a crash closes the process.
LEMMA SendingStep ==
  ASSUME OnlyStartedSends, [Next]_vars
  PROVE  OnlyStartedSends'
<1>1. ASSUME pc' \notin Sending
      PROVE  OnlyStartedSends'
  BY <1>1 DEF OnlyStartedSends
<1>2. ASSUME pc \in Sending, started' = started
      PROVE  OnlyStartedSends'
  BY <1>2 DEF OnlyStartedSends
<1>3. Return => pc' \notin Sending
  BY DEF Return, Sending
<1>4. Abandon => pc' \notin Sending
  BY DEF Abandon, Goto, Sending
<1>5. CASE ExecuteStep
  BY <1>1, <1>2, <1>3, <1>5 DEF ExecuteStep, WriteAhead, WriteAheadFails, CreateAcked, CreateRejected,
     CreateUncertain, SentNoAck, LookupFound, LookupNone, LookupUncertain, Ack, Sending
<1>6. CASE SettleStep
  BY <1>1, <1>3, <1>4, <1>6 DEF SettleStep, RecordFill, CountFill, CountFillRaises, RecordNoFill, Poll,
     PollIf, Timeout, OutsideTheMachine, Cancel, Reread, RecordUnknown, ReadHalt, HaltOnUnknown, Raise,
     Goto, Sending
<1>7. CASE ReconcileStep
  <2>1. ASSUME NEW c \in run.todo, ReconcileError(c) \/ ReconcileNone(c) \/ ReconcileFound(c) \/
           LeftOpenRaises(c)
        PROVE  OnlyStartedSends'
    BY <1>1, <1>4, <2>1 DEF ReconcileError, ReconcileNone, ReconcileFound, LeftOpenRaises, Reconciling,
       Goto, Sending
  <2>2. ASSUME NEW o \in run.strays, StrayOrder(o)
        PROVE  OnlyStartedSends'
    BY <1>1, <2>2 DEF StrayOrder, Goto, Sending
  <2>3. CASE ScanOpenOrders \/ StrayRaises \/ Summary \/ HaltPolicy \/ PolicyRaises
    BY <1>1, <1>4, <2>3 DEF ScanOpenOrders, StrayRaises, Summary, HaltPolicy, PolicyRaises, Goto, Sending
  <2> QED BY <1>7, <2>1, <2>2, <2>3 DEF ReconcileStep
<1>8. CASE \E c \in Intents : Admit(c)
  BY <1>8 DEF Admit, OnlyStartedSends
<1>9. CASE Startup
  BY <1>1, <1>9 DEF Startup, Goto, Sending
<1>10. CASE Crash \/ \E e \in UnguardedEntries : LedgerRaises(e)
  BY <1>1, <1>4, <1>10 DEF Crash, LedgerRaises, Raise
<1>11. CASE BrokerStep
  BY <1>11 DEF BrokerStep, BrokerFill, BrokerExpire, OnlyStartedSends
<1>12. CASE LedgerBreaks \/ ManualHalt \/ ManualClear \/ UNCHANGED vars
  BY <1>12 DEF LedgerBreaks, ManualHalt, ManualClear, HaltFileChanges, vars, OnlyStartedSends
<1> QED BY <1>5, <1>6, <1>7, <1>8, <1>9, <1>10, <1>11, <1>12 DEF Next, ProcessStep

\* In every behaviour, whoever is sending has been started.
THEOREM SendersAreStarted == Spec => []OnlyStartedSends
<1>1. Init => OnlyStartedSends
  BY DEF Init, OnlyStartedSends, Sending
<1>2. OnlyStartedSends /\ [Next]_vars => OnlyStartedSends'
  BY SendingStep
<1> QED BY <1>1, <1>2, PTL DEF Spec

\* Only the summary, which is an append, leads to the halt policy, and only that to _started.
LEMMA PolicyOnRecord ==
  ASSUME [Next]_vars, disk # "ok", ~started, pc # "policy"
  PROVE  ~started' /\ pc' # "policy"
<1>1. ASSUME started' = started, pc' # "policy"
      PROVE  ~started' /\ pc' # "policy"
  BY <1>1
<1>2. (Return => pc' # "policy") /\ (Abandon => pc' # "policy")
  BY DEF Return, Abandon, Goto
<1>3. CASE ExecuteStep
  BY <1>1, <1>2, <1>3 DEF ExecuteStep, WriteAhead, WriteAheadFails, CreateAcked, CreateRejected,
     CreateUncertain, SentNoAck, LookupFound, LookupNone, LookupUncertain, Ack, Goto
<1>4. CASE SettleStep
  BY <1>1, <1>2, <1>4 DEF SettleStep, RecordFill, CountFill, CountFillRaises, RecordNoFill, Poll,
     PollIf, Timeout, OutsideTheMachine, Cancel, Reread, RecordUnknown, ReadHalt, HaltOnUnknown, Raise,
     Goto
<1>5. CASE ReconcileStep
  <2>1. ASSUME NEW c \in run.todo, ReconcileError(c) \/ ReconcileNone(c) \/ ReconcileFound(c) \/
           LeftOpenRaises(c)
        PROVE  ~started' /\ pc' # "policy"
    BY <1>1, <1>2, <2>1 DEF ReconcileError, ReconcileNone, ReconcileFound, LeftOpenRaises, Goto
  <2>2. ASSUME NEW o \in run.strays, StrayOrder(o)
        PROVE  ~started' /\ pc' # "policy"
    BY <1>1, <2>2 DEF StrayOrder, Goto
  <2>3. CASE ScanOpenOrders \/ StrayRaises \/ PolicyRaises
    BY <1>1, <1>2, <2>3 DEF ScanOpenOrders, StrayRaises, PolicyRaises, Goto
  <2>4. ~Summary /\ ~HaltPolicy
    BY DEF Summary, HaltPolicy
  <2> QED BY <1>5, <2>1, <2>2, <2>3, <2>4 DEF ReconcileStep
<1>6. CASE (\E c \in Intents : Admit(c)) \/ Startup
  BY <1>1, <1>6 DEF Admit, Startup, Goto
<1>7. CASE Crash \/ \E e \in UnguardedEntries : LedgerRaises(e)
  BY <1>1, <1>2, <1>7 DEF Crash, LedgerRaises, Raise
<1>8. CASE BrokerStep
  BY <1>1, <1>8 DEF BrokerStep, BrokerFill, BrokerExpire
<1>9. CASE LedgerBreaks \/ ManualHalt \/ ManualClear \/ UNCHANGED vars
  BY <1>1, <1>9 DEF LedgerBreaks, ManualHalt, ManualClear, HaltFileChanges, vars
<1> QED BY <1>3, <1>4, <1>5, <1>6, <1>7, <1>8, <1>9 DEF Next, ProcessStep

\* A process that is not started adds no order of ours to the broker's book.
LEMMA NoOrderUnstarted ==
  ASSUME TypeOK, OrdersInHand, OnlyStartedSends, [Next]_vars, ~started
  PROVE  \A c \in Intents : OrdersOf(book', c) = OrdersOf(book, c)
<1>1. pc # "create"
  BY DEF OnlyStartedSends, Sending
<1>2. Extends(book, book') /\ \A o \in DOMAIN book' : o \in DOMAIN book
  BY <1>1, BookStep
<1>3. DOMAIN book \subseteq DOMAIN book'
  BY <1>2, ExtendsKeeps DEF TypeOK
<1>4. \A o \in DOMAIN book : book'[o].client = book[o].client
  BY <1>2 DEF Extends
<1> QED BY <1>2, <1>3, <1>4 DEF OrdersOf

\* A process that finds a ledger it cannot write to is never started, lifts no halt and creates no
\* order, whatever the broker and the other processes do.
THEOREM NoTradeOverABrokenLedger == Spec => BrokenLedgerStaysShut
<1>1. IInv /\ OnlyStartedSends /\ [Next]_vars
        => [disk # "ok" /\ ~started /\ pc # "policy" =>
              /\ ~started' /\ pc' # "policy"
              /\ \A c \in Intents : OrdersOf(book', c) = OrdersOf(book, c)]_vars
  BY PolicyOnRecord, NoOrderUnstarted DEF IInv
<1> QED BY <1>1, Inductive, SendersAreStarted, PTL DEF Spec, BrokenLedgerStaysShut

=============================================================================
