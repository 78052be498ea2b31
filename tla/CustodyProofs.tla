--------------------------- MODULE CustodyProofs ---------------------------
(***************************************************************************)
(* HonestExecutor implements OrderCustody while its durable writes work,   *)
(* for every number of intents, sends, polls and crashes: custody before   *)
(* exposure, no final record of an order that is alive, and no second      *)
(* attempt before the first has its end on record.  Then what execute()    *)
(* answers, when startup() lifts a halt, and the statistics of the day.    *)
(***************************************************************************)
EXTENDS HonestExecutorProofs, WellFoundedInduction

-----------------------------------------------------------------------------
(* The inductive invariant *)

Single(c)  == \A i, j \in Attempts(ledger, c) : i = j
Unknown(c) == \E i \in EntriesOf(ledger, c) : ledger[i].kind = "UNKNOWN_STATE"
Alive(c)   == \E o \in OrdersOf(book, c) : book[o].status = "open"
Flies(c)   == InFlight(index[c])

\* Where the process works on an intent that is in flight.
Working == {"create", "maybe_sent", "raised", "lookup_maybe", "lookup_raised", "ack", "settle",
            "cancel", "reread", "unknown"}
\* Where startup() works on one of many.
Settling == {"settle", "cancel", "reread", "unknown"}

\* The ledger: nothing is recorded of an intent before its write-ahead, and a sending has a stage.
SentFirst ==
  /\ \A c \in Intents : Attempts(ledger, c) = {} => EntriesOf(ledger, c) = {}
  /\ \A i \in DOMAIN ledger : ledger[i].kind = "ORDER_SENT" => ledger[i].stage \in Stages

\* Where an UNKNOWN_STATE is on record and the halt is not.
Halting == {"set_halt", "put_halt"}

\* An entry that ends an attempt of c comes after position i of the ledger.
EndAfter(c, i) == \E k \in EntriesOf(ledger, c) : i < k /\ ClosesEntry(ledger[k])

\* A process died when the ledger had reached position i.
CrashAfter(i) == \E n \in DOMAIN crashes : i <= crashes[n]

\* The index that was rebuilt from the ledger says of every intent what the ledger says.
IndexFollows ==
  \A c \in Intents :
    /\ (started \/ pc # "idle") /\ Attempts(ledger, c) # {} /\ ~Closed(ledger, c) => Flies(c)
    /\ Flies(c) => Attempts(ledger, c) # {}
    /\ Flies(c) /\ Closed(ledger, c) => pc \in Working \cup Halting /\ op.cur = c
    /\ Flies(c) /\ Single(c) /\ Closed(ledger, c) => pc \in Halting

\* Whatever the process works on, or is going to, is in flight; and startup() works on it once.
AtWork ==
  /\ pc = "admitted" => ~Flies(op.cur)
  /\ pc \in Working /\ op.cur \in Intents => Flies(op.cur)
  /\ \A c \in Intents : pc \in Halting /\ op.cur = c =>
       Closed(ledger, c) /\ \A i \in Attempts(ledger, c) : EndAfter(c, i)
  /\ pc \in Working \cup Halting \cup {"count"} => op.cur \notin run.todo
  /\ \A c \in run.todo : Flies(c)
  /\ run.todo # {} => \/ pc = "reconcile"
                      \/ /\ pc \in Settling \cup Halting \cup {"count"}
                         /\ op.mode \in {"startup", "reconcile_cancel"}

\* One attempt, one order; none before create_order; and none alive once the ledger has its end.
OneOrder ==
  \A c \in Intents : Single(c) =>
    /\ \A o1, o2 \in OrdersOf(book, c) : o1 = o2
    /\ pc = "create" /\ op.cur = c => OrdersOf(book, c) = {}
    /\ Closed(ledger, c) /\ ~Unknown(c) => ~Alive(c)

\* What UnresolvedNeverResent says of every two attempts.
Repeats ==
  \A c \in Intents : \A i, j \in Attempts(ledger, c) :
    i < j => \/ EndBetween(c, i, j)
             \/ EndBetween(c, 0, i) /\ \E n \in DOMAIN crashes : i <= crashes[n] /\ crashes[n] < j

\* An attempt that is not in flight has ended; or it was cut off by a crash, and the end of an
\* earlier one hides it.
Settled(c, i) == EndAfter(c, i) \/ (EndBetween(c, 0, i) /\ CrashAfter(i))
Resolved == \A c \in Intents : (started \/ pc # "idle") /\ ~Flies(c) =>
              \A i \in Attempts(ledger, c) : Settled(c, i)

\* Before startup() has opened it, a process finds the attempts of processes that died.
CutOff == ~started => \A c \in Intents : \A i \in Attempts(ledger, c) : CrashAfter(i)

CrashesPast == \A n \in DOMAIN crashes : crashes[n] <= Len(ledger)

\* Over a ledger that a crash has broken, no process is ever started again.
Shut == disk # "ok" => ~started /\ pc # "policy"

\* What holds while no durable write has failed: the last part as long as the ledger can be written.
Sound == /\ SentFirst /\ OneOrder /\ Repeats /\ Shut /\ CrashesPast
         /\ disk = "ok" => IndexFollows /\ AtWork /\ Resolved /\ CutOff

Accounted == OnlyStartedSends /\ (faults = 0 => Sound)

-----------------------------------------------------------------------------
(* What an entry changes *)

\* One entry more: it is an attempt, an end, or neither.
LEMMA AppendEffect ==
  ASSUME ledger \in Seq(Entry), NEW e \in Entry, ledger' = Append(ledger, e), NEW c
  PROVE  /\ Attempts(ledger', c) = Attempts(ledger, c) \cup
              (IF e.coid = c /\ e.kind = "ORDER_SENT" /\ e.stage = "write_ahead" THEN {Len(ledger) + 1} ELSE {})
         /\ Closed(ledger', c) <=> Closed(ledger, c) \/ (e.coid = c /\ ClosesEntry(e))
         /\ Unknown(c)' <=> Unknown(c) \/ (e.coid = c /\ e.kind = "UNKNOWN_STATE")
         /\ EntriesOf(ledger', c) = {} <=> EntriesOf(ledger, c) = {} /\ e.coid # c
         /\ \A i \in DOMAIN ledger' : (i \in DOMAIN ledger /\ ledger'[i] = ledger[i]) \/ ledger'[i] = e
<1> DEFINE n == Len(ledger) + 1
<1>1. /\ DOMAIN ledger = 1..Len(ledger) /\ Len(ledger) \in Nat /\ DOMAIN ledger' = 1..n
      /\ \A i \in DOMAIN ledger : ledger'[i] = ledger[i]
      /\ ledger'[n] = e
  BY AppendProperties, LenProperties
<1>2. n \notin DOMAIN ledger /\ DOMAIN ledger' = DOMAIN ledger \cup {n}
  BY <1>1
<1> HIDE DEF n
<1>3. EntriesOf(ledger', c) = EntriesOf(ledger, c) \cup (IF e.coid = c THEN {n} ELSE {})
  BY <1>1, <1>2 DEF EntriesOf
<1>4. \A i \in EntriesOf(ledger, c) : i \in DOMAIN ledger /\ ledger'[i] = ledger[i]
  BY <1>1 DEF EntriesOf
<1>5. Attempts(ledger', c) = Attempts(ledger, c) \cup
        (IF e.coid = c /\ e.kind = "ORDER_SENT" /\ e.stage = "write_ahead" THEN {n} ELSE {})
  <2>1. \A i : i \in Attempts(ledger', c) <=>
          i \in EntriesOf(ledger', c) /\ ledger'[i].kind = "ORDER_SENT" /\ ledger'[i].stage = "write_ahead"
    BY DEF Attempts, SentOf
  <2>2. \A i : i \in Attempts(ledger, c) <=>
          i \in EntriesOf(ledger, c) /\ ledger[i].kind = "ORDER_SENT" /\ ledger[i].stage = "write_ahead"
    BY DEF Attempts, SentOf
  <2>3. ASSUME NEW i, i \in EntriesOf(ledger, c)
        PROVE  i \in Attempts(ledger', c) <=> i \in Attempts(ledger, c)
    BY <1>3, <1>4, <2>1, <2>2, <2>3
  <2>4. n \in Attempts(ledger', c) <=> e.coid = c /\ e.kind = "ORDER_SENT" /\ e.stage = "write_ahead"
    <3>1. n \in EntriesOf(ledger', c) <=> e.coid = c
      BY <1>1, <1>2 DEF EntriesOf
    <3> QED BY <1>1, <2>1, <3>1
  <2>5. \A i : i \in Attempts(ledger', c) => i \in EntriesOf(ledger, c) \/ i = n
    BY <1>3, <2>1
  <2>6. \A i : i \in Attempts(ledger, c) => i \in EntriesOf(ledger, c)
    BY <2>2
  <2>7. n \notin EntriesOf(ledger, c)
    BY <1>2, <1>4
  <2> QED BY <2>3, <2>4, <2>5, <2>6, <2>7
<1>6. Closed(ledger', c) <=> Closed(ledger, c) \/ (e.coid = c /\ ClosesEntry(e))
  BY <1>1, <1>3, <1>4 DEF Closed
<1>7. Unknown(c)' <=> Unknown(c) \/ (e.coid = c /\ e.kind = "UNKNOWN_STATE")
  BY <1>1, <1>3, <1>4 DEF Unknown
<1>8. EntriesOf(ledger', c) = {} <=> EntriesOf(ledger, c) = {} /\ e.coid # c
  BY <1>3
<1> QED BY <1>1, <1>2, <1>5, <1>6, <1>7, <1>8 DEF n

\* What the ledger says of the intents, apart from the stage of a sending.
SaysTheSame ==
  \A c \in Intents : /\ Attempts(ledger', c) = Attempts(ledger, c)
                     /\ Closed(ledger', c) <=> Closed(ledger, c)
                     /\ Unknown(c)' <=> Unknown(c)

\* An entry that ends c, says so of c and of nobody else.
EndsAs(c, unknown) ==
  \A d \in Intents : /\ Attempts(ledger', d) = Attempts(ledger, d)
                     /\ Closed(ledger', d) <=> Closed(ledger, d) \/ d = c
                     /\ Unknown(d)' <=> Unknown(d) \/ (d = c /\ unknown)
                     /\ d = c => \A i \in Attempts(ledger, d) : EndAfter(d, i)'

LEMMA SaysNothing ==
  ASSUME ledger' = ledger
  PROVE  SaysTheSame /\ (SentFirst => SentFirst')
BY DEF SaysTheSame, Unknown, SentFirst

\* An entry about an intent that has its write-ahead.
LEMMA SentKept ==
  ASSUME ledger \in Seq(Entry), NEW e \in Entry, ledger' = Append(ledger, e), SentFirst,
         e.coid \in Intents => Attempts(ledger', e.coid) # {},
         e.kind = "ORDER_SENT" => e.stage \in Stages
  PROVE  SentFirst'
<1>1. ASSUME NEW c \in Intents, Attempts(ledger', c) = {}
      PROVE  EntriesOf(ledger', c) = {}
  BY <1>1, AppendEffect DEF SentFirst
<1>2. ASSUME NEW i \in DOMAIN ledger', ledger'[i].kind = "ORDER_SENT"
      PROVE  ledger'[i].stage \in Stages
  <2>1. (i \in DOMAIN ledger /\ ledger'[i] = ledger[i]) \/ ledger'[i] = e
    BY AppendEffect
  <2> QED BY <1>2, <2>1 DEF SentFirst
<1> QED BY <1>1, <1>2 DEF SentFirst

\* The two later stages of a sending are neither an attempt nor an end.
LEMMA StageEffect ==
  ASSUME TypeOK, NEW stage \in {"sent_no_ack", "acked"}, NEW o \in {0, op.oid},
         ledger' = Append(ledger, SentEntry(op.cur, stage, o)),
         SentFirst, op.cur \in Intents, Attempts(ledger, op.cur) # {}
  PROVE  SaysTheSame /\ SentFirst'
<1> DEFINE e == SentEntry(op.cur, stage, o)
<1>1. e \in Entry /\ ledger \in Seq(Entry) /\ ledger' = Append(ledger, e)
  BY SentWritable DEF Stages, Writable, TypeOK
<1>2. /\ e.kind = "ORDER_SENT" /\ e.kind # "UNKNOWN_STATE" /\ e.coid = op.cur /\ ~ClosesEntry(e)
      /\ e.stage \in {"sent_no_ack", "acked"} /\ e.stage # "write_ahead"
  BY DEF SentEntry, ClosesEntry, TERMINAL_KINDS
<1> HIDE DEF e
<1>3. ASSUME NEW c PROVE /\ Attempts(ledger', c) = Attempts(ledger, c)
                         /\ Closed(ledger', c) <=> Closed(ledger, c)
                         /\ Unknown(c)' <=> Unknown(c)
  <2>1. ~(e.coid = c /\ e.kind = "ORDER_SENT" /\ e.stage = "write_ahead")
    BY <1>2
  <2>2. /\ Closed(ledger', c) <=> Closed(ledger, c)
        /\ Unknown(c)' <=> Unknown(c)
    BY <1>1, <1>2, AppendEffect
  <2>3. Attempts(ledger', c) = Attempts(ledger, c) \cup
          (IF e.coid = c /\ e.kind = "ORDER_SENT" /\ e.stage = "write_ahead" THEN {Len(ledger) + 1} ELSE {})
    BY <1>1, AppendEffect
  <2>4. Attempts(ledger', c) = Attempts(ledger, c)
    BY <2>1, <2>3
  <2> QED BY <2>2, <2>4
<1>4. SentFirst'
  BY <1>1, <1>2, <1>3, SentKept DEF Stages
<1> QED BY <1>3, <1>4 DEF SaysTheSame

\* The kinds of entries that close.
ClosingKinds == TERMINAL_KINDS \cup {"INTENT_DENIED", "RECONCILE_REPORT"}

LEMMA EndEffect ==
  ASSUME ledger \in Seq(Entry), NEW kind \in ClosingKinds,
         NEW c, NEW o, NEW q, CloseEntry(kind, c, o, q) \in Entry,
         ledger' = Append(ledger, CloseEntry(kind, c, o, q)),
         SentFirst, c \in Intents => Attempts(ledger, c) # {}
  PROVE  EndsAs(c, kind = "UNKNOWN_STATE") /\ SentFirst'
<1> DEFINE e == CloseEntry(kind, c, o, q)
<1>1. e \in Entry /\ ledger' = Append(ledger, e)
  OBVIOUS
<1>2. e.kind = kind /\ e.kind # "ORDER_SENT" /\ e.coid = c /\ ClosesEntry(e)
  BY DEF CloseEntry, ClosesEntry, TERMINAL_KINDS, ClosingKinds
<1> HIDE DEF e
<1>3. ASSUME NEW d PROVE /\ Attempts(ledger', d) = Attempts(ledger, d)
                         /\ Closed(ledger', d) <=> Closed(ledger, d) \/ d = c
                         /\ Unknown(d)' <=> Unknown(d) \/ (d = c /\ kind = "UNKNOWN_STATE")
  BY <1>1, <1>2, AppendEffect
<1>4. SentFirst'
  BY <1>1, <1>2, <1>3, SentKept
<1>5. ASSUME NEW i \in Attempts(ledger, c) PROVE EndAfter(c, i)'
  <2>1. DOMAIN ledger = 1..Len(ledger) /\ Len(ledger) \in Nat /\ DOMAIN ledger' = 1..(Len(ledger) + 1)
        /\ ledger'[Len(ledger) + 1] = e
    BY <1>1, AppendProperties, LenProperties
  <2>2. i \in DOMAIN ledger
    BY DEF Attempts, SentOf, EntriesOf
  <2>3. i < Len(ledger) + 1 /\ Len(ledger) + 1 \in DOMAIN ledger'
    BY <2>1, <2>2
  <2> QED BY <1>2, <2>1, <2>3 DEF EndAfter, EntriesOf
<1> QED BY <1>3, <1>4, <1>5 DEF EndsAs

-----------------------------------------------------------------------------
(* What a step changes in the book *)

\* Order o moves at the broker, and no other.
Moves(o) ==
  /\ DOMAIN book' = DOMAIN book
  /\ book[o].status = "open" /\ book'[o].client = book[o].client
  /\ \A j \in DOMAIN book : j # o => book'[j] = book[j]

BookCalm == book' = book \/ \E o \in DOMAIN book : Moves(o)

\* Intents keep their orders, none that was finished rests again, and one intent is concerned.
LEMMA MoveEffect ==
  ASSUME NEW o \in DOMAIN book, Moves(o), NEW c
  PROVE  /\ OrdersOf(book', c) = OrdersOf(book, c)
         /\ Alive(c)' => Alive(c)
         /\ book[o].client # c => (Alive(c)' <=> Alive(c))
<1>1. OrdersOf(book', c) = OrdersOf(book, c)
  BY DEF Moves, OrdersOf
<1>2. \A j \in OrdersOf(book, c) : j \in DOMAIN book /\ book[j].client = c
  BY DEF OrdersOf
<1>3. \A j \in OrdersOf(book, c) : book'[j].status = "open" => book[j].status = "open"
  BY <1>2 DEF Moves
<1>4. book[o].client # c => \A j \in OrdersOf(book, c) : book'[j] = book[j]
  BY <1>2 DEF Moves
<1> QED BY <1>1, <1>3, <1>4 DEF Alive

LEMMA CalmEffect ==
  ASSUME BookCalm, NEW c
  PROVE  OrdersOf(book', c) = OrdersOf(book, c) /\ (Alive(c)' => Alive(c))
<1>1. CASE book' = book
  BY <1>1 DEF Alive
<1>2. CASE \E o \in DOMAIN book : Moves(o)
  BY <1>2, MoveEffect
<1> QED BY <1>1, <1>2 DEF BookCalm

\* A replaced order moves, if its client stays the same.
LEMMA ReplaceMoves ==
  ASSUME book \in Seq(Order), NEW o \in DOMAIN book, NEW r, r.client = book[o].client,
         book[o].status = "open", book' = [book EXCEPT ![o] = r]
  PROVE  BookCalm
<1>1. DOMAIN book' = DOMAIN book /\ book'[o] = r /\ \A j \in DOMAIN book : j # o => book'[j] = book[j]
  OBVIOUS
<1> QED BY <1>1 DEF BookCalm, Moves

LEMMA CancelCalm ==
  ASSUME book \in Seq(Order), NEW o \in DOMAIN book, book' \in BooksAfterCancel(o)
  PROVE  BookCalm
<1>1. CASE book' = book
  BY <1>1 DEF BookCalm
<1>2. CASE book[o].status = "open" /\ book' = [book EXCEPT ![o].status = "canceled"]
  <2> DEFINE r == [book[o] EXCEPT !.status = "canceled"]
  <2>1. book[o] \in Order
    BY LenProperties
  <2>2. r.client = book[o].client
    BY <2>1 DEF Order
  <2>3. book' = [book EXCEPT ![o] = r]
    BY <1>2
  <2> QED BY <1>2, <2>2, <2>3, ReplaceMoves
<1> QED BY <1>1, <1>2 DEF BooksAfterCancel

LEMMA BrokerCalm ==
  ASSUME book \in Seq(Order), BrokerStep
  PROVE  BookCalm
<1>1. PICK o \in DOMAIN book : BrokerFill(o) \/ BrokerExpire(o)
  BY DEF BrokerStep
<1>2. book[o] \in Order
  BY LenProperties
<1>3. CASE BrokerFill(o)
  <2> DEFINE q == book[o].filled + 1
             r == [book[o] EXCEPT !.filled = q, !.status = IF q = Requested THEN "closed" ELSE "open"]
  <2>1. r.client = book[o].client
    BY <1>2 DEF Order
  <2>2. book' = [book EXCEPT ![o] = r] /\ book[o].status = "open"
    BY <1>3 DEF BrokerFill
  <2> QED BY <2>1, <2>2, ReplaceMoves
<1>4. CASE BrokerExpire(o)
  <2>1. [book[o] EXCEPT !.status = "canceled"].client = book[o].client
    BY <1>2 DEF Order
  <2>2. book' = [book EXCEPT ![o] = [book[o] EXCEPT !.status = "canceled"]] /\ book[o].status = "open"
    BY <1>4 DEF BrokerExpire
  <2> QED BY <2>1, <2>2, ReplaceMoves
<1> QED BY <1>1, <1>3, <1>4

\* create_order gives an intent without orders one at most, and takes no order of another.
LEMMA CreateOne ==
  ASSUME book \in Seq(Order), NEW c \in Intents, book' \in {book} \cup BooksAfterSend(c)
  PROVE  /\ OrdersOf(book, c) = {} => \A o1, o2 \in OrdersOf(book', c) : o1 = o2
         /\ \A d : d # c => OrdersOf(book', d) = OrdersOf(book, d) /\ (Alive(d)' <=> Alive(d))
<1>1. CASE book' = book
  BY <1>1 DEF Alive
<1>2. ASSUME NEW r \in Order, r.client = c, book' = Append(book, r)
      PROVE  /\ OrdersOf(book, c) = {} => \A o1, o2 \in OrdersOf(book', c) : o1 = o2
             /\ \A d : d # c => OrdersOf(book', d) = OrdersOf(book, d) /\ (Alive(d)' <=> Alive(d))
  <2> DEFINE n == Len(book) + 1
  <2>1. /\ DOMAIN book = 1..Len(book) /\ Len(book) \in Nat /\ DOMAIN book' = 1..n
        /\ \A i \in DOMAIN book : book'[i] = book[i]
        /\ book'[n] = r
    BY <1>2, AppendProperties, LenProperties
  <2>2. DOMAIN book' = DOMAIN book \cup {n} /\ n \notin DOMAIN book
    BY <2>1
  <2> HIDE DEF n
  <2>3. OrdersOf(book', c) = OrdersOf(book, c) \cup {n}
    BY <1>2, <2>1, <2>2 DEF OrdersOf
  <2>4. ASSUME NEW d, d # c
        PROVE  OrdersOf(book', d) = OrdersOf(book, d) /\ (Alive(d)' <=> Alive(d))
    <3>1. OrdersOf(book', d) = OrdersOf(book, d)
      BY <1>2, <2>1, <2>2, <2>4 DEF OrdersOf
    <3>2. \A o \in OrdersOf(book, d) : book'[o] = book[o]
      BY <2>1 DEF OrdersOf
    <3> QED BY <3>1, <3>2 DEF Alive
  <2> QED BY <2>3, <2>4
<1>3. /\ [client |-> c, status |-> "open", filled |-> 0] \in Order
      /\ [client |-> c, status |-> "closed", filled |-> Requested] \in Order
  BY ExecutorAssumption DEF Order
<1> QED BY <1>1, <1>2, <1>3 DEF BooksAfterSend

-----------------------------------------------------------------------------
(* What a step of the program comes to *)

\* The intents in flight are those of before, without S.
Grounds(S) == \A d \in Intents : Flies(d)' <=> Flies(d) /\ d \notin S

InStartup(mode) == mode \in {"startup", "reconcile_cancel"}

\* The order in hand stays in hand.
Holds == /\ op'.cur = op.cur /\ run'.todo = run.todo /\ started' = started
         /\ InStartup(op.mode) => InStartup(op'.mode)

\* It is done with: back to the caller, or to the next one.
Returns == /\ run'.todo = run.todo /\ started' = started
           /\ pc' \in {"idle", "strays", "reconcile"}
           /\ InStartup(op.mode) => pc' = "reconcile"

\* The steps, by what they come to for ledger, index, book and the order in hand.
StandsStill == UNCHANGED <<ledger, index, pc, op, run, started>> /\ BookCalm

Admits == /\ pc = "idle" /\ started /\ pc' = "admitted"
          /\ ~Flies(op'.cur)
          /\ UNCHANGED <<ledger, index, run, book, started>>

\* A write-ahead is on record.
NewAttempt == /\ pc = "admitted" /\ op.cur \in Intents
              /\ \A d \in Intents :
                   /\ Attempts(ledger', d) = Attempts(ledger, d) \cup
                        (IF d = op.cur THEN {Len(ledger) + 1} ELSE {})
                   /\ Closed(ledger', d) <=> Closed(ledger, d)
                   /\ Unknown(d)' <=> Unknown(d)
              /\ UNCHANGED book

Sends == /\ NewAttempt /\ pc' = "create"
         /\ \A d \in Intents : Flies(d)' <=> Flies(d) \/ d = op.cur
         /\ UNCHANGED <<op, run, started>>

GoesOn == /\ pc \in Working /\ pc' \in Working \ {"create"} /\ (pc \in Settling => pc' \in Settling)
          /\ SaysTheSame /\ Grounds({}) /\ Holds
          /\ \/ pc # "create" /\ BookCalm
             \/ pc = "create" /\ op.cur \in Intents /\ book' \in {book} \cup BooksAfterSend(op.cur)

\* An end is put on record, of an intent whose one order is not alive.
Ends == /\ pc \in Working /\ op.cur \in Intents
        /\ EndsAs(op.cur, FALSE) /\ Grounds({op.cur})
        /\ Single(op.cur) => ~Alive(op.cur)
        /\ Returns \/ (Holds /\ pc = "settle" /\ pc' = "count")
        /\ UNCHANGED book

GivesUp == /\ pc = "unknown" /\ pc' = "set_halt"
           /\ EndsAs(op.cur, TRUE) /\ Grounds({}) /\ Holds
           /\ UNCHANGED book

ReadsOn == /\ pc = "set_halt" /\ pc' = "put_halt" /\ Grounds({}) /\ Holds
           /\ UNCHANGED <<ledger, book>>

Leaves == /\ \/ pc = "count" /\ Grounds({})
             \/ pc = "put_halt" /\ Grounds({op.cur})
          /\ Returns
          /\ UNCHANGED <<ledger, book>>

Starts == /\ pc = "idle" /\ pc' = "reconcile"
          /\ index' = [c \in Intents |-> Rebuilt(ledger, c)] /\ run'.todo = Pending(index')
          /\ UNCHANGED <<ledger, book, started>>

TakesUp == /\ pc = "reconcile" /\ started' = started
           /\ \E c \in run.todo :
                /\ run'.todo = run.todo \ {c}
                /\ \/ pc' = "reconcile"
                   \/ pc' \in Settling /\ op'.cur = c /\ InStartup(op'.mode)
           /\ Grounds({})
           /\ UNCHANGED <<ledger, book>>

NeverSent == /\ pc = "reconcile" /\ pc' = "reconcile" /\ started' = started
             /\ \E c \in run.todo : /\ run'.todo = run.todo \ {c}
                                    /\ EndsAs(c, FALSE) /\ Grounds({c})
                                    /\ OrdersOf(book, c) = {}
             /\ UNCHANGED book

LooksAround == /\ pc \in {"reconcile", "strays", "policy"} /\ run.todo = {} /\ run'.todo = {}
               /\ pc' \in {"strays", "policy", "idle"} \/ (pc' = "unknown" /\ op'.cur \notin Intents)
               /\ started => started'
               /\ UNCHANGED <<ledger, index>> /\ BookCalm

Dies == /\ pc' = "idle" /\ started' = FALSE /\ run'.todo = {} /\ Grounds(Intents)
        /\ crashes' = Append(crashes, Len(ledger))
        /\ UNCHANGED <<ledger, book>>

Effect == \/ StandsStill \/ Admits \/ Sends \/ GoesOn \/ Ends \/ GivesUp \/ ReadsOn \/ Leaves
          \/ Starts \/ TakesUp \/ NeverSent \/ LooksAround \/ Dies

\* A crash in the middle of an append leaves an entry, or none, in a ledger that is broken.
Breaks == /\ pc' = "idle" /\ UNCHANGED book
          /\ \/ SaysTheSame
             \/ NewAttempt
             \/ \E c \in Intents \cup {NoIntent}, unknown \in BOOLEAN :
                  /\ EndsAs(c, unknown) /\ pc \notin Halting
                  /\ c \in Intents => Flies(c) /\ (unknown \/ (Single(c) => ~Alive(c)))

LEMMA RecordChanged ==
  ASSUME index \in [Intents -> IndexRec], NEW c \in Intents, NEW r, index' = [index EXCEPT ![c] = r]
  PROVE  \A d \in Intents : Flies(d)' <=> IF d = c THEN InFlight(r) ELSE Flies(d)
BY DEF Flies

\* A stage or an order id does not land an intent, and takes none off that had no stage.
LEMMA StageChanged ==
  ASSUME index \in [Intents -> IndexRec], NEW c \in Intents, Flies(c),
         NEW stage \in Stages, NEW o,
         \/ index' = [index EXCEPT ![c].stage = stage]
         \/ index' = [index EXCEPT ![c].stage = stage, ![c].oid = o]
         \/ index' = [index EXCEPT ![c].oid = o]
  PROVE  Grounds({})
<1>1. index[c] \in IndexRec /\ InFlight(index[c]) /\ stage # "-"
  BY DEF Flies, Stages
<1>2. ASSUME NEW r, InFlight(r), index' = [index EXCEPT ![c] = r]
      PROVE  Grounds({})
  BY <1>2, RecordChanged DEF Grounds
<1>3. CASE index' = [index EXCEPT ![c].stage = stage]
  <2> DEFINE r == [index[c] EXCEPT !.stage = stage]
  <2>1. InFlight(r)
    BY <1>1 DEF InFlight, IndexRec
  <2>2. index' = [index EXCEPT ![c] = r]
    BY <1>3
  <2> QED BY <1>2, <2>1, <2>2
<1>4. CASE index' = [index EXCEPT ![c].stage = stage, ![c].oid = o]
  <2> DEFINE r == [index[c] EXCEPT !.stage = stage, !.oid = o]
  <2>1. InFlight(r)
    BY <1>1 DEF InFlight, IndexRec
  <2>2. index' = [index EXCEPT ![c] = r]
    BY <1>4
  <2> QED BY <1>2, <2>1, <2>2
<1>5. CASE index' = [index EXCEPT ![c].oid = o]
  <2> DEFINE r == [index[c] EXCEPT !.oid = o]
  <2>1. InFlight(r)
    BY <1>1 DEF InFlight, IndexRec
  <2>2. index' = [index EXCEPT ![c] = r]
    BY <1>5
  <2> QED BY <1>2, <2>1, <2>2
<1> QED BY <1>3, <1>4, <1>5

LEMMA CloseIndexGrounds ==
  ASSUME TypeOK, NEW o \in Nat, CloseIndex(o)
  PROVE  Grounds({op.cur})
<1>1. index \in [Intents -> IndexRec]
  BY DEF TypeOK
<1>2. CASE op.cur = NoIntent
  BY <1>1, <1>2, ExecutorAssumption DEF CloseIndex, Grounds, Flies
<1>3. CASE op.cur # NoIntent
  <2> DEFINE r == [index[op.cur] EXCEPT !.terminal = TRUE, !.oid = IF o = 0 THEN index[op.cur].oid ELSE o]
  <2>1. op.cur \in Intents
    BY <1>3 DEF TypeOK, Op
  <2>2. index' = [index EXCEPT ![op.cur] = r]
    BY <1>3 DEF CloseIndex
  <2>3. ~InFlight(r)
    BY <1>1, <2>1 DEF IndexRec, InFlight
  <2> HIDE DEF r
  <2> QED BY <1>1, <2>1, <2>2, <2>3, RecordChanged DEF Grounds
<1> QED BY <1>2, <1>3

LEMMA TellTodo ==
  ASSUME TypeOK, NEW o, NEW q, NEW status, Tell(status, o, q)
  PROVE  run'.todo = run.todo
<1>1. run \in Run
  BY DEF TypeOK
<1>2. CASE op.mode = "execute"
  BY <1>2 DEF Tell
<1>3. CASE op.mode # "execute"
  <2>1. run' = [run EXCEPT !.found = TRUE,
                           !.unknown = @ \/ (status = "UNKNOWN" /\ op.mode # "reconcile_cancel")]
    BY <1>3 DEF Tell
  <2> QED BY <1>1, <2>1 DEF Run
<1> QED BY <1>2, <1>3

LEMMA TellReturns ==
  ASSUME TypeOK, NEW o, NEW q, NEW status, Tell(status, o, q), Return, started' = started
  PROVE  Returns
<1>1. run'.todo = run.todo
  BY TellTodo
<1>2. pc' \in {"idle", "strays", "reconcile"} /\ (InStartup(op.mode) => pc' = "reconcile")
  BY DEF Return, InStartup
<1> QED BY <1>1, <1>2 DEF Returns

\* While durable writes work, one that may fail does not.
LEMMA NoFault ==
  ASSUME TypeOK, disk = "ok", faults = 0, faults' = 0, NEW e
  PROVE  ~AppendRaises(e) /\ (BestEffort(e) => Appends(e))
BY DEF AppendRaises, BestEffort, Fault

\* What every step may use of the state it starts in.
LEMMA InHand ==
  ASSUME IInv, Accounted, faults = 0, disk = "ok"
  PROVE  /\ TypeOK /\ OrdersInHand /\ OwnOrdersNamed /\ WriteAheadDurable
         /\ SentFirst /\ IndexFollows /\ AtWork /\ OneOrder /\ Repeats /\ Resolved /\ CutOff /\ CrashesPast
         /\ op \in Op /\ op.oid \in Nat /\ op.cur \in Intents \cup {NoIntent} /\ NoIntent \notin Intents
         /\ run \in Run /\ run.todo \subseteq Intents /\ run.strays \subseteq DOMAIN book
         /\ index \in [Intents -> IndexRec] /\ ledger \in Seq(Entry) /\ book \in Seq(Order)
         /\ pc \in HoldsIntent => op.cur \in Intents
         /\ pc \in Working /\ op.cur \in Intents => Flies(op.cur) /\ Attempts(ledger, op.cur) # {}
<1>1. /\ TypeOK /\ OrdersInHand /\ OwnOrdersNamed /\ WriteAheadDurable
      /\ SentFirst /\ IndexFollows /\ AtWork /\ OneOrder /\ Repeats /\ Resolved /\ CutOff /\ CrashesPast
  BY DEF IInv, Accounted, Sound
<1>2. /\ op \in Op /\ op.oid \in Nat /\ op.cur \in Intents \cup {NoIntent} /\ NoIntent \notin Intents
      /\ run \in Run /\ run.todo \subseteq Intents /\ run.strays \subseteq DOMAIN book
      /\ index \in [Intents -> IndexRec] /\ ledger \in Seq(Entry) /\ book \in Seq(Order)
  BY <1>1, ExecutorAssumption DEF TypeOK, Op, Run, OrdersInHand
<1>3. pc \in HoldsIntent => op.cur \in Intents
  BY <1>1 DEF OrdersInHand
<1>4. pc \in Working /\ op.cur \in Intents => Flies(op.cur) /\ Attempts(ledger, op.cur) # {}
  BY <1>1 DEF AtWork, IndexFollows
<1> QED BY <1>1, <1>2, <1>3, <1>4

\* A write-ahead is an attempt of the intent in hand, and says no more.
LEMMA AttemptEffect ==
  ASSUME TypeOK, SentFirst, pc = "admitted", op.cur \in Intents, book' = book,
         ledger' = Append(ledger, SentEntry(op.cur, "write_ahead", 0))
  PROVE  NewAttempt /\ SentFirst'
<1> DEFINE e == SentEntry(op.cur, "write_ahead", 0)
<1>1. ledger \in Seq(Entry) /\ e \in Entry /\ ledger' = Append(ledger, e)
  BY SentWritable DEF Stages, Writable, TypeOK
<1>2. /\ e.kind = "ORDER_SENT" /\ e.stage = "write_ahead" /\ e.stage \in Stages /\ e.coid = op.cur
      /\ ~ClosesEntry(e) /\ e.kind # "UNKNOWN_STATE"
  BY DEF SentEntry, ClosesEntry, TERMINAL_KINDS, Stages
<1> HIDE DEF e
<1>3. ASSUME NEW d \in Intents
      PROVE  /\ Attempts(ledger', d) = Attempts(ledger, d) \cup (IF d = op.cur THEN {Len(ledger) + 1} ELSE {})
             /\ Closed(ledger', d) <=> Closed(ledger, d)
             /\ Unknown(d)' <=> Unknown(d)
  <2>1. Attempts(ledger', d) = Attempts(ledger, d) \cup
          (IF e.coid = d /\ e.kind = "ORDER_SENT" /\ e.stage = "write_ahead" THEN {Len(ledger) + 1} ELSE {})
    BY <1>1, AppendEffect
  <2>2. /\ Closed(ledger', d) <=> Closed(ledger, d)
        /\ Unknown(d)' <=> Unknown(d)
    BY <1>1, <1>2, AppendEffect
  <2> QED BY <1>2, <2>1, <2>2
<1>4. SentFirst'
  BY <1>1, <1>2, <1>3, SentKept
<1> QED BY <1>3, <1>4 DEF NewAttempt

\* The statements of execute() after the gates.
LEMMA ExecuteEffect ==
  ASSUME IInv, Accounted, disk = "ok", faults = 0, faults' = 0, ExecuteStep
  PROVE  Effect /\ SentFirst'
<1>0. /\ TypeOK /\ OrdersInHand /\ SentFirst /\ OneOrder
      /\ op \in Op /\ op.oid \in Nat /\ ledger \in Seq(Entry) /\ index \in [Intents -> IndexRec]
      /\ pc \in HoldsIntent => op.cur \in Intents
      /\ pc \in Working /\ op.cur \in Intents => Flies(op.cur) /\ Attempts(ledger, op.cur) # {}
  BY InHand
<1>1. CASE WriteAhead
  <2> DEFINE r == [stage |-> "write_ahead", oid |-> 0, terminal |-> FALSE]
  <2>1. /\ op.cur \in Intents /\ pc = "admitted" /\ book' = book
        /\ ledger' = Append(ledger, SentEntry(op.cur, "write_ahead", 0))
    BY <1>0, <1>1 DEF WriteAhead, Appends, HoldsIntent
  <2>2. NewAttempt /\ SentFirst'
    BY <1>0, <2>1, AttemptEffect
  <2>3. InFlight(r) /\ index' = [index EXCEPT ![op.cur] = r]
    BY <1>1 DEF WriteAhead, InFlight
  <2> HIDE DEF r
  <2>4. \A d \in Intents : Flies(d)' <=> Flies(d) \/ d = op.cur
    BY <1>0, <2>1, <2>3, RecordChanged
  <2>5. Sends
    BY <1>1, <2>2, <2>4 DEF Sends, WriteAhead, Goto
  <2> QED BY <2>2, <2>5 DEF Effect
<1>2. ASSUME pc \in {"create", "lookup_maybe"}, OrdersOf(book, op.cur) = {} \/ pc = "create",
             BestEffort(CloseEntry("INTENT_DENIED", op.cur, 0, 0)), CloseIndex(0),
             Tell("DENIED", 0, 0), Return, UNCHANGED <<book, started>>
      PROVE  Effect /\ SentFirst'
  <2>1. /\ op.cur \in Intents /\ pc \in Working
        /\ ledger' = Append(ledger, CloseEntry("INTENT_DENIED", op.cur, 0, 0))
    BY <1>0, <1>2, NoFault DEF Appends, HoldsIntent, Working
  <2>2. CloseEntry("INTENT_DENIED", op.cur, 0, 0) \in Entry
    BY <1>0, <2>1, CloseWritable DEF Writable, Kinds, FinalKinds
  <2>3. EndsAs(op.cur, FALSE) /\ SentFirst'
    BY <1>0, <2>1, <2>2, EndEffect DEF ClosingKinds
  <2>4. Grounds({op.cur}) /\ Returns
    BY <1>0, <1>2, CloseIndexGrounds, TellReturns
  <2>5. Single(op.cur) => ~Alive(op.cur)
    BY <1>0, <1>2, <2>1 DEF OneOrder, Alive
  <2>6. Ends
    BY <1>2, <2>1, <2>3, <2>4, <2>5 DEF Ends
  <2> QED BY <2>3, <2>6 DEF Effect
<1>3. CASE CreateRejected \/ LookupNone
  BY <1>2, <1>3 DEF CreateRejected, LookupNone
<1>4. ASSUME pc \in {"create", "lookup_maybe", "lookup_raised"}, pc' \in {"maybe_sent", "raised", "ack", "unknown"},
             op'.cur = op.cur, op'.mode = op.mode, UNCHANGED <<ledger, index, run, started>>,
             book' = book \/ (pc = "create" /\ book' \in {book} \cup BooksAfterSend(op.cur))
      PROVE  Effect /\ SentFirst'
  <2>1. SaysTheSame /\ SentFirst'
    BY <1>0, <1>4, SaysNothing
  <2>2. Grounds({}) /\ op.cur \in Intents
    BY <1>0, <1>4 DEF Grounds, Flies, HoldsIntent
  <2>3. GoesOn
    BY <1>4, <2>1, <2>2 DEF GoesOn, Working, Settling, Holds, BookCalm
  <2> QED BY <2>1, <2>3 DEF Effect
<1>5. CASE CreateAcked
  <2>1. PICK b \in BooksAfterSend(op.cur) :
          book' = b /\ \E s \in Answers(b, Max(OrdersOf(b, op.cur))) :
            op' = [op EXCEPT !.oid = Max(OrdersOf(b, op.cur)), !.seen = s]
    BY <1>5 DEF CreateAcked
  <2>2. op'.cur = op.cur /\ op'.mode = op.mode
    BY <1>0, <2>1 DEF Op
  <2> QED BY <1>4, <1>5, <2>1, <2>2 DEF CreateAcked, Goto, durable
<1>6. CASE CreateUncertain("maybe_sent") \/ CreateUncertain("raised")
  BY <1>4, <1>6 DEF CreateUncertain, Goto, durable
<1>7. CASE LookupFound
  <2>1. PICK s \in Answers(book, Max(OrdersOf(book, op.cur))) :
          op' = [op EXCEPT !.oid = Max(OrdersOf(book, op.cur)), !.seen = s]
    BY <1>7 DEF LookupFound
  <2>2. op'.cur = op.cur /\ op'.mode = op.mode
    BY <1>0, <2>1 DEF Op
  <2> QED BY <1>4, <1>7, <2>2 DEF LookupFound, Goto, durable
<1>8. CASE LookupUncertain
  BY <1>4, <1>8 DEF LookupUncertain, Goto, durable
<1>9. ASSUME pc \in {"maybe_sent", "raised", "ack"}, pc' \in {"lookup_maybe", "lookup_raised", "settle"},
             NEW stage \in {"sent_no_ack", "acked"}, NEW o \in {0, op.oid},
             ledger' = Append(ledger, SentEntry(op.cur, stage, o)),
             \/ index' = [index EXCEPT ![op.cur].stage = stage]
             \/ index' = [index EXCEPT ![op.cur].stage = stage, ![op.cur].oid = o],
             UNCHANGED <<book, op, run, started>>
      PROVE  Effect /\ SentFirst'
  <2>1. pc \in Working /\ op.cur \in Intents
    BY <1>0, <1>9 DEF Working, HoldsIntent, HoldsOrder
  <2>2. SaysTheSame /\ SentFirst'
    BY <1>0, <1>9, <2>1, StageEffect
  <2>3. Grounds({})
    BY <1>0, <1>9, <2>1, StageChanged DEF Stages
  <2>4. GoesOn
    BY <1>9, <2>1, <2>2, <2>3 DEF GoesOn, Working, Settling, Holds, BookCalm
  <2> QED BY <2>2, <2>4 DEF Effect
<1>10. CASE SentNoAck
  BY <1>9, <1>10 DEF SentNoAck, Appends, Goto
<1>11. CASE Ack
  BY <1>9, <1>11 DEF Ack, Appends, Goto
<1>12. CASE WriteAheadFails
  BY <1>0, <1>12, NoFault DEF WriteAheadFails
<1> QED BY <1>1, <1>3, <1>5, <1>6, <1>7, <1>8, <1>10, <1>11, <1>12 DEF ExecuteStep

\* A final answer about the one order of the intent says that none is alive.
LEMMA FinishedIsDead ==
  ASSUME TypeOK, OrdersInHand, OneOrder, pc = "settle", Finished(op.seen)
  PROVE  Single(op.cur) => ~Alive(op.cur)
<1>1. op.cur \in Intents /\ op.oid \in OrdersOf(book, op.cur) /\ op.seen = Truth(book, op.oid)
  BY OrderInHand DEF OrdersInHand, HoldsOrder
<1>2. book[op.oid].status # "open"
  BY <1>1 DEF Truth, Finished, Filled, Unfilled
<1>3. Single(op.cur) => \A o1, o2 \in OrdersOf(book, op.cur) : o1 = o2
  BY <1>1 DEF OneOrder
<1> QED BY <1>1, <1>2, <1>3 DEF Alive

\* _settle, _finalize_if_terminal, _record_fill and _unknown.
LEMMA SettleEffect ==
  ASSUME IInv, Accounted, disk = "ok", faults = 0, faults' = 0, SettleStep
  PROVE  Effect /\ SentFirst'
<1>0. /\ TypeOK /\ OrdersInHand /\ SentFirst /\ OneOrder
      /\ op \in Op /\ op.oid \in Nat /\ op.cur \in Intents \cup {NoIntent} /\ NoIntent \notin Intents
      /\ ledger \in Seq(Entry) /\ index \in [Intents -> IndexRec] /\ book \in Seq(Order)
      /\ pc \in HoldsIntent => op.cur \in Intents
      /\ pc \in Working /\ op.cur \in Intents => Flies(op.cur) /\ Attempts(ledger, op.cur) # {}
  BY InHand
<1>1. ASSUME pc = "settle", Finished(op.seen), NEW kind \in ClosingKinds \ {"UNKNOWN_STATE"}, NEW q,
             CloseEntry(kind, op.cur, op.oid, q) \in Entry,
             ledger' = Append(ledger, CloseEntry(kind, op.cur, op.oid, q)),
             NEW o \in Nat, CloseIndex(o),
             Returns \/ (Holds /\ pc' = "count"), book' = book
      PROVE  Effect /\ SentFirst'
  <2>1. op.cur \in Intents /\ pc \in Working
    BY <1>0, <1>1 DEF HoldsIntent, HoldsOrder, Working
  <2>2. EndsAs(op.cur, FALSE) /\ SentFirst'
    BY <1>0, <1>1, <2>1, EndEffect
  <2>3. Grounds({op.cur})
    BY <1>0, <1>1, CloseIndexGrounds
  <2>4. Single(op.cur) => ~Alive(op.cur)
    BY <1>0, <1>1, FinishedIsDead
  <2>5. Ends
    BY <1>1, <2>1, <2>2, <2>3, <2>4 DEF Ends
  <2> QED BY <2>2, <2>5 DEF Effect
<1>2. CASE RecordFill
  <2>1. FillKind(op.seen) \in ClosingKinds \ {"UNKNOWN_STATE"} /\ Finished(op.seen)
    BY <1>2 DEF RecordFill, FillKind, ClosingKinds, TERMINAL_KINDS, Finished
  <2>2. FillEntry \in Entry
    BY <1>0, <1>2, FillWritable DEF RecordFill, Writable
  <2>3. Holds /\ pc' = "count"
    BY <1>2 DEF RecordFill, Holds, Goto
  <2> QED BY <1>0, <1>1, <1>2, <2>1, <2>2, <2>3 DEF RecordFill, FillEntry, Appends
<1>3. CASE RecordNoFill
  <2>1. Finished(op.seen) /\ CloseEntry("NO_FILL_CANCELED", op.cur, op.oid, 0) \in Entry
    BY <1>0, <1>3, NoFillWritable DEF RecordNoFill, Finished, Writable
  <2>2. Returns
    BY <1>0, <1>3, TellReturns DEF RecordNoFill
  <2>3. "NO_FILL_CANCELED" \in ClosingKinds \ {"UNKNOWN_STATE"} /\ 0 \in Nat
    BY DEF ClosingKinds, TERMINAL_KINDS
  <2> QED BY <1>1, <1>3, <2>1, <2>2, <2>3 DEF RecordNoFill, Appends
<1>4. CASE CountFill
  <2>1. Returns
    BY <1>0, <1>4, TellReturns DEF CountFill
  <2>2. Leaves
    BY <1>4, <2>1 DEF CountFill, Leaves, Grounds, Flies
  <2> QED BY <1>0, <1>4, <2>2, SaysNothing DEF CountFill, Effect
<1>5. CASE CountFillRaises
  BY <1>5 DEF CountFillRaises, Fault
<1>6. ASSUME pc \in {"settle", "cancel", "reread"}, pc' \in Settling, op'.cur = op.cur,
             InStartup(op.mode) => InStartup(op'.mode), UNCHANGED <<ledger, index, run, started>>, BookCalm
      PROVE  Effect /\ SentFirst'
  <2>1. SaysTheSame /\ SentFirst' /\ Grounds({})
    BY <1>0, <1>6, SaysNothing DEF Grounds, Flies
  <2>2. GoesOn
    BY <1>6, <2>1 DEF GoesOn, Working, Settling, Holds
  <2> QED BY <2>1, <2>2 DEF Effect
<1>7. CASE Poll
  <2>1. op' = op \/ \E s \in Answers(book, op.oid) : op' = [op EXCEPT !.seen = s, !.polls = op.polls + 1]
    BY <1>7 DEF Poll, PollIf
  <2>2. op'.cur = op.cur /\ op'.mode = op.mode
    BY <1>0, <2>1 DEF Op
  <2> QED BY <1>6, <1>7, <2>2 DEF Poll, PollIf, Goto, durable, BookCalm, Settling
<1>8. CASE Timeout \/ OutsideTheMachine
  BY <1>6, <1>8 DEF Timeout, OutsideTheMachine, Goto, durable, BookCalm, Settling
<1>9. CASE Cancel
  <2>1. op.oid \in DOMAIN book
    BY <1>9, <1>0, OrderInHand DEF Cancel, HoldsOrder
  <2>2. BookCalm
    BY <1>0, <1>9, <2>1, CancelCalm DEF Cancel
  <2> QED BY <1>6, <1>9, <2>2 DEF Cancel, durable, Settling
<1>10. CASE Reread
  <2>1. op' = op \/ \E s \in Answers(book, op.oid) :
          op' = [op EXCEPT !.seen = s, !.mode = IF op.mode = "startup" THEN "reconcile_cancel" ELSE op.mode]
    BY <1>10 DEF Reread
  <2>2. op'.cur = op.cur /\ (InStartup(op.mode) => InStartup(op'.mode))
    BY <1>0, <2>1 DEF Op, InStartup
  <2> QED BY <1>6, <1>10, <2>2 DEF Reread, Goto, durable, BookCalm, Settling
<1>11. CASE RecordUnknown
  <2>1. ledger' = Append(ledger, CloseEntry("UNKNOWN_STATE", op.cur, op.oid, 0)) /\ pc \in Working
    BY <1>0, <1>11, NoFault DEF RecordUnknown, Appends, Working
  <2>2. CloseEntry("UNKNOWN_STATE", op.cur, op.oid, 0) \in Entry
    BY <1>0, CloseWritable DEF Writable, Kinds, FinalKinds, TERMINAL_KINDS
  <2>3. "UNKNOWN_STATE" \in ClosingKinds
    BY DEF ClosingKinds, TERMINAL_KINDS
  <2>4. EndsAs(op.cur, TRUE) /\ SentFirst'
    BY <1>0, <2>1, <2>2, <2>3, EndEffect
  <2>5. GivesUp
    BY <1>11, <2>4 DEF RecordUnknown, GivesUp, Goto, Holds, Grounds, Flies
  <2> QED BY <2>4, <2>5 DEF Effect
<1>12. CASE HaltOnUnknown
  <2>1. Returns /\ Grounds({op.cur})
    BY <1>0, <1>12, TellReturns, CloseIndexGrounds DEF HaltOnUnknown
  <2>2. Leaves
    BY <1>12, <2>1 DEF HaltOnUnknown, Leaves
  <2> QED BY <1>0, <1>12, <2>2, SaysNothing DEF HaltOnUnknown, Effect
<1>13. CASE ReadHalt
  <2>1. op'.cur = op.cur /\ op'.mode = op.mode
    BY <1>0, <1>13 DEF ReadHalt, Op
  <2>2. Grounds({}) /\ UNCHANGED <<ledger, book, run, started>>
    BY <1>13 DEF ReadHalt, Grounds, Flies, durable
  <2>3. ReadsOn
    BY <1>13, <2>1, <2>2 DEF ReadHalt, ReadsOn, Holds, Goto
  <2> QED BY <1>0, <2>2, <2>3, SaysNothing DEF Effect
<1> QED BY <1>2, <1>3, <1>4, <1>5, <1>7, <1>8, <1>9, <1>10, <1>11, <1>12, <1>13 DEF SettleStep

\* startup() after it has read the ledger.
LEMMA ReconcileEffect ==
  ASSUME IInv, Accounted, disk = "ok", faults = 0, faults' = 0, ReconcileStep
  PROVE  Effect /\ SentFirst'
<1>0. /\ TypeOK /\ OrdersInHand /\ OwnOrdersNamed /\ SentFirst /\ IndexFollows /\ AtWork
      /\ op \in Op /\ NoIntent \notin Intents /\ run \in Run /\ run.todo \subseteq Intents
      /\ run.strays \subseteq DOMAIN book
      /\ ledger \in Seq(Entry) /\ index \in [Intents -> IndexRec] /\ book \in Seq(Order)
  BY InHand
<1>1. \A c : [run EXCEPT !.todo = @ \ {c}, !.found = TRUE].todo = run.todo \ {c}
  BY <1>0 DEF Run
<1>2. \A c, o, s : /\ [NoOp EXCEPT !.cur = c, !.oid = o, !.mode = "startup"].cur = c
                   /\ [NoOp EXCEPT !.cur = c, !.oid = o, !.mode = "startup"].mode = "startup"
                   /\ [NoOp EXCEPT !.cur = c, !.oid = o, !.seen = s, !.mode = "startup"].cur = c
                   /\ [NoOp EXCEPT !.cur = c, !.oid = o, !.seen = s, !.mode = "startup"].mode = "startup"
  BY DEF NoOp
<1>3. ASSUME NEW c \in run.todo, ReconcileError(c)
      PROVE  Effect /\ SentFirst'
  <2>1. run'.todo = run.todo \ {c} /\ op'.cur = c /\ op'.mode = "startup"
    BY <1>1, <1>2, <1>3 DEF ReconcileError
  <2>2. TakesUp
    BY <1>3, <2>1 DEF ReconcileError, Reconciling, Goto, TakesUp, InStartup, Grounds, Flies, durable, Settling
  <2> QED BY <1>0, <1>3, <2>2, SaysNothing DEF ReconcileError, Effect, durable
<1>4. ASSUME NEW c \in run.todo, ReconcileNone(c)
      PROVE  Effect /\ SentFirst'
  <2>1. c \in Intents /\ Attempts(ledger, c) # {}
    BY <1>0 DEF AtWork, IndexFollows
  <2>2. "RECONCILE_REPORT" \in ClosingKinds /\ "RECONCILE_REPORT" \in Kinds
        /\ "RECONCILE_REPORT" \notin FinalKinds
    BY DEF ClosingKinds, Kinds, FinalKinds
  <2>3. CloseEntry("RECONCILE_REPORT", c, 0, 0) \in Entry
    BY <1>0, <2>1, <2>2, CloseWritable DEF Writable
  <2>4. EndsAs(c, FALSE) /\ SentFirst'
    BY <1>0, <1>4, <2>1, <2>2, <2>3, EndEffect DEF ReconcileNone, Appends
  <2>5. Grounds({c})
    <3> DEFINE r == [index[c] EXCEPT !.terminal = TRUE]
    <3>1. index' = [index EXCEPT ![c] = r]
      BY <1>4 DEF ReconcileNone
    <3>2. ~InFlight(r)
      BY <1>0, <2>1 DEF IndexRec, InFlight
    <3> HIDE DEF r
    <3> QED BY <1>0, <2>1, <3>1, <3>2, RecordChanged DEF Grounds
  <2>6. run'.todo = run.todo \ {c}
    BY <1>1, <1>4 DEF ReconcileNone
  <2>7. NeverSent
    BY <1>4, <2>4, <2>5, <2>6 DEF NeverSent, ReconcileNone, Reconciling
  <2> QED BY <2>4, <2>7 DEF Effect
<1>5. ASSUME NEW c \in run.todo, ReconcileFound(c)
      PROVE  Effect /\ SentFirst'
  <2>a. PICK o \in Findable(c) : \E s \in Answers(book, o) :
          /\ index' = [index EXCEPT ![c].oid = o]
          /\ \/ UNCHANGED <<pc, op>>
             \/ /\ op' = [NoOp EXCEPT !.cur = c, !.oid = o, !.seen = s, !.mode = "startup"]
                /\ Goto(IF s.status = "open" THEN "cancel" ELSE "settle")
    BY <1>5 DEF ReconcileFound
  <2>1. PICK s \in Answers(book, o) :
          /\ index' = [index EXCEPT ![c].oid = o]
          /\ \/ UNCHANGED <<pc, op>>
             \/ /\ op' = [NoOp EXCEPT !.cur = c, !.oid = o, !.seen = s, !.mode = "startup"]
                /\ Goto(IF s.status = "open" THEN "cancel" ELSE "settle")
    BY <2>a
  <2>2. c \in Intents /\ Flies(c)
    BY <1>0 DEF AtWork
  <2>3. Grounds({})
    BY <1>0, <2>1, <2>2, StageChanged DEF Stages
  <2>4. run'.todo = run.todo \ {c}
    BY <1>1, <1>5 DEF ReconcileFound
  <2>5. pc = "reconcile" /\ UNCHANGED <<ledger, book, started>>
    BY <1>5 DEF ReconcileFound, Reconciling, durable
  <2>6. pc' = "reconcile" \/ (pc' \in Settling /\ op'.cur = c /\ InStartup(op'.mode))
    <3>1. CASE UNCHANGED <<pc, op>>
      BY <2>5, <3>1
    <3>2. CASE /\ op' = [NoOp EXCEPT !.cur = c, !.oid = o, !.seen = s, !.mode = "startup"]
               /\ Goto(IF s.status = "open" THEN "cancel" ELSE "settle")
      <4>1. op'.cur = c /\ op'.mode = "startup"
        BY <1>2, <3>2
      <4>2. pc' \in {"cancel", "settle"}
        BY <3>2 DEF Goto
      <4> QED BY <4>1, <4>2 DEF InStartup, Settling
    <3> QED BY <2>1, <3>1, <3>2
  <2>7. TakesUp
    BY <2>3, <2>4, <2>5, <2>6 DEF TakesUp
  <2> QED BY <1>0, <2>5, <2>7, SaysNothing DEF Effect
<1>6. ASSUME NEW c \in run.todo, LeftOpenRaises(c)
      PROVE  FALSE
  BY <1>6 DEF LeftOpenRaises, OtherAppendRaises, Fault
<1>7. CASE ScanOpenOrders
  <2>1. run'.todo = run.todo
    BY <1>0, <1>7 DEF ScanOpenOrders, Run
  <2>2. LooksAround
    BY <1>7, <2>1 DEF ScanOpenOrders, LooksAround, Goto, BookCalm, durable
  <2> QED BY <1>0, <1>7, <2>2, SaysNothing DEF ScanOpenOrders, Effect, durable
<1>8. ASSUME NEW o \in run.strays, StrayOrder(o)
      PROVE  Effect /\ SentFirst'
  <2>1. BookCalm
    BY <1>0, <1>8, CancelCalm DEF StrayOrder
  <2>2. run.todo = {} /\ run'.todo = run.todo
    BY <1>0, <1>8 DEF AtWork, StrayOrder, Settling, Halting, Run
  <2>3. op'.cur = NoIntent
    BY <1>8 DEF StrayOrder, NoOp
  <2>4. LooksAround
    BY <1>0, <1>8, <2>1, <2>2, <2>3 DEF StrayOrder, LooksAround, Goto, durable
  <2> QED BY <1>0, <1>8, <2>4, SaysNothing DEF StrayOrder, Effect, durable
<1>9. CASE HaltPolicy
  <2>1. run.todo = {} /\ run'.todo = {}
    BY <1>0, <1>9 DEF AtWork, HaltPolicy, Settling, Halting, NoRun
  <2>2. LooksAround
    BY <1>9, <2>1 DEF HaltPolicy, LooksAround, Goto, BookCalm
  <2> QED BY <1>0, <1>9, <2>2, SaysNothing DEF HaltPolicy, Effect
<1>10. ~PolicyRaises
  BY DEF PolicyRaises, OtherAppendRaises, Fault
<1>11. CASE StrayRaises
  <2>1. run.todo = {} /\ run'.todo = {}
    BY <1>0, <1>11 DEF AtWork, StrayRaises, Abandon, Settling, Halting, NoRun
  <2>2. LooksAround
    BY <1>11, <2>1 DEF StrayRaises, LooksAround, Abandon, Goto, BookCalm, durable
  <2> QED BY <1>0, <1>11, <2>2, SaysNothing DEF StrayRaises, Effect, durable
<1>12. CASE Summary
  <2>1. run.todo = {} /\ run'.todo = {}
    BY <1>0, <1>12 DEF AtWork, Summary, Settling, Halting
  <2>2. LooksAround
    BY <1>12, <2>1 DEF Summary, LooksAround, Goto, BookCalm, durable
  <2> QED BY <1>0, <1>12, <2>2, SaysNothing DEF Summary, Effect, durable
<1> QED BY <1>3, <1>4, <1>5, <1>6, <1>7, <1>8, <1>9, <1>10, <1>11, <1>12 DEF ReconcileStep

\* A crash in the middle of an append leaves what the append would have left, or nothing.
LEMMA BreaksEffect ==
  ASSUME IInv, Accounted, disk = "ok", faults = 0, Crash
  PROVE  Breaks /\ SentFirst'
<1>0. /\ TypeOK /\ OrdersInHand /\ SentFirst /\ OneOrder /\ AtWork /\ IndexFollows
      /\ op \in Op /\ op.oid \in Nat /\ op.cur \in Intents \cup {NoIntent} /\ ledger \in Seq(Entry)
      /\ run.todo \subseteq Intents
      /\ pc \in HoldsIntent => op.cur \in Intents
      /\ pc \in Working /\ op.cur \in Intents => Flies(op.cur) /\ Attempts(ledger, op.cur) # {}
  BY InHand
<1>1. pc' = "idle" /\ book' = book
  BY DEF Crash, Abandon, Goto
<1>2. CASE ledger' = ledger
  BY <1>0, <1>1, <1>2, SaysNothing DEF Breaks
<1>3. ASSUME NEW stage \in {"sent_no_ack", "acked"}, NEW o \in {0, op.oid},
             pc \in {"maybe_sent", "raised", "ack"}, ledger' = Append(ledger, SentEntry(op.cur, stage, o))
      PROVE  Breaks /\ SentFirst'
  <2>1. op.cur \in Intents /\ Attempts(ledger, op.cur) # {}
    BY <1>0, <1>3 DEF HoldsIntent, HoldsOrder, Working
  <2>2. SaysTheSame /\ SentFirst'
    BY <1>0, <1>3, <2>1, StageEffect
  <2> QED BY <1>1, <2>2 DEF Breaks
<1>4. ASSUME NEW kind \in ClosingKinds, NEW c \in Intents \cup {NoIntent}, NEW o, NEW q,
             CloseEntry(kind, c, o, q) \in Entry, ledger' = Append(ledger, CloseEntry(kind, c, o, q)),
             pc \notin Halting,
             c \in Intents => Flies(c) /\ (kind = "UNKNOWN_STATE" \/ (Single(c) => ~Alive(c)))
      PROVE  Breaks /\ SentFirst'
  <2>1. c \in Intents => Attempts(ledger, c) # {}
    BY <1>0, <1>4 DEF IndexFollows
  <2>2. EndsAs(c, kind = "UNKNOWN_STATE") /\ SentFirst'
    BY <1>0, <1>4, <2>1, EndEffect
  <2>3. \E unknown \in BOOLEAN : /\ EndsAs(c, unknown)
                                 /\ c \in Intents => Flies(c) /\ (unknown \/ (Single(c) => ~Alive(c)))
    BY <1>4, <2>2
  <2> QED BY <1>1, <1>4, <2>2, <2>3 DEF Breaks
<1>5. CASE pc = "admitted" /\ ledger' = Append(ledger, SentEntry(op.cur, "write_ahead", 0))
  <2>1. NewAttempt /\ SentFirst'
    BY <1>0, <1>1, <1>5, AttemptEffect DEF HoldsIntent
  <2> QED BY <1>1, <2>1 DEF Breaks
<1>a. /\ {"INTENT_DENIED", "RECONCILE_REPORT", "UNKNOWN_STATE", "NO_FILL_CANCELED"} \subseteq ClosingKinds
      /\ {"INTENT_DENIED", "RECONCILE_REPORT", "UNKNOWN_STATE"} \subseteq Kinds \ FinalKinds
  BY DEF ClosingKinds, TERMINAL_KINDS, Kinds, FinalKinds
<1>6. ASSUME pc \in {"create", "lookup_maybe"}, OrdersOf(book, op.cur) = {} \/ pc = "create",
             ledger' = Append(ledger, CloseEntry("INTENT_DENIED", op.cur, 0, 0))
      PROVE  Breaks /\ SentFirst'
  <2>1. op.cur \in Intents /\ Flies(op.cur) /\ pc \notin Halting
    BY <1>0, <1>6 DEF HoldsIntent, Working, Halting
  <2>2. Single(op.cur) => ~Alive(op.cur)
    BY <1>0, <1>6, <2>1 DEF OneOrder, Alive
  <2>3. CloseEntry("INTENT_DENIED", op.cur, 0, 0) \in Entry
    BY <1>0, <1>a, CloseWritable DEF Writable
  <2> QED BY <1>0, <1>4, <1>6, <1>a, <2>1, <2>2, <2>3
<1>7. ASSUME pc = "unknown", ledger' = Append(ledger, CloseEntry("UNKNOWN_STATE", op.cur, op.oid, 0))
      PROVE  Breaks /\ SentFirst'
  <2>1. op.cur \in Intents => Flies(op.cur)
    BY <1>0, <1>7 DEF Working
  <2>2. CloseEntry("UNKNOWN_STATE", op.cur, op.oid, 0) \in Entry
    BY <1>0, <1>a, CloseWritable DEF Writable
  <2> QED BY <1>0, <1>4, <1>7, <1>a, <2>1, <2>2 DEF Halting
<1>8. ASSUME pc = "settle", Finished(op.seen), NEW kind \in ClosingKinds, NEW q,
             CloseEntry(kind, op.cur, op.oid, q) \in Entry,
             ledger' = Append(ledger, CloseEntry(kind, op.cur, op.oid, q))
      PROVE  Breaks /\ SentFirst'
  <2>1. op.cur \in Intents /\ Flies(op.cur) /\ pc \notin Halting
    BY <1>0, <1>8 DEF HoldsIntent, HoldsOrder, Working, Halting
  <2>2. Single(op.cur) => ~Alive(op.cur)
    BY <1>0, <1>8, FinishedIsDead
  <2> QED BY <1>0, <1>4, <1>8, <2>1, <2>2
<1>9. CASE pc = "settle" /\ Filled(op.seen) /\ ledger' = Append(ledger, FillEntry)
  <2>1. FillEntry \in Entry /\ FillKind(op.seen) \in ClosingKinds /\ Finished(op.seen)
    BY <1>0, <1>9, FillWritable DEF Writable, FillKind, ClosingKinds, TERMINAL_KINDS, Finished
  <2> QED BY <1>8, <1>9, <2>1 DEF FillEntry
<1>10. CASE /\ pc = "settle" /\ Unfilled(op.seen)
            /\ ledger' = Append(ledger, CloseEntry("NO_FILL_CANCELED", op.cur, op.oid, 0))
  <2>1. CloseEntry("NO_FILL_CANCELED", op.cur, op.oid, 0) \in Entry /\ Finished(op.seen)
    BY <1>0, <1>10, NoFillWritable DEF Writable, Finished
  <2> QED BY <1>8, <1>10, <1>a, <2>1
<1>11. ASSUME NEW c \in run.todo, Reconciling(c), OrdersOf(book, c) = {},
              ledger' = Append(ledger, CloseEntry("RECONCILE_REPORT", c, 0, 0))
       PROVE  Breaks /\ SentFirst'
  <2>1. c \in Intents /\ Flies(c) /\ pc \notin Halting
    BY <1>0, <1>11 DEF AtWork, Reconciling, Halting
  <2>2. ~Alive(c)
    BY <1>11 DEF Alive
  <2>3. CloseEntry("RECONCILE_REPORT", c, 0, 0) \in Entry
    BY <1>0, <1>a, <2>1, CloseWritable DEF Writable
  <2> QED BY <1>4, <1>11, <1>a, <2>1, <2>2, <2>3
<1>12. ASSUME NEW e, Unguarded(e), ledger' = Append(ledger, e) PROVE Breaks /\ SentFirst'
  <2>1. CASE \/ pc \in {"maybe_sent", "raised"} /\ e = SentEntry(op.cur, "sent_no_ack", 0)
             \/ pc = "ack" /\ e = SentEntry(op.cur, "acked", op.oid)
    BY <1>3, <1>12, <2>1
  <2>2. CASE pc = "settle" /\ Filled(op.seen) /\ e = FillEntry
    BY <1>9, <1>12, <2>2
  <2>3. CASE pc = "settle" /\ Unfilled(op.seen) /\ e = CloseEntry("NO_FILL_CANCELED", op.cur, op.oid, 0)
    BY <1>10, <1>12, <2>3
  <2>4. CASE \E c \in run.todo : /\ Reconciling(c) /\ OrdersOf(book, c) = {}
                                 /\ e = CloseEntry("RECONCILE_REPORT", c, 0, 0)
    BY <1>11, <1>12, <2>4
  <2> QED BY <1>12, <2>1, <2>2, <2>3, <2>4 DEF Unguarded
<1>13. ASSUME NEW e, Guarded(e), ledger' = Append(ledger, e) PROVE Breaks /\ SentFirst'
  BY <1>5, <1>6, <1>7, <1>13 DEF Guarded
<1> QED BY <1>2, <1>12, <1>13 DEF Crash, CutsLedger

\* While no write fails, only a crash breaks the ledger.
LEMMA DiskStep ==
  ASSUME TypeOK, faults = 0, faults' = 0, [Next]_vars
  PROVE  disk' = disk \/ (Crash /\ disk = "ok" /\ disk' # "ok")
<1>1. \A e : AppendRaises(e) \/ Appends(e) \/ BestEffort(e) \/ OtherAppendRaises => disk' = disk
  BY DEF AppendRaises, OtherAppendRaises, Appends, BestEffort, Fault
<1>2. CASE ExecuteStep
  BY <1>1, <1>2 DEF ExecuteStep, WriteAhead, WriteAheadFails, CreateAcked, CreateRejected,
     CreateUncertain, SentNoAck, LookupFound, LookupNone, LookupUncertain, Ack, durable
<1>3. CASE SettleStep
  BY <1>1, <1>3 DEF SettleStep, RecordFill, CountFill, CountFillRaises, RecordNoFill, Poll, PollIf,
     Timeout, OutsideTheMachine, Cancel, Reread, RecordUnknown, ReadHalt, HaltOnUnknown, durable
<1>4. CASE ReconcileStep
  BY <1>1, <1>4 DEF ReconcileStep, ReconcileError, ReconcileNone, ReconcileFound, LeftOpenRaises,
     ScanOpenOrders, StrayOrder, StrayRaises, Summary, HaltPolicy, PolicyRaises, durable
<1>5. CASE \E e \in UnguardedEntries : LedgerRaises(e)
  BY <1>1, <1>5 DEF LedgerRaises
<1>6. CASE Crash
  BY <1>6 DEF Crash, CutsLedger
<1>7. CASE \/ \E c \in Intents : Admit(c)
           \/ Startup \/ BrokerStep \/ LedgerBreaks \/ ManualHalt \/ ManualClear \/ UNCHANGED vars
  <2>1. CASE \E c \in Intents : Admit(c)
    BY <2>1 DEF Admit, durable
  <2>2. CASE Startup
    BY <2>2 DEF Startup, durable
  <2>3. CASE BrokerStep
    BY <2>3 DEF BrokerStep, BrokerFill, BrokerExpire, durable
  <2>4. CASE LedgerBreaks
    BY <2>4 DEF LedgerBreaks, Fault
  <2>5. CASE ManualHalt \/ ManualClear \/ UNCHANGED vars
    BY <2>5 DEF ManualHalt, ManualClear, HaltFileChanges, vars
  <2> QED BY <1>7, <2>1, <2>2, <2>3, <2>4, <2>5
<1> QED BY <1>2, <1>3, <1>4, <1>5, <1>6, <1>7 DEF Next, ProcessStep

\* Over a broken ledger nothing is written, nothing is sent, and orders only end.
LEMMA StuckStep ==
  ASSUME TypeOK, OrdersInHand, OnlyStartedSends, disk # "ok", ~started, [Next]_vars
  PROVE  ledger' = ledger /\ BookCalm /\ pc' # "create"
<1> DEFINE Goal == ledger' = ledger /\ BookCalm /\ pc' # "create"
<1> SUFFICES Goal
  OBVIOUS
<1>0. pc \notin Sending /\ book \in Seq(Order) /\ run.strays \subseteq DOMAIN book
  BY DEF OnlyStartedSends, TypeOK, OrdersInHand
<1>1. ASSUME ledger' = ledger, book' = book, pc' # "create" PROVE Goal
  BY <1>1 DEF BookCalm
<1>2. (Return => pc' # "create") /\ (Abandon => pc' # "create")
  BY DEF Return, Abandon, Goto
<1>3. \A e : /\ ~Appends(e)
             /\ AppendRaises(e) \/ BestEffort(e) \/ OtherAppendRaises => ledger' = ledger
  BY DEF AppendRaises, OtherAppendRaises, Appends, BestEffort
<1> HIDE DEF Goal
<1>4. ~ExecuteStep
  BY <1>0 DEF ExecuteStep, WriteAhead, WriteAheadFails, CreateAcked, CreateRejected, CreateUncertain,
     SentNoAck, LookupFound, LookupNone, LookupUncertain, Ack, Sending
<1>5. CASE SettleStep
  <2>1. CASE Cancel
    <3>1. op.oid \in DOMAIN book
      BY <2>1, OrderInHand DEF Cancel, HoldsOrder
    <3>2. BookCalm
      BY <1>0, <2>1, <3>1, CancelCalm DEF Cancel
    <3> QED BY <2>1, <3>2 DEF Cancel, durable, Goal
  <2> QED BY <1>1, <1>2, <1>3, <1>5, <2>1 DEF SettleStep, RecordFill, CountFill, CountFillRaises,
         RecordNoFill, Poll, PollIf, Timeout, OutsideTheMachine, Reread, RecordUnknown, ReadHalt,
         HaltOnUnknown, Raise, Goto, durable
<1>6. CASE ReconcileStep
  <2>1. ASSUME NEW c \in run.todo, ReconcileError(c) \/ ReconcileNone(c) \/ ReconcileFound(c) \/ LeftOpenRaises(c)
        PROVE  Goal
    BY <1>1, <1>2, <1>3, <2>1 DEF ReconcileError, ReconcileNone, ReconcileFound, LeftOpenRaises,
       Reconciling, Goto, durable
  <2>2. ASSUME NEW o \in run.strays, StrayOrder(o) PROVE Goal
    <3>1. BookCalm
      BY <1>0, <2>2, CancelCalm DEF StrayOrder
    <3> QED BY <2>2, <3>1 DEF StrayOrder, Goto, durable, Goal
  <2>3. CASE ScanOpenOrders \/ StrayRaises \/ Summary \/ HaltPolicy \/ PolicyRaises
    BY <1>1, <1>2, <1>3, <2>3 DEF ScanOpenOrders, StrayRaises, Summary, HaltPolicy, PolicyRaises, Goto,
       durable
  <2> QED BY <1>6, <2>1, <2>2, <2>3 DEF ReconcileStep
<1>7. CASE \E e \in UnguardedEntries : LedgerRaises(e)
  BY <1>1, <1>2, <1>3, <1>7 DEF LedgerRaises, Raise
<1>8. CASE Crash
  BY <1>1, <1>2, <1>8 DEF Crash, CutsLedger
<1>9. CASE (\E c \in Intents : Admit(c)) \/ Startup
  BY <1>1, <1>9 DEF Admit, Startup, Goto, durable
<1>10. CASE BrokerStep
  BY <1>0, <1>10, BrokerCalm DEF BrokerStep, BrokerFill, BrokerExpire, Sending, durable, Goal
<1>11. CASE LedgerBreaks \/ ManualHalt \/ ManualClear \/ UNCHANGED vars
  BY <1>0, <1>1, <1>11 DEF LedgerBreaks, ManualHalt, ManualClear, HaltFileChanges, vars, Sending
<1> QED BY <1>4, <1>5, <1>6, <1>7, <1>8, <1>9, <1>10, <1>11 DEF Next, ProcessStep

\* The gates, the beginning of startup(), crashes, the broker, humans; and every step.
LEMMA StepEffect ==
  ASSUME IInv, Accounted, disk = "ok", disk' = "ok", faults = 0, faults' = 0, [Next]_vars
  PROVE  Effect /\ SentFirst'
<1>0. /\ TypeOK /\ SentFirst /\ book \in Seq(Order) /\ index \in [Intents -> IndexRec]
      /\ run \in Run /\ op \in Op
  BY InHand
<1>1. ASSUME NEW c \in Intents, Admit(c)
      PROVE  Effect /\ SentFirst'
  <2>1. op'.cur = c
    BY <1>1 DEF Admit, NoOp
  <2>2. Admits
    BY <1>1, <2>1 DEF Admit, Admits, Goto, durable, Flies
  <2> QED BY <1>0, <1>1, <2>2, SaysNothing DEF Admit, Effect, durable
<1>2. CASE Startup
  <2>0. disk # "torn"
    OBVIOUS
  <2>1. run'.todo = Pending(index')
    BY <1>2, <2>0 DEF Startup, NoRun
  <2>2. Starts
    BY <1>2, <2>0, <2>1 DEF Startup, Starts, Goto, durable
  <2> QED BY <1>0, <1>2, <2>2, SaysNothing DEF Startup, Effect, durable
<1>3. CASE Crash
  <2>1. run'.todo = {} /\ \A c \in Intents : ~InFlight(index'[c])
    BY <1>3 DEF Crash, Abandon, NoRun, NoRec, InFlight
  <2>2. ledger' = ledger
    BY <1>3 DEF Crash, CutsLedger
  <2>3. Dies
    BY <1>3, <2>1, <2>2 DEF Crash, Abandon, Goto, Dies, Grounds, Flies
  <2> QED BY <1>0, <2>2, <2>3, SaysNothing DEF Effect
<1>4. ASSUME UNCHANGED <<ledger, index, pc, op, run, started>>, BookCalm
      PROVE  Effect /\ SentFirst'
  BY <1>0, <1>4, SaysNothing DEF StandsStill, Effect
<1>5. CASE BrokerStep
  <2>1. UNCHANGED <<ledger, index, pc, op, run, started>>
    BY <1>5 DEF BrokerStep, BrokerFill, BrokerExpire, durable
  <2> QED BY <1>0, <1>4, <1>5, <2>1, BrokerCalm
<1>6. CASE LedgerBreaks \/ ManualHalt \/ ManualClear \/ UNCHANGED vars
  BY <1>4, <1>6 DEF LedgerBreaks, ManualHalt, ManualClear, HaltFileChanges, vars, BookCalm
<1>7. ~\E e \in UnguardedEntries : LedgerRaises(e)
  BY <1>0, NoFault DEF LedgerRaises
<1> QED BY <1>1, <1>2, <1>3, <1>5, <1>6, <1>7, ExecuteEffect, SettleEffect, ReconcileEffect DEF Next, ProcessStep

-----------------------------------------------------------------------------
(* The invariant is inductive *)

\* After startup() has read the ledger, in flight is what has an attempt and no end.
LEMMA RebuiltFlies ==
  ASSUME ledger \in Seq(Entry), SentFirst, NEW c \in Intents
  PROVE  InFlight(Rebuilt(ledger, c)) <=> Attempts(ledger, c) # {} /\ ~Closed(ledger, c)
<1> DEFINE sent == SentOf(ledger, c)
<1>1. Rebuilt(ledger, c).stage = (IF sent = {} THEN "-" ELSE ledger[Max(sent)].stage)
      /\ Rebuilt(ledger, c).terminal = Closed(ledger, c)
  BY DEF Rebuilt
<1>2. Len(ledger) \in Nat /\ DOMAIN ledger = 1..Len(ledger)
  BY LenProperties
<1>3. sent \subseteq 1..Len(ledger) /\ \A i \in sent : i \in DOMAIN ledger /\ ledger[i].kind = "ORDER_SENT"
  BY <1>2 DEF SentOf, EntriesOf
<1>4. sent # {} => ledger[Max(sent)].stage # "-"
  <2>1. sent # {} => Max(sent) \in sent
    BY <1>2, <1>3, MaxOfBounded
  <2> QED BY <1>3, <2>1 DEF SentFirst, Stages
<1>5. sent # {} <=> Attempts(ledger, c) # {}
  BY DEF SentFirst, Attempts, SentOf
<1> HIDE DEF sent
<1> QED BY <1>1, <1>4, <1>5 DEF InFlight

LEMMA IndexFollowsStep ==
  ASSUME IInv, Accounted, disk = "ok", faults = 0, Effect
  PROVE  IndexFollows'
<1>0. /\ IndexFollows /\ AtWork /\ SentFirst /\ ledger \in Seq(Entry) /\ run.todo \subseteq Intents
  BY InHand
<1> SUFFICES ASSUME NEW c \in Intents
             PROVE  /\ (started' \/ pc' # "idle") /\ Attempts(ledger', c) # {} /\ ~Closed(ledger', c) => Flies(c)'
                    /\ Flies(c)' => Attempts(ledger', c) # {}
                    /\ Flies(c)' /\ Closed(ledger', c) => pc' \in Working \cup Halting /\ op'.cur = c
                    /\ Flies(c)' /\ Single(c)' /\ Closed(ledger', c) => pc' \in Halting
  BY DEF IndexFollows
<1>1. /\ (started \/ pc # "idle") /\ Attempts(ledger, c) # {} /\ ~Closed(ledger, c) => Flies(c)
      /\ Flies(c) => Attempts(ledger, c) # {}
      /\ Flies(c) /\ Closed(ledger, c) => pc \in Working \cup Halting /\ op.cur = c
      /\ Flies(c) /\ Single(c) /\ Closed(ledger, c) => pc \in Halting
  BY <1>0 DEF IndexFollows
<1> DEFINE Same == /\ Attempts(ledger', c) = Attempts(ledger, c)
                   /\ Closed(ledger', c) <=> Closed(ledger, c)
<1>a. Same => (Single(c)' <=> Single(c))
  BY DEF Single
<1>b. SaysTheSame => Same
  BY DEF SaysTheSame
<1>c. ledger' = ledger => Same
  OBVIOUS
<1>2. CASE StandsStill
  BY <1>1, <1>2, <1>a, <1>c DEF StandsStill, Flies
<1>3. CASE Admits
  BY <1>1, <1>3, <1>a, <1>c DEF Admits, Flies, Working, Halting
<1>4. CASE Sends
  <2>1. CASE c # op.cur
    <3>1. Same
      BY <1>4, <2>1 DEF Sends, NewAttempt
    <3> QED BY <1>1, <1>4, <1>a, <2>1, <3>1 DEF Sends, NewAttempt, Working, Halting
  <2>2. CASE c = op.cur
    <3>1. /\ Attempts(ledger', c) = Attempts(ledger, c) \cup {Len(ledger) + 1}
          /\ Closed(ledger', c) <=> Closed(ledger, c)
          /\ Flies(c)' /\ pc = "admitted" /\ pc' = "create" /\ op'.cur = c
      BY <1>4, <2>2 DEF Sends, NewAttempt
    <3>2. ~Flies(c)
      BY <1>0, <2>2, <3>1 DEF AtWork
    <3>3. Len(ledger) + 1 \notin Attempts(ledger, c)
      BY <1>0, LenProperties DEF Attempts, SentOf, EntriesOf
    <3>4. Single(c)' => Attempts(ledger, c) = {}
      BY <3>1, <3>3 DEF Single
    <3>5. Attempts(ledger, c) = {} => ~Closed(ledger, c)
      BY <1>0 DEF SentFirst, Closed
    <3> QED BY <3>1, <3>4, <3>5 DEF Working
  <2> QED BY <2>1, <2>2
<1>5. CASE GoesOn
  BY <1>1, <1>5, <1>a, <1>b DEF GoesOn, Grounds, Holds, Working, Halting
<1>6. CASE Ends
  <2>1. CASE c # op.cur
    <3>1. Same
      BY <1>6, <2>1 DEF Ends, EndsAs
    <3> QED BY <1>1, <1>6, <1>a, <2>1, <3>1 DEF Ends, Grounds, Working, Halting
  <2>2. CASE c = op.cur
    BY <1>6, <2>2 DEF Ends, EndsAs, Grounds
  <2> QED BY <2>1, <2>2
<1>7. CASE GivesUp
  <2>1. CASE c # op.cur
    <3>1. Same
      BY <1>7, <2>1 DEF GivesUp, EndsAs
    <3> QED BY <1>1, <1>7, <1>a, <2>1, <3>1 DEF GivesUp, Grounds, Working, Halting
  <2>2. CASE c = op.cur
    BY <1>1, <1>7, <2>2 DEF GivesUp, EndsAs, Grounds, Holds, Halting
  <2> QED BY <2>1, <2>2
<1>8. CASE Leaves
  <2>1. pc = "put_halt" /\ c = op.cur => Closed(ledger, c)
    BY <1>0 DEF AtWork, Halting
  <2> QED BY <1>1, <1>8, <1>a, <1>c, <2>1 DEF Leaves, Grounds, Working, Halting
<1>9. CASE Starts
  <2>1. Flies(c)' <=> Attempts(ledger, c) # {} /\ ~Closed(ledger, c)
    BY <1>0, <1>9, RebuiltFlies DEF Starts, Flies
  <2> QED BY <1>9, <1>c, <2>1 DEF Starts
<1>10. CASE TakesUp
  BY <1>1, <1>10, <1>a, <1>c DEF TakesUp, Grounds, Working, Halting
<1>11. CASE NeverSent
  <2>1. PICK d \in run.todo : EndsAs(d, FALSE) /\ Grounds({d})
    BY <1>11 DEF NeverSent
  <2>2. CASE c # d
    <3>1. Same
      BY <2>1, <2>2 DEF EndsAs
    <3> QED BY <1>1, <1>11, <1>a, <2>1, <2>2, <3>1 DEF NeverSent, Grounds, Working, Halting
  <2>3. CASE c = d
    BY <2>1, <2>3 DEF EndsAs, Grounds
  <2> QED BY <2>2, <2>3
<1>12. CASE LooksAround
  BY <1>1, <1>12, <1>a, <1>c DEF LooksAround, Flies, Working, Halting
<1>13. CASE Dies
  BY <1>13 DEF Dies, Grounds
<1>14. CASE ReadsOn
  BY <1>1, <1>14, <1>a, <1>c DEF ReadsOn, Grounds, Holds, Halting
<1> QED BY <1>2, <1>3, <1>4, <1>5, <1>6, <1>7, <1>8, <1>9, <1>10, <1>11, <1>12, <1>13, <1>14 DEF Effect

LEMMA AtWorkStep ==
  ASSUME IInv, Accounted, disk = "ok", faults = 0, Effect, [Next]_vars
  PROVE  AtWork'
<1>0. /\ AtWork /\ run.todo \subseteq Intents /\ op.cur \in Intents \cup {NoIntent} /\ NoIntent \notin Intents
  BY InHand
<1> USE DEF Working, Settling, Halting
<1>1. ASSUME Grounds({}), run'.todo = run.todo
      PROVE  \A c \in run'.todo : Flies(c)'
  BY <1>0, <1>1 DEF AtWork, Grounds
<1> DEFINE HaltsKnow == \A c \in Intents : pc \in Halting /\ op.cur = c =>
              Closed(ledger, c) /\ \A i \in Attempts(ledger, c) : EndAfter(c, i)
<1>2. ASSUME pc' \notin Halting
      PROVE  HaltsKnow'
  BY <1>2
<1>3. ASSUME pc \in Halting, ledger' = ledger, op'.cur = op.cur
      PROVE  HaltsKnow'
  BY <1>0, <1>3 DEF AtWork, EndAfter
<1>a. ASSUME NEW c, c = op.cur, GivesUp
      PROVE  c \in Intents => Closed(ledger', c) /\ \A i \in Attempts(ledger', c) : EndAfter(c, i)'
  BY <1>a DEF GivesUp, EndsAs
<1>4. CASE StandsStill
  <2>1. UNCHANGED <<ledger, pc, op, run>> /\ \A c : Flies(c)' <=> Flies(c)
    BY <1>4 DEF StandsStill, Flies
  <2>2. CASE pc \in Halting
    BY <1>0, <1>3, <2>1, <2>2 DEF AtWork
  <2>3. CASE pc \notin Halting
    BY <1>0, <1>2, <2>1, <2>3 DEF AtWork
  <2> QED BY <2>2, <2>3
<1>5. CASE Admits
  BY <1>0, <1>2, <1>5 DEF AtWork, Admits, Flies
<1>6. CASE Sends
  BY <1>0, <1>2, <1>6 DEF AtWork, Sends, NewAttempt
<1>7. CASE GoesOn
  BY <1>0, <1>1, <1>2, <1>7 DEF AtWork, GoesOn, Grounds, Holds, InStartup
<1>8. CASE Ends
  BY <1>0, <1>2, <1>8 DEF AtWork, Ends, Grounds, Holds, Returns, InStartup
<1>9. CASE GivesUp
  <2>1. PICK c : c = op.cur
    OBVIOUS
  <2>2. pc' = "set_halt" /\ op'.cur = c /\ run'.todo = run.todo /\ (InStartup(op.mode) => InStartup(op'.mode))
    BY <1>9, <2>1 DEF GivesUp, Holds
  <2>3. c \in Intents => Closed(ledger', c) /\ \A i \in Attempts(ledger', c) : EndAfter(c, i)'
    BY <1>9, <1>a, <2>1
  <2>4. HaltsKnow'
    BY <2>2, <2>3
  <2>5. \A d \in run'.todo : Flies(d)'
    BY <1>1, <1>9, <2>2 DEF GivesUp
  <2>6. pc = "unknown"
    BY <1>9 DEF GivesUp
  <2> QED BY <1>0, <2>1, <2>2, <2>4, <2>5, <2>6 DEF AtWork, InStartup
<1>10. CASE ReadsOn
  BY <1>0, <1>1, <1>3, <1>10 DEF AtWork, ReadsOn, Holds, InStartup
<1>11. CASE Leaves
  BY <1>0, <1>2, <1>11 DEF AtWork, Leaves, Grounds, Returns, InStartup
<1>12. CASE Starts
  BY <1>2, <1>12 DEF AtWork, Starts, Pending, Flies
<1>13. CASE TakesUp
  BY <1>0, <1>2, <1>13 DEF AtWork, TakesUp, Grounds, InStartup
<1>14. CASE NeverSent
  BY <1>0, <1>2, <1>14 DEF AtWork, NeverSent, Grounds
<1>15. CASE LooksAround
  BY <1>0, <1>2, <1>15 DEF AtWork, LooksAround
<1>16. CASE Dies
  BY <1>2, <1>16 DEF AtWork, Dies
<1> QED BY <1>4, <1>5, <1>6, <1>7, <1>8, <1>9, <1>10, <1>11, <1>12, <1>13, <1>14, <1>15, <1>16 DEF Effect

LEMMA OneOrderStep ==
  ASSUME IInv, Accounted, disk = "ok", faults = 0, Effect \/ Breaks
  PROVE  OneOrder'
<1>0. /\ OneOrder /\ IndexFollows /\ AtWork /\ SentFirst /\ WriteAheadDurable
      /\ ledger \in Seq(Entry) /\ book \in Seq(Order) /\ run.todo \subseteq Intents
  BY InHand
<1> SUFFICES ASSUME NEW c \in Intents, Single(c)'
             PROVE  /\ \A o1, o2 \in OrdersOf(book', c) : o1 = o2
                    /\ pc' = "create" /\ op'.cur = c => OrdersOf(book', c) = {}
                    /\ Closed(ledger', c) /\ ~Unknown(c)' => ~Alive(c)'
  BY DEF OneOrder
<1> DEFINE Goal == /\ \A o1, o2 \in OrdersOf(book', c) : o1 = o2
                   /\ pc' = "create" /\ op'.cur = c => OrdersOf(book', c) = {}
                   /\ Closed(ledger', c) /\ ~Unknown(c)' => ~Alive(c)'
           Same == /\ Attempts(ledger', c) = Attempts(ledger, c)
                   /\ Closed(ledger', c) <=> Closed(ledger, c)
                   /\ Unknown(c)' <=> Unknown(c)
<1> SUFFICES Goal
  OBVIOUS
<1>1. Single(c) => /\ \A o1, o2 \in OrdersOf(book, c) : o1 = o2
                   /\ pc = "create" /\ op.cur = c => OrdersOf(book, c) = {}
                   /\ Closed(ledger, c) /\ ~Unknown(c) => ~Alive(c)
  BY <1>0 DEF OneOrder
<1>a. Attempts(ledger', c) = Attempts(ledger, c) => Single(c)
  BY DEF Single
<1>b. SaysTheSame \/ ledger' = ledger => Same
  BY SaysNothing DEF SaysTheSame
<1>c. BookCalm => OrdersOf(book', c) = OrdersOf(book, c) /\ (Alive(c)' => Alive(c))
  BY CalmEffect
<1>d. book' = book => BookCalm
  BY DEF BookCalm
<1>e. ASSUME Same, BookCalm, pc' = "create" => pc = "create" /\ op' = op
      PROVE  Goal
  BY <1>1, <1>a, <1>c, <1>e
<1>2. CASE StandsStill
  BY <1>b, <1>e, <1>2 DEF StandsStill
<1>3. CASE Admits \/ ReadsOn \/ Leaves \/ Starts \/ TakesUp \/ LooksAround \/ Dies
  BY <1>b, <1>d, <1>e, <1>3 DEF Admits, ReadsOn, Leaves, Returns, Starts, TakesUp, Settling, LooksAround, Dies
<1>4. CASE NewAttempt /\ (pc' # "create" \/ op' = op)
  <2>1. CASE c # op.cur
    BY <1>1, <1>4, <1>a, <1>c, <1>d, <2>1 DEF NewAttempt
  <2>2. CASE c = op.cur
    <3>1. Attempts(ledger', c) = Attempts(ledger, c) \cup {Len(ledger) + 1}
      BY <1>4, <2>2 DEF NewAttempt
    <3>2. Len(ledger) + 1 \notin Attempts(ledger, c)
      BY <1>0, LenProperties DEF Attempts, SentOf, EntriesOf
    <3>3. Attempts(ledger, c) = {}
      BY <3>1, <3>2 DEF Single
    <3>4. OrdersOf(book, c) = {}
      BY <1>0, <3>3 DEF WriteAheadDurable, OrdersOf
    <3> QED BY <1>4, <1>c, <1>d, <3>4 DEF NewAttempt, Alive
  <2> QED BY <2>1, <2>2
<1>5. CASE GoesOn
  <2>1. Same /\ pc' # "create"
    BY <1>5, <1>b DEF GoesOn
  <2>2. CASE pc # "create"
    BY <1>5, <1>e, <2>1, <2>2 DEF GoesOn
  <2>3. CASE pc = "create"
    <3>1. op.cur \in Intents /\ book' \in {book} \cup BooksAfterSend(op.cur)
      BY <1>5, <2>3 DEF GoesOn
    <3>2. CASE c # op.cur
      <4>1. OrdersOf(book', c) = OrdersOf(book, c) /\ (Alive(c)' <=> Alive(c))
        BY <1>0, <3>1, <3>2, CreateOne
      <4> QED BY <1>1, <1>a, <2>1, <4>1
    <3>3. CASE c = op.cur
      <4>1. \A o1, o2 \in OrdersOf(book', c) : o1 = o2
        BY <1>0, <1>1, <1>a, <2>1, <2>3, <3>1, <3>3, CreateOne
      <4>2. ~Closed(ledger, c)
        BY <1>0, <1>a, <2>1, <2>3, <3>3 DEF AtWork, IndexFollows, Working, Halting
      <4> QED BY <2>1, <4>1, <4>2
    <3> QED BY <3>2, <3>3
  <2> QED BY <2>2, <2>3
<1>6. CASE Ends
  <2>1. /\ Attempts(ledger', c) = Attempts(ledger, c) /\ pc' # "create" /\ book' = book
        /\ c # op.cur => Same
        /\ c = op.cur /\ Single(c) => ~Alive(c)
    BY <1>6 DEF Ends, EndsAs, Returns
  <2> QED BY <1>1, <1>a, <1>c, <1>d, <2>1
<1>7. CASE GivesUp
  <2>1. /\ Attempts(ledger', c) = Attempts(ledger, c) /\ pc' # "create" /\ book' = book
        /\ c # op.cur => Same
        /\ c = op.cur => Unknown(c)'
    BY <1>7 DEF GivesUp, EndsAs
  <2> QED BY <1>1, <1>a, <1>c, <1>d, <2>1
<1>8. CASE NeverSent
  <2>1. PICK d \in run.todo : EndsAs(d, FALSE) /\ OrdersOf(book, d) = {}
    BY <1>8 DEF NeverSent
  <2>2. /\ Attempts(ledger', c) = Attempts(ledger, c) /\ pc' # "create" /\ book' = book
        /\ c # d => Same
        /\ c = d => ~Alive(c)
    BY <1>8, <2>1 DEF EndsAs, NeverSent, Alive
  <2> QED BY <1>1, <1>a, <1>c, <1>d, <2>2
<1>9. CASE Sends
  BY <1>4, <1>9 DEF Sends
<1>10. CASE Breaks
  <2>1. CASE SaysTheSame
    BY <1>10, <1>b, <1>d, <1>e, <2>1 DEF Breaks
  <2>2. CASE NewAttempt
    BY <1>4, <1>10, <2>2 DEF Breaks
  <2>3. ASSUME NEW d \in Intents \cup {NoIntent}, NEW unknown \in BOOLEAN, EndsAs(d, unknown),
               d \in Intents => unknown \/ (Single(d) => ~Alive(d))
        PROVE  Goal
    <3>1. /\ Attempts(ledger', c) = Attempts(ledger, c) /\ pc' # "create" /\ book' = book
          /\ c # d => Same
          /\ c = d => Unknown(c)' \/ (Single(c) => ~Alive(c))
      BY <1>10, <2>3 DEF Breaks, EndsAs
    <3> QED BY <1>1, <1>a, <1>c, <1>d, <3>1
  <2> QED BY <1>10, <2>1, <2>2, <2>3 DEF Breaks
<1> QED BY <1>2, <1>3, <1>5, <1>6, <1>7, <1>8, <1>9, <1>10 DEF Effect

\* A crash is noted, and nothing else is.
LEMMA CrashesGrow ==
  ASSUME [Next]_vars
  PROVE  crashes' = crashes \/ (Crash /\ crashes' = Append(crashes, Len(ledger)))
<1>1. CASE Crash
  BY <1>1 DEF Crash
<1>2. CASE ExecuteStep
  BY <1>2 DEF ExecuteStep, WriteAhead, WriteAheadFails, CreateAcked, CreateRejected,
     CreateUncertain, SentNoAck, LookupFound, LookupNone, LookupUncertain, Ack
<1>3. CASE SettleStep
  BY <1>3 DEF SettleStep, RecordFill, CountFill, CountFillRaises, RecordNoFill, Poll, PollIf,
     Timeout, OutsideTheMachine, Cancel, Reread, RecordUnknown, ReadHalt, HaltOnUnknown
<1>4. CASE ReconcileStep
  BY <1>4 DEF ReconcileStep, ReconcileError, ReconcileNone, ReconcileFound, LeftOpenRaises,
     ScanOpenOrders, StrayOrder, StrayRaises, Summary, HaltPolicy, PolicyRaises
<1>5. CASE \E e \in UnguardedEntries : LedgerRaises(e)
  BY <1>5 DEF LedgerRaises
<1>6. CASE \/ \E c \in Intents : Admit(c)
           \/ Startup \/ BrokerStep \/ LedgerBreaks \/ ManualHalt \/ ManualClear \/ UNCHANGED vars
  BY <1>6 DEF Admit, Startup, BrokerStep, BrokerFill, BrokerExpire, LedgerBreaks, ManualHalt, ManualClear,
     HaltFileChanges, vars
<1> QED BY <1>1, <1>2, <1>3, <1>4, <1>5, <1>6 DEF Next, ProcessStep

\* What is on record stays on record, and no crash is forgotten.
LEMMA RecordGrows ==
  ASSUME TypeOK, [Next]_vars
  PROVE  /\ Len(ledger') \in Nat /\ Len(ledger) <= Len(ledger')
         /\ \A c, i : EndAfter(c, i) => EndAfter(c, i)'
         /\ \A c, i, j : EndBetween(c, i, j) => EndBetween(c, i, j)'
         /\ crashes' = crashes \/ (Crash /\ crashes' = Append(crashes, Len(ledger)))
         /\ \A n \in DOMAIN crashes : n \in DOMAIN crashes' /\ crashes'[n] = crashes[n]
<1>1. /\ ledger \in Seq(Entry) /\ ledger' \in Seq(Entry) /\ DOMAIN ledger \subseteq DOMAIN ledger'
      /\ \A i \in DOMAIN ledger : ledger'[i] = ledger[i]
  BY LedgerGrows DEF TypeOK
<1>2. Len(ledger) \in Nat /\ Len(ledger') \in Nat /\ Len(ledger) <= Len(ledger')
  <2>1. Len(ledger) \in Nat /\ Len(ledger') \in Nat /\ 1..Len(ledger) \subseteq 1..Len(ledger')
    BY <1>1, LenProperties
  <2>2. Len(ledger) = 0 \/ Len(ledger) \in 1..Len(ledger)
    BY <2>1
  <2>3. Len(ledger) \in 1..Len(ledger) => Len(ledger) \in 1..Len(ledger')
    BY <2>1
  <2> QED BY <2>1, <2>2, <2>3
<1>3. \A c : \A k \in EntriesOf(ledger, c) : k \in EntriesOf(ledger', c) /\ ledger'[k] = ledger[k]
  BY <1>1 DEF EntriesOf
<1>4. crashes' = crashes \/ (Crash /\ crashes' = Append(crashes, Len(ledger)))
  BY CrashesGrow
<1>5. \A n \in DOMAIN crashes : n \in DOMAIN crashes' /\ crashes'[n] = crashes[n]
  <2>1. CASE crashes' = crashes
    BY <2>1
  <2>2. CASE crashes' = Append(crashes, Len(ledger))
    <3>1. crashes \in Seq(Nat)
      BY DEF TypeOK
    <3> QED BY <1>2, <2>2, <3>1, AppendProperties, LenProperties
  <2> QED BY <1>4, <2>1, <2>2
<1> QED BY <1>2, <1>3, <1>4, <1>5 DEF EndAfter, EndBetween

\* An attempt that has ended, or was cut off, stays so.
LEMMA SettledStays ==
  ASSUME TypeOK, [Next]_vars, NEW c, NEW i, Settled(c, i)
  PROVE  Settled(c, i)'
BY RecordGrows DEF Settled, CrashAfter

LEMMA CrashesPastStep ==
  ASSUME TypeOK, CrashesPast, [Next]_vars
  PROVE  CrashesPast'
<1>0. Len(ledger) \in Nat /\ Len(ledger') \in Nat /\ Len(ledger) <= Len(ledger') /\ crashes \in Seq(Nat)
  BY RecordGrows, LenProperties DEF TypeOK
<1>1. CASE crashes' = crashes
  <2>1. \A n \in DOMAIN crashes : crashes[n] \in Nat
    BY <1>0, LenProperties
  <2> QED BY <1>0, <1>1, <2>1 DEF CrashesPast
<1>2. CASE crashes' = Append(crashes, Len(ledger))
  <2>1. \A n \in DOMAIN crashes' : (n \in DOMAIN crashes /\ crashes'[n] = crashes[n]) \/ crashes'[n] = Len(ledger)
    BY <1>0, <1>2, AppendProperties, LenProperties
  <2>2. \A n \in DOMAIN crashes : crashes[n] \in Nat
    BY <1>0, LenProperties
  <2> QED BY <1>0, <2>1, <2>2 DEF CrashesPast
<1> QED BY <1>1, <1>2, RecordGrows

\* A new attempt comes after what has become of every earlier one.
LEMMA RepeatsStep ==
  ASSUME TypeOK, Repeats, CrashesPast, [Next]_vars,
         \/ \A c \in Intents : Attempts(ledger', c) = Attempts(ledger, c)
         \/ NewAttempt /\ AtWork /\ Resolved
  PROVE  Repeats'
<1> SUFFICES ASSUME NEW c \in Intents, NEW i \in Attempts(ledger', c), NEW j \in Attempts(ledger', c), i < j
             PROVE  \/ EndBetween(c, i, j)'
                    \/ EndBetween(c, 0, i)' /\ \E n \in DOMAIN crashes' : i <= crashes'[n] /\ crashes'[n] < j
  BY DEF Repeats, EndBetween
<1>0. /\ Len(ledger) \in Nat /\ DOMAIN ledger = 1..Len(ledger)
      /\ Attempts(ledger, c) \subseteq DOMAIN ledger
  BY LenProperties DEF TypeOK, Attempts, SentOf, EntriesOf
<1>1. CASE i \in Attempts(ledger, c) /\ j \in Attempts(ledger, c)
  <2>1. \/ EndBetween(c, i, j)
        \/ EndBetween(c, 0, i) /\ \E n \in DOMAIN crashes : i <= crashes[n] /\ crashes[n] < j
    BY <1>1 DEF Repeats
  <2> QED BY <2>1, RecordGrows
<1>2. CASE ~(i \in Attempts(ledger, c) /\ j \in Attempts(ledger, c))
  <2>1. NewAttempt /\ AtWork /\ Resolved
    BY <1>2
  <2>2. /\ Attempts(ledger', c) = Attempts(ledger, c) \cup (IF c = op.cur THEN {Len(ledger) + 1} ELSE {})
        /\ pc = "admitted"
    BY <2>1 DEF NewAttempt
  <2>3. c = op.cur /\ j = Len(ledger) + 1 /\ i \in Attempts(ledger, c)
    BY <1>0, <1>2, <2>2
  <2>4. ~Flies(c)
    BY <2>1, <2>2, <2>3 DEF AtWork
  <2>5. Settled(c, i)
    BY <2>1, <2>2, <2>3, <2>4 DEF Resolved
  <2>6. CASE EndAfter(c, i)
    <3>1. EndBetween(c, i, j)
      BY <1>0, <2>3, <2>6 DEF EndAfter, EndBetween, EntriesOf
    <3> QED BY <3>1, RecordGrows
  <2>7. CASE EndBetween(c, 0, i) /\ CrashAfter(i)
    <3>1. PICK n \in DOMAIN crashes : i <= crashes[n]
      BY <2>7 DEF CrashAfter
    <3>2. crashes[n] <= Len(ledger) /\ crashes[n] \in Nat
      BY LenProperties DEF CrashesPast, TypeOK
    <3>3. crashes[n] < j
      BY <1>0, <2>3, <3>2
    <3> QED BY <2>7, <3>1, <3>3, RecordGrows
  <2> QED BY <2>5, <2>6, <2>7 DEF Settled
<1> QED BY <1>1, <1>2

\* What leaves the flight has its end on record; and what startup() does not find in flight has
\* ended, or has been cut off behind an end.
LEMMA ResolvedStep ==
  ASSUME IInv, Accounted, disk = "ok", faults = 0, Effect, [Next]_vars
  PROVE  Resolved'
<1>0. /\ TypeOK /\ Resolved /\ CutOff /\ AtWork /\ IndexFollows /\ SentFirst /\ ledger \in Seq(Entry)
      /\ DOMAIN ledger = 1..Len(ledger) /\ Len(ledger) \in Nat
  BY InHand, LenProperties
<1> SUFFICES ASSUME NEW c \in Intents, started' \/ pc' # "idle", ~Flies(c)', NEW i \in Attempts(ledger', c)
             PROVE  Settled(c, i)'
  BY DEF Resolved
<1>1. ASSUME i \in Attempts(ledger, c), started \/ pc # "idle", ~Flies(c) PROVE Settled(c, i)'
  BY <1>0, <1>1, SettledStays DEF Resolved
<1>2. ASSUME EndAfter(c, i)' PROVE Settled(c, i)'
  BY <1>2 DEF Settled
<1>3. ASSUME NEW d, NEW unknown, EndsAs(d, unknown), Grounds({d}) \/ Grounds({}), started \/ pc # "idle"
      PROVE  Settled(c, i)'
  <2>1. i \in Attempts(ledger, c) /\ (c = d => EndAfter(c, i)')
    BY <1>3 DEF EndsAs
  <2>2. CASE c = d
    BY <1>2, <2>1, <2>2
  <2>3. CASE c # d
    BY <1>1, <1>3, <2>1, <2>3 DEF Grounds
  <2> QED BY <2>2, <2>3
<1>4. CASE StandsStill
  BY <1>1, <1>4 DEF StandsStill, Flies
<1>5. CASE Admits
  BY <1>1, <1>5 DEF Admits, Flies
<1>6. CASE Sends
  BY <1>1, <1>6 DEF Sends, NewAttempt
<1>7. CASE GoesOn
  BY <1>1, <1>7 DEF GoesOn, SaysTheSame, Grounds, Working
<1>8. CASE Ends
  BY <1>3, <1>8 DEF Ends, Working
<1>9. CASE GivesUp
  BY <1>3, <1>9 DEF GivesUp
<1>10. CASE ReadsOn
  BY <1>1, <1>10 DEF ReadsOn, Grounds
<1>11. CASE Leaves
  <2>1. CASE Flies(c)
    <3>1. pc = "put_halt" /\ c = op.cur /\ ledger' = ledger
      BY <1>11, <2>1 DEF Leaves, Grounds
    <3>2. EndAfter(c, i)
      BY <1>0, <3>1 DEF AtWork, Halting
    <3> QED BY <1>0, <1>2, <3>2, RecordGrows
  <2> QED BY <1>1, <1>11, <2>1 DEF Leaves
<1>12. CASE Starts
  <2>1. pc = "idle" /\ i \in Attempts(ledger, c)
        /\ (Flies(c)' <=> Attempts(ledger, c) # {} /\ ~Closed(ledger, c))
    BY <1>0, <1>12, RebuiltFlies DEF Starts, Flies
  <2>2. Closed(ledger, c)
    BY <2>1
  <2>3. CASE started /\ ~Flies(c)
    BY <1>1, <2>1, <2>3
  <2>4. ~Flies(c)
    BY <1>0, <2>1, <2>2 DEF IndexFollows, Working, Halting
  <2>5. CASE ~started
    <3>1. CrashAfter(i)
      BY <1>0, <2>1, <2>5 DEF CutOff
    <3>2. PICK k \in EntriesOf(ledger, c) : ClosesEntry(ledger[k])
      BY <2>2 DEF Closed
    <3>3. k \in 1..Len(ledger) /\ i \in 1..Len(ledger) /\ k # i
      BY <1>0, <2>1, <3>2 DEF EntriesOf, Attempts, SentOf, ClosesEntry, TERMINAL_KINDS
    <3>4. i < k \/ (0 < k /\ k < i)
      BY <1>0, <3>3
    <3>5. Settled(c, i)
      BY <3>1, <3>2, <3>4 DEF Settled, EndAfter, EndBetween
    <3> QED BY <1>0, <3>5, SettledStays
  <2> QED BY <2>3, <2>4, <2>5
<1>13. CASE TakesUp
  BY <1>1, <1>13 DEF TakesUp, Grounds
<1>14. CASE NeverSent
  BY <1>3, <1>14 DEF NeverSent
<1>15. CASE LooksAround
  BY <1>1, <1>15 DEF LooksAround, Flies
<1>16. CASE Dies
  BY <1>16 DEF Dies
<1> QED BY <1>4, <1>5, <1>6, <1>7, <1>8, <1>9, <1>10, <1>11, <1>12, <1>13, <1>14, <1>15, <1>16 DEF Effect

\* Only Sends adds an attempt, and a process that is not started does not send.
LEMMA CutOffStep ==
  ASSUME IInv, Accounted, disk = "ok", faults = 0, Effect, [Next]_vars
  PROVE  CutOff'
<1>0. TypeOK /\ CutOff /\ OnlyStartedSends /\ DOMAIN ledger = 1..Len(ledger) /\ Len(ledger) \in Nat
      /\ crashes \in Seq(Nat) /\ started \in BOOLEAN
  BY InHand, LenProperties DEF Accounted, TypeOK
<1> SUFFICES ASSUME ~started', NEW c \in Intents, NEW i \in Attempts(ledger', c)
             PROVE  CrashAfter(i)'
  BY DEF CutOff
<1>1. ASSUME ~started, i \in Attempts(ledger, c) PROVE CrashAfter(i)'
  BY <1>0, <1>1, RecordGrows DEF CutOff, CrashAfter
<1>2. CASE Dies
  <2>1. i \in 1..Len(ledger)
    BY <1>0, <1>2 DEF Dies, Attempts, SentOf, EntriesOf
  <2>2. /\ Len(crashes) + 1 \in DOMAIN crashes' /\ crashes'[Len(crashes) + 1] = Len(ledger)
    BY <1>0, <1>2, AppendProperties, LenProperties DEF Dies
  <2> QED BY <1>0, <2>1, <2>2 DEF CrashAfter
<1>3. CASE Sends
  BY <1>0, <1>3 DEF Sends, NewAttempt, OnlyStartedSends, Sending
<1>4. ASSUME NEW d, NEW unknown, EndsAs(d, unknown), started' = started PROVE CrashAfter(i)'
  BY <1>1, <1>4 DEF EndsAs
<1>5. CASE Ends \/ GivesUp \/ NeverSent
  BY <1>4, <1>5 DEF Ends, GivesUp, NeverSent, Holds, Returns
<1>6. CASE StandsStill \/ Admits \/ GoesOn \/ ReadsOn \/ Leaves \/ Starts \/ TakesUp \/ LooksAround
  BY <1>1, <1>6 DEF StandsStill, Admits, GoesOn, SaysTheSame, ReadsOn, Leaves, Starts, TakesUp, LooksAround,
     Holds, Returns
<1> QED BY <1>2, <1>3, <1>5, <1>6 DEF Effect

\* A crash that breaks the ledger ends the process, and none gets past startup() after it.
LEMMA ShutStep ==
  ASSUME TypeOK, Shut, faults = 0, faults' = 0, [Next]_vars
  PROVE  Shut'
<1>1. CASE disk # "ok"
  BY <1>1, PolicyOnRecord DEF Shut
<1>2. CASE disk = "ok" /\ disk' # "ok"
  BY <1>2, DiskStep DEF Crash, Abandon, Goto, Shut
<1> QED BY <1>1, <1>2 DEF Shut

\* Writes that have failed are not forgotten.
LEMMA FaultsStay ==
  ASSUME TypeOK, [Next]_vars, faults' = 0
  PROVE  faults = 0
<1>0. faults \in Nat
  BY ExecutorAssumption DEF TypeOK
<1>1. \A e : AppendRaises(e) \/ Appends(e) \/ BestEffort(e) \/ OtherAppendRaises \/ Fault
               => faults' \in {faults, faults + 1}
  BY DEF AppendRaises, OtherAppendRaises, Appends, BestEffort, Fault
<1>2. CASE faults' \in {faults, faults + 1}
  BY <1>0, <1>2
<1>3. CASE ExecuteStep
  BY <1>1, <1>2, <1>3 DEF ExecuteStep, WriteAhead, WriteAheadFails, CreateAcked, CreateRejected,
     CreateUncertain, SentNoAck, LookupFound, LookupNone, LookupUncertain, Ack
<1>4. CASE SettleStep
  BY <1>1, <1>2, <1>4 DEF SettleStep, RecordFill, CountFill, CountFillRaises, RecordNoFill, Poll, PollIf,
     Timeout, OutsideTheMachine, Cancel, Reread, RecordUnknown, ReadHalt, HaltOnUnknown
<1>5. CASE ReconcileStep
  BY <1>1, <1>2, <1>5 DEF ReconcileStep, ReconcileError, ReconcileNone, ReconcileFound, LeftOpenRaises,
     ScanOpenOrders, StrayOrder, StrayRaises, Summary, HaltPolicy, PolicyRaises
<1>6. CASE \E e \in UnguardedEntries : LedgerRaises(e)
  BY <1>1, <1>2, <1>6 DEF LedgerRaises
<1>7. CASE \/ \E c \in Intents : Admit(c)
           \/ Startup \/ BrokerStep \/ Crash \/ LedgerBreaks \/ ManualHalt \/ ManualClear \/ UNCHANGED vars
  BY <1>1, <1>2, <1>7 DEF Admit, Startup, BrokerStep, BrokerFill, BrokerExpire, Crash, LedgerBreaks,
     ManualHalt, ManualClear, HaltFileChanges, vars
<1> QED BY <1>3, <1>4, <1>5, <1>6, <1>7 DEF Next, ProcessStep

LEMMA AccountedInit == Init => Accounted
<1> SUFFICES ASSUME Init PROVE Accounted
  OBVIOUS
<1>1. ledger = <<>> /\ DOMAIN ledger = {} /\ \A c : EntriesOf(ledger, c) = {}
  BY DEF Init, EntriesOf
<1>2. \A c : Attempts(ledger, c) = {} /\ ~Closed(ledger, c)
  BY <1>1 DEF Attempts, SentOf, Closed
<1>3. \A c \in Intents : ~Flies(c)
  BY DEF Init, Flies, NoRec, InFlight
<1>4. pc = "idle" /\ run.todo = {} /\ ~started
  BY DEF Init, NoRun
<1>5. \A c \in Intents : OrdersOf(book, c) = {}
  <2>1. PICK n \in 0..MaxStrays : book = [o \in 1..n |-> [client |-> NoIntent, status |-> "open", filled |-> 0]]
    BY DEF Init
  <2>2. \A o \in DOMAIN book : book[o].client = NoIntent
    BY <2>1
  <2> QED BY <2>2, ExecutorAssumption DEF OrdersOf
<1>6. SentFirst /\ IndexFollows /\ Repeats /\ Resolved /\ CutOff
  BY <1>1, <1>2, <1>3 DEF SentFirst, IndexFollows, Repeats, Resolved, CutOff
<1>7. AtWork
  BY <1>4 DEF AtWork, Working, Settling, Halting
<1>8. OneOrder
  BY <1>4, <1>5 DEF OneOrder, Alive
<1>9. CrashesPast /\ Shut /\ OnlyStartedSends
  BY DEF Init, CrashesPast, Shut, OnlyStartedSends, Sending
<1> QED BY <1>6, <1>7, <1>8, <1>9 DEF Accounted, Sound

LEMMA AccountedNext == IInv /\ Accounted /\ [Next]_vars => Accounted'
<1> SUFFICES ASSUME IInv, Accounted, [Next]_vars
             PROVE  Accounted'
  OBVIOUS
<1>1. OnlyStartedSends'
  BY SendingStep DEF Accounted
<1> SUFFICES ASSUME faults' = 0 PROVE Sound'
  BY <1>1 DEF Accounted
<1>2. faults = 0 /\ TypeOK /\ OrdersInHand
  BY FaultsStay DEF IInv
<1>3. Sound /\ OnlyStartedSends
  BY <1>2 DEF Accounted
<1>4. Shut' /\ CrashesPast'
  BY <1>2, <1>3, ShutStep, CrashesPastStep DEF Sound
<1>5. CASE disk # "ok"
  <2>1. ledger' = ledger /\ BookCalm /\ pc' # "create"
    BY <1>2, <1>3, <1>5, StuckStep DEF Sound, Shut
  <2>2. SentFirst'
    BY <1>3, <2>1, SaysNothing DEF Sound
  <2>3. Repeats'
    BY <1>2, <1>3, <2>1, RepeatsStep DEF Sound
  <2>4. OneOrder'
    BY <1>3, <2>1, CalmEffect DEF Sound, OneOrder, Single, Unknown
  <2>5. disk' # "ok"
    BY <1>2, <1>5, DiskStep
  <2> QED BY <1>4, <2>2, <2>3, <2>4, <2>5 DEF Sound
<1>6. CASE disk = "ok" /\ disk' # "ok"
  <2>1. Breaks /\ SentFirst' /\ pc' = "idle"
    BY <1>2, <1>6, DiskStep, BreaksEffect DEF Breaks
  <2>2. OneOrder'
    BY <1>2, <1>6, <2>1, OneOrderStep
  <2>3. Repeats'
    BY <1>2, <1>3, <1>6, <2>1, RepeatsStep DEF Sound, Breaks, SaysTheSame, EndsAs
  <2> QED BY <1>4, <1>6, <2>1, <2>2, <2>3 DEF Sound
<1>7. CASE disk = "ok" /\ disk' = "ok"
  <2>1. Effect /\ SentFirst'
    BY <1>2, <1>7, StepEffect
  <2>2. IndexFollows' /\ AtWork' /\ OneOrder' /\ Resolved' /\ CutOff'
    BY <1>2, <1>7, <2>1, IndexFollowsStep, AtWorkStep, OneOrderStep, ResolvedStep, CutOffStep
  <2>3. (\A c \in Intents : Attempts(ledger', c) = Attempts(ledger, c)) \/ NewAttempt
    BY <2>1 DEF Effect, StandsStill, Admits, Sends, GoesOn, SaysTheSame, Ends, GivesUp, EndsAs, ReadsOn, Leaves,
       Starts, TakesUp, NeverSent, LooksAround, Dies
  <2>4. Repeats'
    BY <1>2, <1>3, <1>7, <2>3, RepeatsStep DEF Sound
  <2> QED BY <1>4, <2>1, <2>2, <2>4 DEF Sound
<1> QED BY <1>5, <1>6, <1>7

-----------------------------------------------------------------------------
(* Theorems *)

\* The record accounts for every intent as long as no durable write has failed: while the ledger can
\* be written, what the index says follows from it, and what the process works on is in flight;
\* always, one attempt has one order, and an attempt is repeated after its end only, or after a
\* crash that cut it off behind the end of an earlier one.  Over a ledger that a crash has broken,
\* no process is started.
THEOREM EveryIntentAccounted == Spec => [](IInv /\ Accounted)
<1>1. Init => IInv /\ Accounted
  BY InitInv, AccountedInit
<1>2. IInv /\ Accounted /\ [Next]_vars => (IInv /\ Accounted)'
  BY NextInv, AccountedNext
<1> QED BY <1>1, <1>2, PTL DEF Spec

\* More than one attempt, counted and compared.
LEMMA ManyAttempts ==
  ASSUME ledger \in Seq(Entry), NEW c
  PROVE  /\ IsFiniteSet(Attempts(ledger, c))
         /\ Cardinality(Attempts(ledger, c)) > 1 <=> ~Single(c)
         /\ Cardinality(Attempts(ledger, c)) = 1 => Attempts(ledger, c) # {} /\ Single(c)
<1> DEFINE A == Attempts(ledger, c)
<1>1. IsFiniteSet(A)
  <2>1. A \subseteq 1..Len(ledger) /\ Len(ledger) \in Nat
    BY LenProperties DEF Attempts, SentOf, EntriesOf
  <2>2. IsFiniteSet(1..Len(ledger))
    BY <2>1, FS_Interval
  <2> QED BY <2>1, <2>2, FS_Subset
<1>2. Single(c) <=> \A i, j \in A : i = j
  BY DEF Single
<1> HIDE DEF A
<1>3. Cardinality(A) \in Nat /\ (Cardinality(A) = 0 <=> A = {})
  BY <1>1, FS_CardinalityType, FS_EmptySet
<1>4. Cardinality(A) = 1 <=> \E x : A = {x}
  BY <1>1, FS_Singleton
<1>5. (\A i, j \in A : i = j) <=> A = {} \/ \E x : A = {x}
  <2>1. ASSUME \A i, j \in A : i = j, NEW x \in A PROVE A = {x}
    BY <2>1
  <2> QED BY <2>1
<1>6. Cardinality(A) > 1 <=> Cardinality(A) # 0 /\ Cardinality(A) # 1
  BY <1>3
<1>7. Cardinality(A) > 1 <=> ~(\A i, j \in A : i = j)
  BY <1>3, <1>4, <1>5, <1>6, Zenon
<1> QED BY <1>1, <1>2, <1>4, <1>5, <1>7 DEF A

\* While durable writes work, an attempt is repeated after its own end only; or by a process started
\* after a crash has cut it off, and only if an earlier attempt of the intent has its end on record.
\* A first attempt is never repeated without an end.
THEOREM NothingUnresolvedIsResent == Spec => []UnresolvedNeverResent
<1>1. IInv /\ Accounted => UnresolvedNeverResent
  BY DEF Accounted, Sound, Repeats, UnresolvedNeverResent
<1> QED BY <1>1, EveryIntentAccounted, PTL

\* Where durable writes work, an order of an intent that was sent once rests at the broker only
\* while the ledger has it pending or unknown.
THEOREM LiveOrdersAreOwned == MaxFaults = 0 /\ Spec => []LiveOrderHasOwner
<1>1. MaxFaults = 0 /\ IInv /\ Accounted => LiveOrderHasOwner
  <2> SUFFICES ASSUME MaxFaults = 0, IInv, Accounted,
                      NEW o \in OpenOrders, NEW c \in Intents, c = book[o].client,
                      Cardinality(Attempts(ledger, c)) = 1
               PROVE  \/ InFlight(Rebuilt(ledger, c))
                      \/ \E i \in EntriesOf(ledger, c) : ledger[i].kind = "UNKNOWN_STATE"
    BY DEF LiveOrderHasOwner
  <2>1. faults = 0 /\ ledger \in Seq(Entry)
    BY DEF IInv, TypeOK
  <2>2. Attempts(ledger, c) # {} /\ Single(c)
    BY <2>1, ManyAttempts
  <2>3. Alive(c)
    BY DEF Alive, OpenOrders, OrdersOf
  <2>4. Closed(ledger, c) => Unknown(c)
    BY <2>1, <2>2, <2>3 DEF Accounted, Sound, OneOrder
  <2> QED BY <2>1, <2>2, <2>4, RebuiltFlies DEF Accounted, Sound, Unknown
<1> SUFFICES ASSUME MaxFaults = 0 PROVE Spec => []LiveOrderHasOwner
  OBVIOUS
<1>2. IInv /\ Accounted => LiveOrderHasOwner
  BY <1>1
<1> QED BY <1>2, EveryIntentAccounted, PTL

-----------------------------------------------------------------------------
(* The refinement *)

Custodies == [c \in Intents |-> CustodyOf(c)]
Resting   == [c \in Intents |-> OrdersOf(book, c) \cap OpenOrders # {}]

\* What the record says of an intent, in the terms of the invariant.
LEMMA CustodyCases ==
  ASSUME ledger \in Seq(Entry), NEW c \in Intents
  PROVE  /\ Attempts(ledger, c) = {} => CustodyOf(c) = "none"
         /\ Attempts(ledger, c) # {} /\ ~Single(c) => CustodyOf(c) = "retried"
         /\ Attempts(ledger, c) # {} /\ Single(c) /\ ~Closed(ledger, c) => CustodyOf(c) = "pending"
         /\ Attempts(ledger, c) # {} /\ Single(c) /\ Closed(ledger, c) /\ Unknown(c) => CustodyOf(c) = "unknown"
         /\ Attempts(ledger, c) # {} /\ Single(c) /\ Closed(ledger, c) /\ ~Unknown(c) => CustodyOf(c) = "final"
<1>1. Cardinality(Attempts(ledger, c)) > 1 <=> ~Single(c)
  BY ManyAttempts
<1>2. CustodyOf(c) = IF Attempts(ledger, c) = {} THEN "none"
                     ELSE IF Cardinality(Attempts(ledger, c)) > 1 THEN "retried"
                     ELSE IF ~Closed(ledger, c) THEN "pending"
                     ELSE IF Unknown(c) THEN "unknown" ELSE "final"
  BY DEF CustodyOf, Unknown
<1> QED BY <1>1, <1>2

\* An order of the intent rests at the broker.
LEMMA RestingIsAlive == \A c \in Intents : Resting[c] = Alive(c)
<1> SUFFICES ASSUME NEW c \in Intents PROVE Resting[c] <=> Alive(c)
  BY DEF Resting, Alive
<1> QED BY DEF Resting, Alive, OrdersOf, OpenOrders

\* Nothing changes for anybody ...
LEMMA StutterStep ==
  ASSUME \A d \in Intents : CustodyOf(d)' = CustodyOf(d) /\ (Alive(d)' <=> Alive(d))
  PROVE  Custodies' = Custodies /\ Resting' = Resting
<1>1. Custodies' = Custodies
  BY DEF Custodies
<1>2. \A d \in Intents : (OrdersOf(book, d) \cap OpenOrders # {})' = (OrdersOf(book, d) \cap OpenOrders # {})
  BY RestingIsAlive DEF Alive, OrdersOf, OpenOrders
<1>3. Resting' = Resting
  BY <1>2 DEF Resting
<1> QED BY <1>1, <1>3

\* ... or for one intent and nobody else: what the record says, or whether an order rests.
LEMMA RecordStep ==
  ASSUME NEW c \in Intents, NEW x, CustodyOf(c)' = x,
         \A d \in Intents : (d # c => CustodyOf(d)' = CustodyOf(d)) /\ (Alive(d)' <=> Alive(d))
  PROVE  Custodies' = [Custodies EXCEPT ![c] = x] /\ Resting' = Resting
<1>1. Custodies' = [Custodies EXCEPT ![c] = x]
  BY DEF Custodies
<1>2. \A d \in Intents : (OrdersOf(book, d) \cap OpenOrders # {})' = (OrdersOf(book, d) \cap OpenOrders # {})
  BY DEF Alive, OrdersOf, OpenOrders
<1>3. Resting' = Resting
  BY <1>2 DEF Resting
<1> QED BY <1>1, <1>3

LEMMA ExposureStep ==
  ASSUME NEW c \in Intents,
         \A d \in Intents : CustodyOf(d)' = CustodyOf(d) /\ (d # c => (Alive(d)' <=> Alive(d)))
  PROVE  Custodies' = Custodies /\ Resting' = [Resting EXCEPT ![c] = Alive(c)']
<1>1. Custodies' = Custodies
  BY DEF Custodies
<1>2. \A d \in Intents : (OrdersOf(book, d) \cap OpenOrders # {})' = Alive(d)'
  BY DEF Alive, OrdersOf, OpenOrders
<1>3. \A d \in Intents : d # c => (OrdersOf(book, d) \cap OpenOrders # {})' = (OrdersOf(book, d) \cap OpenOrders # {})
  BY DEF Alive, OrdersOf, OpenOrders
<1>4. Resting' = [Resting EXCEPT ![c] = Alive(c)']
  BY <1>2, <1>3 DEF Resting
<1> QED BY <1>1, <1>4

\* A step changes for one intent what OrderCustody lets a step change, or nothing.
LEMMA CustodyStep ==
  ASSUME IInv, Accounted, Accounted', faults = 0, faults' = 0, [Next]_vars
  PROVE  [Custody!Next]_<<Custodies, Resting>>
<1>0. /\ OneOrder' /\ ledger \in Seq(Entry) /\ book \in Seq(Order) /\ NoIntent \notin Intents
      /\ TypeOK /\ OrdersInHand /\ OnlyStartedSends /\ Shut /\ SentFirst
  BY ExecutorAssumption DEF Accounted, Sound, IInv, TypeOK
<1>a. disk = "ok" => /\ IndexFollows /\ AtWork /\ run.todo \subseteq Intents
                     /\ op.cur \in Intents \cup {NoIntent}
  BY InHand
<1> DEFINE Goal == [Custody!Next]_<<Custodies, Resting>>
           SameOf(d) == /\ Attempts(ledger', d) = Attempts(ledger, d)
                        /\ Closed(ledger', d) <=> Closed(ledger, d)
                        /\ Unknown(d)' <=> Unknown(d)
<1> SUFFICES Goal
  OBVIOUS
<1>1. ASSUME NEW d, SameOf(d) PROVE CustodyOf(d)' = CustodyOf(d)
  BY <1>1 DEF CustodyOf, Unknown
<1>2. ASSUME Custodies' = Custodies, Resting' = Resting PROVE Goal
  BY <1>2
<1>3. SaysTheSame \/ ledger' = ledger => \A d \in Intents : SameOf(d)
  BY SaysNothing DEF SaysTheSame
<1>4. \A d \in Intents : Custodies[d] = CustodyOf(d) /\ Resting[d] = Alive(d)
  BY RestingIsAlive DEF Custodies
<1>5. book' = book => \A d \in Intents : Alive(d)' <=> Alive(d)
  BY DEF Alive, OrdersOf
<1>6. ASSUME NEW c \in Intents, \A d \in Intents : SameOf(d) /\ (d # c => (Alive(d)' <=> Alive(d))),
             Alive(c)' => CustodyOf(c) \in {"pending", "retried"} \/ Alive(c)
      PROVE  Goal
  <2>1. Custodies' = Custodies /\ Resting' = [Resting EXCEPT ![c] = Alive(c)']
    BY <1>1, <1>6, ExposureStep
  <2>2. CASE Alive(c)' <=> Alive(c)
    BY <1>1, <1>2, <1>6, <2>2, StutterStep
  <2>3. CASE Alive(c)' /\ ~Alive(c)
    <3>1. Resting' = [Resting EXCEPT ![c] = TRUE]
      BY <2>1, <2>3
    <3>2. Custody!Expose(c)
      BY <1>4, <1>6, <2>1, <2>3, <3>1 DEF Custody!Expose, Custodies, Resting
    <3> QED BY <3>2 DEF Custody!Next
  <2>4. CASE ~Alive(c)' /\ Alive(c)
    <3>0. Alive(c)' = FALSE
      BY <2>4 DEF Alive
    <3>1. Resting' = [Resting EXCEPT ![c] = FALSE]
      BY <2>1, <3>0
    <3>2. Custody!Die(c)
      BY <2>1, <3>1 DEF Custody!Die, Custodies, Resting
    <3> QED BY <3>2 DEF Custody!Next
  <2> QED BY <2>2, <2>3, <2>4
<1>7. ASSUME \A d \in Intents : SameOf(d), BookCalm PROVE Goal
  <2>1. CASE book' = book
    BY <1>1, <1>2, <1>5, <1>7, <2>1, StutterStep
  <2>2. ASSUME NEW o \in DOMAIN book, Moves(o) PROVE Goal
    <3>1. \A d : (Alive(d)' => Alive(d)) /\ (d # book[o].client => (Alive(d)' <=> Alive(d)))
      BY <2>2, MoveEffect
    <3>2. CASE book[o].client \in Intents
      BY <1>6, <1>7, <3>1, <3>2
    <3>3. CASE book[o].client \notin Intents
      BY <1>1, <1>2, <1>7, <3>1, <3>3, StutterStep
    <3> QED BY <3>2, <3>3
  <2> QED BY <1>7, <2>1, <2>2 DEF BookCalm
<1>8. ASSUME NEW c, NEW unknown \in BOOLEAN, EndsAs(c, unknown), book' = book, c \in Intents => Flies(c),
             pc \notin Halting, disk = "ok"
      PROVE  Goal
  <2>1. \A d \in Intents : d # c => CustodyOf(d)' = CustodyOf(d)
    BY <1>1, <1>8 DEF EndsAs
  <2>2. CASE c \notin Intents
    BY <1>2, <1>5, <1>8, <2>1, <2>2, StutterStep
  <2>3. CASE c \in Intents
    <3>1. /\ Attempts(ledger', c) = Attempts(ledger, c) /\ Closed(ledger', c)
          /\ Unknown(c)' <=> Unknown(c) \/ unknown
          /\ Attempts(ledger, c) # {}
      BY <1>a, <1>8, <2>3 DEF EndsAs, IndexFollows
    <3>2. Cardinality(Attempts(ledger, c)) > 1 <=> ~Single(c)
      BY <1>0, ManyAttempts
    <3>3. CASE ~Single(c)
      <4>1. CustodyOf(c)' = CustodyOf(c)
        BY <3>1, <3>2, <3>3 DEF CustodyOf
      <4> QED BY <1>2, <1>5, <1>8, <2>1, <4>1, StutterStep
    <3>4. CASE Single(c)
      <4>1. ~Closed(ledger, c) /\ CustodyOf(c) = "pending"
        BY <1>0, <1>a, <1>8, <2>3, <3>1, <3>4, CustodyCases DEF IndexFollows
      <4>2. CustodyOf(c)' = IF Unknown(c)' THEN "unknown" ELSE "final"
        BY <3>1, <3>2, <3>4 DEF CustodyOf, Unknown
      <4>3. CASE Unknown(c)'
        <5>1. Custodies' = [Custodies EXCEPT ![c] = "unknown"] /\ Resting' = Resting
          BY <1>5, <1>8, <2>1, <2>3, <4>2, <4>3, RecordStep
        <5>2. Custody!GiveUp(c)
          BY <1>4, <2>3, <4>1, <5>1 DEF Custody!GiveUp, Custodies, Resting
        <5> QED BY <2>3, <5>2 DEF Custody!Next
      <4>4. CASE ~Unknown(c)'
        <5>1. Custodies' = [Custodies EXCEPT ![c] = "final"] /\ Resting' = Resting
          BY <1>5, <1>8, <2>1, <2>3, <4>2, <4>4, RecordStep
        <5>2. Single(c)'
          BY <3>1, <3>4 DEF Single
        <5>3. ~Alive(c)
          BY <1>0, <1>5, <1>8, <2>3, <3>1, <4>4, <5>2 DEF OneOrder
        <5>4. Custody!Finish(c)
          BY <1>4, <2>3, <4>1, <5>1, <5>3 DEF Custody!Finish, Custodies, Resting
        <5> QED BY <2>3, <5>4 DEF Custody!Next
      <4> QED BY <4>3, <4>4
    <3> QED BY <3>3, <3>4
  <2> QED BY <2>2, <2>3
<1>9. CASE NewAttempt /\ disk = "ok"
  <2>0. PICK c \in Intents : c = op.cur
    BY <1>9 DEF NewAttempt
  <2> DEFINE A == Attempts(ledger, c)
             n == Len(ledger) + 1
  <2>1. c \in Intents /\ Attempts(ledger', c) = A \cup {n} /\ (Closed(ledger', c) <=> Closed(ledger, c))
        /\ pc = "admitted" /\ book' = book /\ op.cur = c
    BY <1>9, <2>0 DEF NewAttempt
  <2>2. \A d \in Intents : d # c => CustodyOf(d)' = CustodyOf(d)
    BY <1>1, <1>9, <2>0 DEF NewAttempt
  <2>3. n \notin A /\ IsFiniteSet(A)
    <3>1. DOMAIN ledger = 1..Len(ledger) /\ Len(ledger) \in Nat
      BY <1>0, LenProperties
    <3>2. A \subseteq 1..Len(ledger)
      BY <3>1 DEF Attempts, SentOf, EntriesOf
    <3>3. IsFiniteSet(A)
      BY <1>0, ManyAttempts
    <3>4. n \notin 1..Len(ledger)
      BY <3>1
    <3> QED BY <3>2, <3>3, <3>4
  <2>4. ~Flies(c)
    BY <1>9, <1>a, <2>1 DEF AtWork
  <2>5. CASE A = {}
    <3>1. Attempts(ledger', c) = {n} /\ ~Closed(ledger, c)
      BY <1>0, <2>1, <2>5 DEF SentFirst, Closed
    <3>2. Cardinality({n}) = 1
      BY FS_Singleton
    <3>3. ~(Cardinality(Attempts(ledger', c)) > 1)
      BY <3>1, <3>2
    <3>4. CustodyOf(c)' = "pending"
      BY <2>1, <3>1, <3>3 DEF CustodyOf
    <3>5. Custodies' = [Custodies EXCEPT ![c] = "pending"] /\ Resting' = Resting
      BY <1>5, <2>1, <2>2, <3>4, RecordStep
    <3>6. CustodyOf(c) = "none"
      BY <2>5 DEF CustodyOf
    <3>7. Custody!Take(c)
      BY <1>4, <2>1, <3>5, <3>6 DEF Custody!Take, Custodies, Resting
    <3> QED BY <2>1, <3>7 DEF Custody!Next
  <2>6. CASE A # {}
    <3>1. Cardinality(A \cup {n}) > 1
      <4>1. Cardinality(A) \in Nat /\ Cardinality(A) # 0
        BY <2>3, <2>6, FS_CardinalityType, FS_EmptySet
      <4>2. Cardinality(A \cup {n}) = Cardinality(A) + 1
        BY <2>3, FS_AddElement
      <4> QED BY <4>1, <4>2
    <3>2. CustodyOf(c)' = "retried"
      BY <2>1, <3>1 DEF CustodyOf
    <3>3. Closed(ledger, c)
      BY <1>9, <1>a, <2>1, <2>4, <2>6 DEF IndexFollows
    <3>4. CustodyOf(c) \in {"retried", "unknown", "final"}
      BY <2>6, <3>3 DEF CustodyOf
    <3>5. CASE CustodyOf(c) = "retried"
      BY <1>2, <1>5, <2>1, <2>2, <3>2, <3>5, StutterStep
    <3>6. CASE CustodyOf(c) \in {"unknown", "final"}
      <4>1. Custodies' = [Custodies EXCEPT ![c] = "retried"] /\ Resting' = Resting
        BY <1>5, <2>1, <2>2, <3>2, RecordStep
      <4>2. Custody!Retake(c)
        BY <1>4, <2>1, <3>6, <4>1 DEF Custody!Retake, Custodies, Resting
      <4> QED BY <2>1, <4>2 DEF Custody!Next
    <3> QED BY <3>4, <3>5, <3>6
  <2> QED BY <2>5, <2>6
<1>10. CASE GoesOn /\ disk = "ok"
  <2>1. CASE BookCalm
    BY <1>3, <1>7, <1>10, <2>1 DEF GoesOn
  <2>2. CASE pc = "create" /\ op.cur \in Intents /\ book' \in {book} \cup BooksAfterSend(op.cur)
    <3>1. \A d : d # op.cur => (Alive(d)' <=> Alive(d))
      BY <1>0, <2>2, CreateOne
    <3>2. Flies(op.cur) /\ Attempts(ledger, op.cur) # {} /\ (Single(op.cur) => ~Closed(ledger, op.cur))
      BY <1>10, <1>a, <2>2 DEF AtWork, Working, Halting, IndexFollows
    <3>3. CustodyOf(op.cur) \in {"pending", "retried"}
      BY <1>0, <2>2, <3>2, CustodyCases
    <3> QED BY <1>3, <1>6, <1>10, <2>2, <3>1, <3>3 DEF GoesOn
  <2> QED BY <1>10, <2>1, <2>2 DEF GoesOn
<1>11. CASE StandsStill \/ LooksAround
  BY <1>3, <1>7, <1>11 DEF StandsStill, LooksAround
<1>12. CASE Admits \/ ReadsOn \/ Leaves \/ Starts \/ TakesUp \/ Dies
  BY <1>3, <1>7, <1>12 DEF Admits, ReadsOn, Leaves, Starts, TakesUp, Dies, BookCalm
<1>13. CASE (Ends \/ GivesUp) /\ disk = "ok"
  BY <1>a, <1>8, <1>13 DEF Ends, GivesUp, AtWork, Working, Halting
<1>14. CASE NeverSent /\ disk = "ok"
  BY <1>a, <1>8, <1>14 DEF NeverSent, AtWork, Halting
<1>15. CASE disk = "ok" /\ disk' = "ok"
  <2>1. Effect
    BY <1>15, StepEffect
  <2>2. CASE Sends
    BY <1>9, <1>15, <2>2 DEF Sends
  <2> QED BY <1>10, <1>11, <1>12, <1>13, <1>14, <1>15, <2>1, <2>2 DEF Effect
<1>16. CASE disk = "ok" /\ disk' # "ok"
  <2>1. Breaks
    BY <1>0, <1>16, DiskStep, BreaksEffect
  <2>2. CASE SaysTheSame
    BY <1>3, <1>7, <2>1, <2>2 DEF Breaks, BookCalm
  <2>3. CASE NewAttempt
    BY <1>9, <1>16, <2>3
  <2> QED BY <1>8, <1>16, <2>1, <2>2, <2>3 DEF Breaks
<1>17. CASE disk # "ok"
  BY <1>0, <1>3, <1>7, <1>17, StuckStep DEF Shut
<1> QED BY <1>15, <1>16, <1>17

LEMMA CustodyInit == Init => Custody!Init
<1> SUFFICES ASSUME Init PROVE Custody!Init
  OBVIOUS
<1>1. \A c \in Intents : Attempts(ledger, c) = {}
  BY DEF Init, Attempts, SentOf, EntriesOf
<1>2. \A c \in Intents : OrdersOf(book, c) = {}
  <2>1. PICK n \in 0..MaxStrays : book = [o \in 1..n |-> [client |-> NoIntent, status |-> "open", filled |-> 0]]
    BY DEF Init
  <2>2. \A o \in DOMAIN book : book[o].client = NoIntent
    BY <2>1
  <2> QED BY <2>2, ExecutorAssumption DEF OrdersOf
<1>3. \A c \in Intents : CustodyOf(c) = "none" /\ (OrdersOf(book, c) \cap OpenOrders # {}) = FALSE
  BY <1>1, <1>2 DEF CustodyOf
<1> QED BY <1>3 DEF Custody!Init

\* HonestExecutor implements OrderCustody where durable writes work, for every number of
\* intents, sends, polls and crashes: custody comes before exposure, a final record is of a dead
\* order, and a second attempt follows the end of the first.
THEOREM CustodyIsKept == MaxFaults = 0 /\ Spec => KeepsCustody
<1> SUFFICES ASSUME MaxFaults = 0 PROVE Spec => KeepsCustody
  OBVIOUS
<1>1. IInv => faults = 0
  BY DEF IInv, TypeOK
<1>2. IInv /\ Accounted /\ IInv' /\ Accounted' /\ [Next]_vars => [Custody!Next]_<<Custodies, Resting>>
  <2>1. IInv' => faults' = 0
    BY DEF IInv, TypeOK
  <2> QED BY <1>1, <2>1, CustodyStep
<1>3. Spec => []IInv /\ []Accounted
  BY EveryIntentAccounted, PTL
<1>4. Init => Custody!Init
  BY CustodyInit
<1> QED BY <1>2, <1>3, <1>4, PTL DEF Spec, KeepsCustody, Custody!Spec, Custodies, Resting

-----------------------------------------------------------------------------
(* What execute() answers *)

\* The ledger led records a fill of q units of order o for c.
Recorded(led, c, o, q) ==
  \E i \in EntriesOf(led, c) :
    led[i].kind \in {"FILL", "PARTIAL_FILL"} /\ led[i].oid = o /\ led[i].filled = q

\* ResultMatchesLedger, and what leads to it: an answer is given only after its fill is recorded,
\* and between the gate and create_order the call has no answer and the book has not grown.
Answered ==
  /\ \A c \in Intents :
       LET r == outcome[c]
       IN /\ r.status \in {"FILLED", "PARTIAL"} => Recorded(ledger, c, r.oid, r.filled)
          /\ r.status = "DENIED" => \A o \in OrdersOf(book, c) : o <= r.after
  /\ pc = "count" => Recorded(ledger, op.cur, op.oid, op.seen.filled)
  /\ pc \in {"admitted", "create"} =>
       op.mode = "execute" /\ outcome[op.cur].status = "NONE" /\ outcome[op.cur].after = Len(book)

\* A recorded fill stays recorded.
LEMMA RecordedStays ==
  ASSUME TypeOK, [Next]_vars, NEW c, NEW o, NEW q, Recorded(ledger, c, o, q)
  PROVE  Recorded(ledger', c, o, q)
<1>1. PICK i \in DOMAIN ledger : /\ ledger[i].coid = c /\ ledger[i].kind \in {"FILL", "PARTIAL_FILL"}
                                /\ ledger[i].oid = o /\ ledger[i].filled = q
  BY DEF Recorded, EntriesOf
<1>2. i \in DOMAIN ledger' /\ ledger'[i] = ledger[i]
  BY <1>1, LedgerGrows
<1> QED BY <1>1, <1>2 DEF Recorded, EntriesOf

\* What execute() last answered for c does not say that an order was filled, or refused.
Noncommittal(r) == r.status \in {"NONE", "NO_FILL_CANCELED", "UNKNOWN", "RAISED"}

\* The answers that a step may leave for c.
Says(c) ==
  \/ outcome'[c] = outcome[c]
  \/ Noncommittal(outcome'[c])
  \/ /\ pc = "count" /\ c = op.cur
     /\ outcome'[c].oid = op.oid /\ outcome'[c].filled = op.seen.filled
     /\ outcome'[c].status \in {"FILLED", "PARTIAL"}
  \/ /\ outcome'[c].status = "DENIED" /\ outcome'[c].after = outcome[c].after /\ c = op.cur
     /\ book' = book /\ (pc \in {"admitted", "create"} \/ OrdersOf(book, c) = {})

\* Telling changes the answer of the order in hand and of no other.
LEMMA TellSays ==
  ASSUME TypeOK, NEW status, NEW o, NEW q, Tell(status, o, q)
  PROVE  \A c \in Intents :
           \/ outcome'[c] = outcome[c]
           \/ /\ c = op.cur /\ outcome'[c].status = status /\ outcome'[c].oid = o
              /\ outcome'[c].filled = q /\ outcome'[c].after = outcome[c].after
<1>1. outcome \in [Intents -> Result]
  BY DEF TypeOK
<1>2. CASE op.mode = "execute"
  <2> DEFINE r == [outcome[op.cur] EXCEPT !.status = status, !.oid = o, !.filled = q]
  <2>1. outcome' = [outcome EXCEPT ![op.cur] = r]
    BY <1>2 DEF Tell
  <2>2. op.cur \in Intents => r.status = status /\ r.oid = o /\ r.filled = q /\ r.after = outcome[op.cur].after
    BY <1>1 DEF Result
  <2> HIDE DEF r
  <2> QED BY <1>1, <2>1, <2>2
<1>3. CASE op.mode # "execute"
  BY <1>3 DEF Tell
<1> QED BY <1>2, <1>3

\* Raising makes the answer RAISED, and no other.
LEMMA RaiseSays ==
  ASSUME TypeOK, Raise
  PROVE  \A c \in Intents : outcome'[c] = outcome[c] \/ outcome'[c].status = "RAISED"
<1>1. outcome \in [Intents -> Result]
  BY DEF TypeOK
<1>2. outcome' = outcome \/ outcome' = [outcome EXCEPT ![op.cur].status = "RAISED"]
  BY DEF Raise
<1>3. CASE outcome' = [outcome EXCEPT ![op.cur].status = "RAISED"]
  <2> DEFINE r == [outcome[op.cur] EXCEPT !.status = "RAISED"]
  <2>1. outcome' = [outcome EXCEPT ![op.cur] = r]
    BY <1>3
  <2>2. op.cur \in Intents => r.status = "RAISED"
    BY <1>1 DEF Result
  <2> HIDE DEF r
  <2> QED BY <1>1, <2>1, <2>2
<1> QED BY <1>2, <1>3

\* Every step leaves an answer of one of those kinds.
LEMMA StepSays ==
  ASSUME TypeOK, [Next]_vars
  PROVE  \A c \in Intents : Says(c)
<1> DEFINE Goal == \A c \in Intents : Says(c)
<1> SUFFICES Goal
  OBVIOUS
<1>1. ASSUME outcome' = outcome PROVE Goal
  BY <1>1 DEF Says
<1>2. ASSUME Tell("DENIED", 0, 0), book' = book, pc \in {"admitted", "create"} \/ OrdersOf(book, op.cur) = {}
      PROVE  Goal
  BY <1>2, TellSays DEF Says
<1>3. ASSUME Raise PROVE Goal
  BY <1>3, RaiseSays DEF Says, Noncommittal
<1>4. ASSUME NEW c \in Intents, Admit(c) PROVE Goal
  <2>1. outcome \in [Intents -> Result]
    BY DEF TypeOK
  <2>2. PICK r : r.status = "NONE" /\ outcome' = [outcome EXCEPT ![c] = r]
    BY <1>4 DEF Admit
  <2> QED BY <2>1, <2>2 DEF Says, Noncommittal
<1> HIDE DEF Goal
<1>5. CASE ExecuteStep
  <2>1. CASE WriteAheadFails
    BY <1>2, <2>1 DEF WriteAheadFails
  <2>2. CASE CreateRejected
    BY <1>2, <2>2 DEF CreateRejected
  <2>3. CASE LookupNone
    BY <1>2, <2>3 DEF LookupNone
  <2> QED BY <1>1, <1>5, <2>1, <2>2, <2>3 DEF ExecuteStep, WriteAhead, CreateAcked, CreateUncertain,
         SentNoAck, LookupFound, LookupUncertain, Ack
<1>6. CASE SettleStep
  <2>1. CASE CountFill
    <3>1. PICK status \in {"PARTIAL", "FILLED"} : Tell(status, op.oid, op.seen.filled)
      BY <2>1 DEF CountFill
    <3>2. pc = "count"
      BY <2>1 DEF CountFill
    <3> QED BY <3>1, <3>2, TellSays DEF Says, Goal
  <2>2. CASE CountFillRaises
    BY <1>3, <2>2 DEF CountFillRaises
  <2>3. CASE RecordNoFill
    BY <2>3, TellSays DEF RecordNoFill, Says, Noncommittal, Goal
  <2>4. CASE HaltOnUnknown
    BY <2>4, TellSays DEF HaltOnUnknown, Says, Noncommittal, Goal
  <2> QED BY <1>1, <1>6, <2>1, <2>2, <2>3, <2>4 DEF SettleStep, RecordFill, Poll, PollIf, Timeout,
         OutsideTheMachine, Cancel, Reread, RecordUnknown, ReadHalt
<1>7. CASE ReconcileStep
  BY <1>1, <1>7 DEF ReconcileStep, ReconcileError, ReconcileNone, ReconcileFound, LeftOpenRaises,
     ScanOpenOrders, StrayOrder, StrayRaises, Summary, HaltPolicy, PolicyRaises
<1>8. CASE \E e \in UnguardedEntries : LedgerRaises(e)
  BY <1>3, <1>8 DEF LedgerRaises
<1>9. CASE Startup \/ Crash \/ LedgerBreaks \/ ManualHalt \/ ManualClear \/ BrokerStep \/ UNCHANGED vars
  BY <1>1, <1>9 DEF Startup, Crash, LedgerBreaks, ManualHalt, ManualClear, HaltFileChanges, BrokerStep, BrokerFill,
     BrokerExpire, vars
<1> QED BY <1>4, <1>5, <1>6, <1>7, <1>8, <1>9 DEF Next, ProcessStep

\* How a step comes to the count, and to create_order.
LEMMA StepArrives ==
  ASSUME TypeOK, [Next]_vars
  PROVE  /\ pc' = "count" => op' = op /\ (pc = "count" \/ RecordFill)
         /\ pc' \in {"admitted", "create"} =>
              \/ /\ op' = op /\ outcome' = outcome /\ Len(book') = Len(book)
                 /\ pc \in {"admitted", "create"}
              \/ \E c \in Intents : Admit(c)
<1> DEFINE Goal == /\ pc' = "count" => op' = op /\ (pc = "count" \/ RecordFill)
                   /\ pc' \in {"admitted", "create"} =>
                        \/ /\ op' = op /\ outcome' = outcome /\ Len(book') = Len(book)
                           /\ pc \in {"admitted", "create"}
                        \/ \E c \in Intents : Admit(c)
<1> SUFFICES Goal
  OBVIOUS
<1>1. ASSUME pc' \notin {"count", "admitted", "create"} PROVE Goal
  BY <1>1
<1>2. CASE \E c \in Intents : Admit(c)
  BY <1>2 DEF Admit, Goto
<1>3. ASSUME Return PROVE Goal
  BY <1>1, <1>3, ReturnType
<1>4. ASSUME Abandon PROVE Goal
  BY <1>1, <1>4 DEF Abandon, Goto
<1>5. ASSUME pc' = pc, op' = op, outcome' = outcome, Len(book') = Len(book) PROVE Goal
  BY <1>5
<1>6. CASE WriteAhead
  BY <1>6 DEF WriteAhead, Goto
<1>7. CASE RecordFill
  BY <1>7 DEF RecordFill, Goto
<1> HIDE DEF Goal
<1>8. CASE ExecuteStep
  BY <1>1, <1>3, <1>6, <1>8 DEF ExecuteStep, WriteAheadFails, CreateAcked, CreateRejected, CreateUncertain,
     SentNoAck, LookupFound, LookupNone, LookupUncertain, Ack, Goto
<1>9. CASE SettleStep
  <2>1. CASE Poll
    <3>1. pc' = pc \/ pc' = "unknown"
      BY <2>1 DEF Poll, PollIf, Goto
    <3>2. pc = "settle"
      BY <2>1 DEF Poll, PollIf
    <3> QED BY <1>1, <3>1, <3>2
  <2> QED BY <1>1, <1>3, <1>4, <1>7, <1>9, <2>1 DEF SettleStep, CountFill, CountFillRaises, RecordNoFill,
         Timeout, OutsideTheMachine, Cancel, Reread, RecordUnknown, ReadHalt, HaltOnUnknown, Raise, Goto
<1>10. CASE ReconcileStep
  <2>1. ASSUME NEW c \in run.todo, ReconcileError(c) \/ ReconcileNone(c) \/ ReconcileFound(c) \/ LeftOpenRaises(c)
        PROVE  Goal
    <3>1. pc' \notin {"count", "admitted", "create"}
      BY <2>1 DEF ReconcileError, ReconcileNone, ReconcileFound, LeftOpenRaises, Reconciling, Abandon, Goto
    <3> QED BY <1>1, <3>1
  <2>2. ASSUME NEW o \in run.strays, StrayOrder(o) PROVE Goal
    BY <1>1, <2>2 DEF StrayOrder, Goto
  <2>3. CASE ScanOpenOrders \/ StrayRaises \/ Summary \/ HaltPolicy \/ PolicyRaises
    BY <1>1, <2>3 DEF ScanOpenOrders, StrayRaises, Summary, HaltPolicy, PolicyRaises, Abandon, Goto
  <2> QED BY <1>10, <2>1, <2>2, <2>3 DEF ReconcileStep
<1>11. CASE \E e \in UnguardedEntries : LedgerRaises(e)
  BY <1>4, <1>11 DEF LedgerRaises, Raise
<1>12. CASE Startup \/ Crash
  BY <1>1, <1>12 DEF Startup, Crash, Abandon, Goto
<1>13. CASE LedgerBreaks \/ ManualHalt \/ ManualClear \/ UNCHANGED vars
  BY <1>5, <1>13 DEF LedgerBreaks, ManualHalt, ManualClear, HaltFileChanges, vars
<1>14. CASE BrokerStep
  <2>1. PICK o \in DOMAIN book : BrokerFill(o) \/ BrokerExpire(o)
    BY <1>14 DEF BrokerStep
  <2>2. book \in Seq(Order)
    BY DEF TypeOK
  <2>3. \A r : Len([book EXCEPT ![o] = r]) = Len(book)
    BY <2>1, <2>2, ExceptSeq, LenProperties
  <2>4. PICK r : book' = [book EXCEPT ![o] = r]
    BY <2>1 DEF BrokerFill, BrokerExpire
  <2> QED BY <1>5, <2>1, <2>3, <2>4 DEF BrokerFill, BrokerExpire
<1> QED BY <1>2, <1>8, <1>9, <1>10, <1>11, <1>12, <1>13, <1>14 DEF Next, ProcessStep

\* RecordFill puts the answer in hand on record.
LEMMA FillRecorded ==
  ASSUME TypeOK, OrdersInHand, RecordFill
  PROVE  /\ op.cur \in Intents
         /\ \A c \in Intents : FillsOf(c)' = FillsOf(c) \cup (IF c = op.cur THEN {Len(ledger) + 1} ELSE {})
         /\ Len(ledger) + 1 \in DOMAIN ledger' /\ Len(ledger) + 1 \notin DOMAIN ledger
         /\ ledger'[Len(ledger) + 1].oid = op.oid /\ ledger'[Len(ledger) + 1].filled = op.seen.filled
<1> DEFINE n == Len(ledger) + 1
           e == FillEntry
<1>0. /\ ledger \in Seq(Entry) /\ op.cur \in Intents
  BY DEF TypeOK, OrdersInHand, RecordFill, HoldsIntent, HoldsOrder
<1>1. ledger' = Append(ledger, e)
  BY DEF RecordFill, Appends
<1>2. e.coid = op.cur /\ e.oid = op.oid /\ e.filled = op.seen.filled /\ e.kind \in {"FILL", "PARTIAL_FILL"}
  BY DEF FillEntry, CloseEntry, FillKind
<1>3. e \in Entry
  BY FillWritable DEF RecordFill, Writable
<1> HIDE DEF e
<1>4. /\ DOMAIN ledger = 1..Len(ledger) /\ Len(ledger) \in Nat /\ DOMAIN ledger' = 1..n
      /\ \A i \in DOMAIN ledger : ledger'[i] = ledger[i]
      /\ ledger'[n] = e
  BY <1>0, <1>1, <1>3, AppendProperties, LenProperties
<1>5. DOMAIN ledger' = DOMAIN ledger \cup {n} /\ n \notin DOMAIN ledger
  BY <1>4
<1> HIDE DEF n
<1>6. ASSUME NEW c \in Intents
      PROVE  FillsOf(c)' = FillsOf(c) \cup (IF c = op.cur THEN {n} ELSE {})
  <2>1. \A i \in DOMAIN ledger : i \in FillsOf(c)' <=> i \in FillsOf(c)
    BY <1>4, <1>5 DEF FillsOf, EntriesOf
  <2>2. n \in FillsOf(c)' <=> c = op.cur
    BY <1>2, <1>4, <1>5 DEF FillsOf, EntriesOf
  <2>3. FillsOf(c) \subseteq DOMAIN ledger /\ FillsOf(c)' \subseteq DOMAIN ledger'
    BY DEF FillsOf, EntriesOf
  <2>4. CASE c = op.cur
    BY <1>5, <2>1, <2>2, <2>3, <2>4
  <2>5. CASE c # op.cur
    BY <1>5, <2>1, <2>2, <2>3, <2>5
  <2> QED BY <2>4, <2>5
<1> QED BY <1>0, <1>2, <1>4, <1>5, <1>6 DEF n

\* Every step keeps the answers true: a new order is of the intent in hand, whose call has not
\* answered yet.
LEMMA AnsweredStep ==
  ASSUME IInv, Answered, [Next]_vars
  PROVE  Answered'
<1>0. TypeOK /\ OrdersInHand /\ book \in Seq(Order) /\ DOMAIN book = 1..Len(book)
  BY LenProperties DEF IInv, TypeOK
<1>1. ASSUME NEW c \in Intents, outcome'[c].status \in {"FILLED", "PARTIAL"}
      PROVE  Recorded(ledger', c, outcome'[c].oid, outcome'[c].filled)
  <2>1. CASE outcome'[c] = outcome[c]
    <3>1. Recorded(ledger, c, outcome[c].oid, outcome[c].filled)
      BY <1>1, <2>1 DEF Answered
    <3>2. PICK o, q : o = outcome[c].oid /\ q = outcome[c].filled
      OBVIOUS
    <3>3. Recorded(ledger', c, o, q)
      BY <1>0, <3>1, <3>2, RecordedStays
    <3>4. outcome'[c].oid = o /\ outcome'[c].filled = q
      BY <2>1, <3>2
    <3> QED BY <3>3, <3>4 DEF Recorded
  <2>2. CASE /\ pc = "count" /\ c = op.cur
             /\ outcome'[c].oid = op.oid /\ outcome'[c].filled = op.seen.filled
    <3>1. Recorded(ledger, c, op.oid, op.seen.filled)
      BY <2>2 DEF Answered
    <3>2. PICK o, q : o = op.oid /\ q = op.seen.filled
      OBVIOUS
    <3>3. Recorded(ledger', c, o, q)
      BY <1>0, <3>1, <3>2, RecordedStays
    <3>4. outcome'[c].oid = o /\ outcome'[c].filled = q
      BY <2>2, <3>2
    <3> QED BY <3>3, <3>4 DEF Recorded
  <2> QED BY <1>0, <1>1, <2>1, <2>2, StepSays DEF Says, Noncommittal
<1>2. ASSUME NEW c \in Intents, outcome'[c].status = "DENIED", NEW o \in OrdersOf(book', c)
      PROVE  o <= outcome'[c].after
  <2>1. o \in DOMAIN book' /\ book'[o].client = c
    BY <1>2 DEF OrdersOf
  <2>2. CASE outcome'[c] = outcome[c]
    <3>1. ~(pc = "create" /\ c = op.cur)
      BY <1>2, <2>2 DEF Answered
    <3>2. o \in DOMAIN book
      BY <1>0, <2>1, <3>1, BookStep
    <3>3. o \in OrdersOf(book, c)
      BY <1>0, <2>1, <3>2, BookStep DEF Extends, OrdersOf
    <3> QED BY <1>2, <2>2, <3>3 DEF Answered
  <2>3. CASE /\ outcome'[c].after = outcome[c].after /\ c = op.cur
             /\ book' = book /\ (pc \in {"admitted", "create"} \/ OrdersOf(book, c) = {})
    <3>1. pc \in {"admitted", "create"}
      BY <1>2, <2>3
    <3>2. outcome[c].after = Len(book)
      BY <2>3, <3>1 DEF Answered
    <3>3. o \in 1..Len(book)
      BY <1>0, <2>1, <2>3
    <3> QED BY <2>3, <3>2, <3>3
  <2> QED BY <1>0, <1>2, <2>2, <2>3, StepSays DEF Says, Noncommittal
<1>3. ASSUME pc' = "count" PROVE Recorded(ledger', op'.cur, op'.oid, op'.seen.filled)
  <2>1. op' = op /\ (pc = "count" \/ RecordFill)
    BY <1>0, <1>3, StepArrives
  <2>2. CASE pc = "count"
    <3>1. Recorded(ledger, op.cur, op.oid, op.seen.filled)
      BY <2>2 DEF Answered
    <3>2. PICK c, o, q : c = op.cur /\ o = op.oid /\ q = op.seen.filled
      OBVIOUS
    <3>3. Recorded(ledger', c, o, q)
      BY <1>0, <3>1, <3>2, RecordedStays
    <3> QED BY <2>1, <3>2, <3>3
  <2>3. CASE RecordFill
    <3>1. PICK c : c = op.cur
      OBVIOUS
    <3>2. \E i \in FillsOf(c)' : ledger'[i].oid = op.oid /\ ledger'[i].filled = op.seen.filled
      BY <1>0, <2>3, <3>1, FillRecorded
    <3>3. Recorded(ledger', c, op.oid, op.seen.filled)
      BY <3>2 DEF Recorded, FillsOf
    <3> QED BY <2>1, <3>1, <3>3
  <2> QED BY <2>1, <2>2, <2>3
<1>4. ASSUME pc' \in {"admitted", "create"}
      PROVE  op'.mode = "execute" /\ outcome'[op'.cur].status = "NONE" /\ outcome'[op'.cur].after = Len(book')
  <2>1. CASE op' = op /\ outcome' = outcome /\ Len(book') = Len(book) /\ pc \in {"admitted", "create"}
    BY <2>1 DEF Answered
  <2>2. ASSUME NEW c \in Intents, Admit(c)
        PROVE  op'.mode = "execute" /\ outcome'[op'.cur].status = "NONE" /\ outcome'[op'.cur].after = Len(book')
    <3>1. op'.cur = c /\ op'.mode = "execute" /\ book' = book
      BY <2>2 DEF Admit, NoOp
    <3>2. outcome \in [Intents -> Result]
      BY <1>0 DEF TypeOK
    <3>3. PICK r : r.status = "NONE" /\ r.after = Len(book) /\ outcome' = [outcome EXCEPT ![c] = r]
      BY <2>2 DEF Admit
    <3> QED BY <3>1, <3>2, <3>3
  <2> QED BY <1>0, <1>4, <2>1, <2>2, StepArrives
<1> QED BY <1>1, <1>2, <1>3, <1>4 DEF Answered

\* What execute() answers is in the ledger, and a denial after the gates created no order: for
\* every broker that honours G1 to G9, with crashes and with writes that fail.
THEOREM AnswersAreOnRecord == Spec => []ResultMatchesLedger
<1>1. Init => Answered
  BY DEF Init, Answered
<1>2. IInv /\ Answered /\ [Next]_vars => Answered'
  BY AnsweredStep
<1>3. Answered => ResultMatchesLedger
  BY DEF Answered, ResultMatchesLedger, Recorded, FillsOf
<1> QED BY <1>1, <1>2, <1>3, Inductive, PTL DEF Spec

-----------------------------------------------------------------------------
(* A startup() that lifts the halt *)

\* As long as startup() has found nothing: there was nothing to reconcile, and every resting order is
\* still to be looked at, or is known; and so it is when startup() has decided to lift the halt.
Quiet ==
  /\ pc = "reconcile" /\ ~run.found =>
       run.todo = Pending(index) /\ \A c \in Intents : index[c] = Rebuilt(ledger, c)
  /\ pc = "strays" /\ ~run.found =>
       /\ \A c \in Intents : ~InFlight(Rebuilt(ledger, c))
       /\ \A o \in OpenOrders : o \in run.strays \/ o \in KnownIds \/ Indexed(book[o].client)
  /\ pc = "policy" /\ op.next = "none" =>
       /\ \A c \in Intents : ~InFlight(Rebuilt(ledger, c))
       /\ \A o \in OpenOrders : o \in KnownIds \/ Indexed(book[o].client)

\* Returning from an order, startup() has found one.
LEMMA ReturnFinds ==
  ASSUME TypeOK, NEW status, NEW o, NEW q, Tell(status, o, q), Return
  PROVE  pc' = "idle" \/ run'.found = TRUE
<1>1. CASE op.mode = "execute"
  BY <1>1 DEF Return
<1>2. CASE op.mode # "execute"
  BY <1>2 DEF Tell, TypeOK, Run
<1> QED BY <1>1, <1>2

\* Orders that rest after a step of the broker rested before.
LEMMA RestingShrinks ==
  ASSUME TypeOK, BrokerStep
  PROVE  \A o \in OpenOrders' : o \in OpenOrders /\ book'[o].client = book[o].client
<1>1. BookCalm
  BY BrokerCalm DEF TypeOK
<1> QED BY <1>1 DEF BookCalm, Moves, OpenOrders

\* Every step keeps it: what startup() finds sets run.found, and a broker adds no resting order.
LEMMA QuietStep ==
  ASSUME TypeOK, Quiet, [Next]_vars
  PROVE  Quiet'
<1> DEFINE Goal == Quiet'
<1> SUFFICES Goal
  OBVIOUS
<1>0. run \in Run /\ op \in Op
  BY DEF TypeOK
<1>1. ASSUME pc' \notin {"reconcile", "strays", "policy"} \/ (run'.found = TRUE /\ pc' # "policy") PROVE Goal
  BY <1>1 DEF Quiet
<1>2. ASSUME pc' = pc, UNCHANGED <<run, op, index, ledger, book>> PROVE Goal
  BY <1>2 DEF Quiet, OpenOrders, KnownIds, Indexed
<1> HIDE DEF Goal
<1>3. \A c : [run EXCEPT !.todo = @ \ {c}, !.found = TRUE].found = TRUE
  BY <1>0 DEF Run
<1>4. CASE Startup
  <2>1. CASE disk = "torn"
    BY <1>1, <1>4, <2>1 DEF Startup
  <2>2. CASE disk # "torn"
    <3>1. pc' = "reconcile" /\ run'.todo = Pending(index') /\ \A c \in Intents : index'[c] = Rebuilt(ledger', c)
      BY <1>4, <2>2 DEF Startup, Goto, NoRun, durable
    <3> QED BY <3>1 DEF Quiet, Goal
  <2> QED BY <2>1, <2>2
<1>5. CASE ScanOpenOrders
  <2>1. CASE run' = [run EXCEPT !.found = TRUE]
    BY <1>0, <1>1, <1>5, <2>1 DEF Run, ScanOpenOrders, Goto
  <2>2. CASE run' = [run EXCEPT !.strays = {o \in OpenOrders : o \notin KnownIds /\ ~Indexed(book[o].client)}]
    <3>1. /\ run'.strays = {o \in OpenOrders : o \notin KnownIds /\ ~Indexed(book[o].client)}
          /\ run'.found = run.found
      BY <1>0, <2>2 DEF Run
    <3>2. pc = "reconcile" /\ run.todo = {} /\ pc' = "strays" /\ UNCHANGED <<ledger, book, index>>
      BY <1>5 DEF ScanOpenOrders, Goto, durable
    <3>3. ASSUME ~run.found PROVE \A c \in Intents : ~InFlight(Rebuilt(ledger, c))
      BY <3>2, <3>3 DEF Quiet, Pending
    <3>4. KnownIds' = KnownIds /\ OpenOrders' = OpenOrders /\ \A c : Indexed(c)' <=> Indexed(c)
      BY <3>2 DEF KnownIds, OpenOrders, Indexed
    <3> QED BY <3>1, <3>2, <3>3, <3>4 DEF Quiet, Goal
  <2> QED BY <1>5, <2>1, <2>2 DEF ScanOpenOrders
<1>6. CASE BrokerStep
  <2>1. pc' = pc /\ UNCHANGED <<run, op, index, ledger>>
    BY <1>6 DEF BrokerStep, BrokerFill, BrokerExpire, durable
  <2>2. KnownIds' = KnownIds /\ \A c : Indexed(c)' <=> Indexed(c)
    BY <2>1 DEF KnownIds, Indexed
  <2> QED BY <1>6, <2>1, <2>2, RestingShrinks DEF Quiet, Goal
<1>7. CASE LedgerBreaks \/ ManualHalt \/ ManualClear \/ UNCHANGED vars
  BY <1>2, <1>7 DEF LedgerBreaks, ManualHalt, ManualClear, HaltFileChanges, vars
<1>8. ASSUME Abandon PROVE Goal
  BY <1>1, <1>8 DEF Abandon, Goto
<1>9. CASE Crash \/ \E e \in UnguardedEntries : LedgerRaises(e)
  BY <1>8, <1>9 DEF Crash, LedgerRaises, Raise
<1>10. CASE \E c \in Intents : Admit(c)
  BY <1>1, <1>10 DEF Admit, Goto
<1>11. ASSUME NEW status, NEW o, NEW q, Tell(status, o, q), Return PROVE Goal
  BY <1>1, <1>11, ReturnFinds DEF Return
<1>12. CASE ExecuteStep
  <2>1. CASE WriteAheadFails \/ CreateRejected \/ LookupNone
    BY <1>11, <2>1 DEF WriteAheadFails, CreateRejected, LookupNone
  <2> QED BY <1>1, <1>12, <2>1 DEF ExecuteStep, WriteAhead, CreateAcked, CreateUncertain, SentNoAck,
         LookupFound, LookupUncertain, Ack, Goto
<1>13. CASE SettleStep
  <2>1. CASE CountFill \/ RecordNoFill \/ HaltOnUnknown
    BY <1>11, <2>1 DEF CountFill, RecordNoFill, HaltOnUnknown
  <2>2. CASE Poll
    BY <1>1, <2>2 DEF Poll, PollIf, Goto
  <2> QED BY <1>1, <1>8, <1>13, <2>1, <2>2 DEF SettleStep, RecordFill, CountFillRaises, Timeout,
         OutsideTheMachine, Cancel, Reread, RecordUnknown, ReadHalt, Raise, Goto
<1>14. CASE ReconcileStep
  <2>1. ASSUME NEW c \in run.todo, ReconcileError(c) \/ ReconcileNone(c) \/ ReconcileFound(c)
        PROVE  Goal
    <3>1. pc' # "policy"
      BY <2>1 DEF ReconcileError, ReconcileNone, ReconcileFound, Reconciling, Goto
    <3> QED BY <1>1, <1>3, <2>1, <3>1 DEF ReconcileError, ReconcileNone, ReconcileFound
  <2>2. ASSUME NEW c \in run.todo, LeftOpenRaises(c) PROVE Goal
    BY <1>8, <2>2 DEF LeftOpenRaises
  <2>3. ASSUME NEW o \in run.strays, StrayOrder(o) PROVE Goal
    BY <1>1, <2>3 DEF StrayOrder, Goto
  <2>4. CASE HaltPolicy
    BY <1>1, <2>4 DEF HaltPolicy, Goto
  <2>5. CASE StrayRaises \/ PolicyRaises
    BY <1>8, <2>5 DEF StrayRaises, PolicyRaises
  <2>6. CASE Summary
    <3>1. /\ pc = "strays" /\ run.strays = {} /\ pc' = "policy" /\ UNCHANGED <<ledger, book, index>>
          /\ op'.next = IF run.found THEN (IF run.unknown THEN "-" ELSE HaltToSet)
                         ELSE (IF halt = "auto" THEN "none" ELSE "-")
      BY <1>0, <2>6 DEF Summary, Goto, durable, Op
    <3>2. op'.next = "none" => ~run.found
      BY <3>1 DEF HaltToSet
    <3>3. KnownIds' = KnownIds /\ OpenOrders' = OpenOrders /\ \A c : Indexed(c)' <=> Indexed(c)
      BY <3>1 DEF KnownIds, OpenOrders, Indexed
    <3> QED BY <3>1, <3>2, <3>3 DEF Quiet, Goal
  <2> QED BY <1>5, <1>14, <2>1, <2>2, <2>3, <2>4, <2>5, <2>6 DEF ReconcileStep
<1> QED BY <1>4, <1>6, <1>7, <1>9, <1>10, <1>12, <1>13, <1>14 DEF Next, ProcessStep

\* A startup() that lifts a halt, its own or one it overtakes, leaves nothing pending, and every
\* order that rests at the broker is ours or is named by the ledger: whatever was sent before,
\* whoever cleared or set the halt in between, and however often the process died.
THEOREM HaltIsClearedQuietly == Spec => QuietClear
<1>1. Init => Quiet
  BY DEF Init, Quiet
<1>2. IInv /\ Quiet /\ [Next]_vars => Quiet'
  BY QuietStep DEF IInv
<1>3. ASSUME IInv, Quiet, [Next]_vars, pc = "policy", halt # "none", halt' = "none", ~ManualClear
      PROVE  /\ \A c \in Intents : ~InFlight(Rebuilt(ledger, c))
             /\ \A o \in OpenOrders :
                  book[o].client \in Intents \/ \E i \in DOMAIN ledger : ledger[i].oid = o
  <2>0. TypeOK /\ OwnOrdersNamed
    BY <1>3 DEF IInv
  <2>1. HaltPolicy
    <3>1. ~ExecuteStep
      BY <1>3 DEF ExecuteStep, WriteAhead, WriteAheadFails, CreateAcked, CreateRejected, CreateUncertain,
         SentNoAck, LookupFound, LookupNone, LookupUncertain, Ack
    <3>2. ~SettleStep
      BY <1>3 DEF SettleStep, RecordFill, CountFill, CountFillRaises, RecordNoFill, Poll, PollIf, Timeout,
         OutsideTheMachine, Cancel, Reread, RecordUnknown, ReadHalt, HaltOnUnknown
    <3>3. ~((\E c \in Intents : Admit(c)) \/ Startup \/ Crash \/ LedgerBreaks \/ ManualHalt \/ UNCHANGED vars)
      BY <1>3 DEF Admit, Startup, Crash, LedgerBreaks, ManualHalt, HaltFileChanges, durable, vars
    <3>4. ~BrokerStep
      BY <1>3 DEF BrokerStep, BrokerFill, BrokerExpire, durable
    <3>5. ~\E e \in UnguardedEntries : LedgerRaises(e)
      BY <1>3 DEF LedgerRaises
    <3>6. ASSUME NEW c \in run.todo, ReconcileError(c) \/ ReconcileNone(c) \/ ReconcileFound(c) \/ LeftOpenRaises(c)
          PROVE  FALSE
      BY <1>3, <3>6 DEF ReconcileError, ReconcileNone, ReconcileFound, LeftOpenRaises, Reconciling, durable
    <3>7. ASSUME NEW o \in run.strays, StrayOrder(o) PROVE FALSE
      BY <1>3, <3>7 DEF StrayOrder, durable
    <3>8. ~(ScanOpenOrders \/ StrayRaises \/ Summary \/ PolicyRaises)
      BY <1>3 DEF ScanOpenOrders, StrayRaises, Summary, PolicyRaises, durable
    <3> QED BY <1>3, <3>1, <3>2, <3>3, <3>4, <3>5, <3>6, <3>7, <3>8 DEF Next, ProcessStep, ReconcileStep
  <2>2. op.next = "none"
    BY <1>3, <2>1 DEF HaltPolicy, HaltWritten
  <2>3. /\ \A c \in Intents : ~InFlight(Rebuilt(ledger, c))
        /\ \A o \in OpenOrders : o \in KnownIds \/ Indexed(book[o].client)
    BY <1>3, <2>2 DEF Quiet
  <2>4. ASSUME NEW o \in OpenOrders
        PROVE  book[o].client \in Intents \/ \E i \in DOMAIN ledger : ledger[i].oid = o
    <3>1. book \in Seq(Order) /\ o \in DOMAIN book /\ o # 0
      BY <2>0, LenProperties DEF OpenOrders, TypeOK
    <3>2. book[o].client \in Intents \cup {NoIntent}
      <4>1. book[o] \in Order
        BY <3>1
      <4> QED BY <4>1 DEF Order
    <3>3. CASE Indexed(book[o].client)
      BY <3>2, <3>3 DEF Indexed
    <3>4. ASSUME NEW c \in Intents, index[c].oid = o PROVE book[o].client \in Intents
      BY <2>0, <3>1, <3>4 DEF OwnOrdersNamed, OrdersOf
    <3>5. CASE \E i \in EntriesOf(ledger, NoIntent) : o = ledger[i].oid
      BY <3>5 DEF EntriesOf
    <3> QED BY <2>3, <3>3, <3>4, <3>5 DEF KnownIds
  <2> QED BY <2>3, <2>4
<1>4. IInv /\ Quiet /\ [Next]_vars =>
        [pc = "policy" /\ halt # "none" /\ halt' = "none" =>
           \/ ManualClear
           \/ /\ \A c \in Intents : ~InFlight(Rebuilt(ledger, c))
              /\ \A o \in OpenOrders :
                   book[o].client \in Intents \/ \E i \in DOMAIN ledger : ledger[i].oid = o]_vars
  BY <1>3
<1> QED BY <1>1, <1>2, <1>4, Inductive, PTL DEF Spec, QuietClear

-----------------------------------------------------------------------------
(* Sums over finite sets *)

\* A set of numbers that has 0, and with every number the next, has them all.
LEMMA NatSetInduction ==
  ASSUME NEW S, 0 \in S, \A n \in Nat : n \in S => n + 1 \in S
  PROVE  Nat \subseteq S
<1> DEFINE T == Nat \ S
<1>1. SUFFICES ASSUME T # {} PROVE FALSE
  OBVIOUS
<1>2. T \subseteq Nat
  OBVIOUS
<1>3. PICK x \in T : \A y \in T : ~ (<<y, x>> \in OpToRel(<, Nat))
  BY <1>1, <1>2, WFMin, NatLessThanWellFounded, Zenon
<1>4. x \in Nat /\ x # 0 /\ x \notin S
  OBVIOUS
<1>5. x - 1 \in Nat /\ x - 1 + 1 = x
  BY <1>4
<1>6. x - 1 \notin S
  BY <1>4, <1>5
<1>7. <<x - 1, x>> \in OpToRel(<, Nat)
  <2>1. <<x - 1, x>> \in Nat \X Nat
    BY <1>4, <1>5
  <2>2. x - 1 < x
    BY <1>4
  <2> QED
    BY <2>1, <2>2 DEF OpToRel
<1> QED
  BY <1>3, <1>5, <1>6, <1>7

\* A sum over a finite set, as MapThenSumSet defines it: g[s] is the sum of f over s, for the
\* subsets s of T.
Pick(s) == CHOOSE x \in s : TRUE

SumStep(g, f, s) == IF s = {} THEN 0 ELSE f[Pick(s)] + g[s \ {Pick(s)}]
SumEq(g, f, D) == g = [s \in D |-> SumStep(g, f, s)]
IsSum(g, f, T) == IsFiniteSet(T) /\ f \in [T -> Nat] /\ SumEq(g, f, SUBSET T)

\* What is picked from a set that is not empty is in it.
LEMMA PickIn == \A s : s # {} => Pick(s) \in s
BY DEF Pick

\* Removing an element from a finite set.
LEMMA Smaller ==
  ASSUME NEW s, NEW x, x \in s, IsFiniteSet(s)
  PROVE  /\ IsFiniteSet(s \ {x}) /\ Cardinality(s) \in Nat /\ Cardinality(s \ {x}) \in Nat
         /\ Cardinality(s \ {x}) = Cardinality(s) - 1
BY FS_RemoveElement, FS_CardinalityType

\* There is such a function, for every f.
LEMMA SumExists ==
  ASSUME NEW T, IsFiniteSet(T), NEW f
  PROVE  \E g : SumEq(g, f, SUBSET T)
<1> DEFINE Sub(n) == {s \in SUBSET T : Cardinality(s) <= n}
           P == {n \in Nat : \E g : SumEq(g, f, Sub(n))}
<1>0. \A s \in SUBSET T : IsFiniteSet(s) /\ Cardinality(s) \in Nat
  BY FS_Subset, FS_CardinalityType
<1>1. 0 \in P
  <2> DEFINE g == [s \in Sub(0) |-> 0]
  <2>1. ASSUME NEW s \in Sub(0) PROVE s = {}
    BY <1>0, FS_EmptySet
  <2>2. SumEq(g, f, Sub(0))
    BY <2>1 DEF SumEq, SumStep
  <2> QED
    BY <2>2
<1>2. ASSUME NEW n \in Nat, n \in P PROVE n + 1 \in P
  <2>1. PICK g : SumEq(g, f, Sub(n))
    BY <1>2
  <2> DEFINE h == [s \in Sub(n + 1) |-> SumStep(g, f, s)]
  <2>2. ASSUME NEW u \in Sub(n) PROVE h[u] = g[u]
    <3>1. u \in Sub(n + 1)
      BY <1>0
    <3> QED
      BY <2>1, <3>1 DEF SumEq
  <2>3. ASSUME NEW s \in Sub(n + 1), s # {} PROVE s \ {Pick(s)} \in Sub(n)
    <3>1. Cardinality(s \ {Pick(s)}) = Cardinality(s) - 1
      BY <1>0, <2>3, PickIn, Smaller
    <3> QED
      BY <3>1, <1>0
  <2>4. ASSUME NEW s \in Sub(n + 1) PROVE SumStep(g, f, s) = SumStep(h, f, s)
    BY <2>2, <2>3 DEF SumStep
  <2>5. SumEq(h, f, Sub(n + 1))
    <3> HIDE DEF Sub
    <3> QED
      BY <2>4 DEF SumEq
  <2> HIDE DEF h, Sub
  <2>6. \E k : SumEq(k, f, Sub(n + 1))
    BY <2>5
  <2>7. n + 1 \in Nat
    OBVIOUS
  <2> QED
    BY <2>6, <2>7
<1>3. Cardinality(T) \in P
  <2> HIDE DEF P
  <2>1. Nat \subseteq P
    BY <1>1, <1>2, NatSetInduction
  <2> QED
    BY <2>1, FS_CardinalityType
<1>4. Sub(Cardinality(T)) = SUBSET T
  BY FS_Subset
<1> QED
  BY <1>3, <1>4

\* What it means to be a sum, set by set.
LEMMA SumFacts ==
  ASSUME NEW T, NEW f, NEW g, IsSum(g, f, T)
  PROVE  /\ \A s \in SUBSET T : IsFiniteSet(s) /\ Cardinality(s) \in Nat
         /\ \A x \in T : f[x] \in Nat
         /\ \A s \in SUBSET T : g[s] = SumStep(g, f, s)
BY FS_Subset, FS_CardinalityType DEF IsSum, SumEq

\* A sum of natural numbers is one.
LEMMA SumType ==
  ASSUME NEW T, NEW f, NEW g, IsSum(g, f, T)
  PROVE  \A s \in SUBSET T : g[s] \in Nat
<1> DEFINE P == {n \in Nat : \A s \in SUBSET T : Cardinality(s) = n => g[s] \in Nat}
<1>0. /\ \A s \in SUBSET T : IsFiniteSet(s) /\ Cardinality(s) \in Nat
      /\ \A x \in T : f[x] \in Nat
      /\ \A s \in SUBSET T : g[s] = SumStep(g, f, s)
  BY SumFacts
<1>1. 0 \in P
  BY <1>0, FS_EmptySet DEF SumStep
<1>2. ASSUME NEW n \in Nat, n \in P PROVE n + 1 \in P
  <2> SUFFICES ASSUME NEW s \in SUBSET T, Cardinality(s) = n + 1 PROVE g[s] \in Nat
    OBVIOUS
  <2>1. s # {}
    BY FS_EmptySet
  <2>2. Pick(s) \in s
    BY <2>1, PickIn
  <2>3. Cardinality(s \ {Pick(s)}) = n
    BY <1>0, <2>2, Smaller
  <2>4. g[s \ {Pick(s)}] \in Nat
    BY <1>2, <2>3
  <2>5. f[Pick(s)] \in Nat
    BY <1>0, <2>2
  <2> QED
    <3>1. g[s] = f[Pick(s)] + g[s \ {Pick(s)}]
      BY <1>0, <2>1 DEF SumStep
    <3> QED
      BY <2>4, <2>5, <3>1
<1>3. Nat \subseteq P
  <2> HIDE DEF P
  <2> QED
    BY <1>1, <1>2, NatSetInduction
<1> QED
  BY <1>0, <1>3

\* The elements can be added in any order.
LEMMA SumAnyOrder ==
  ASSUME NEW T, NEW f, NEW g, IsSum(g, f, T)
  PROVE  \A s \in SUBSET T : \A x \in s : g[s] = f[x] + g[s \ {x}]
<1> DEFINE P == {n \in Nat : \A s \in SUBSET T : Cardinality(s) = n => \A x \in s : g[s] = f[x] + g[s \ {x}]}
<1>0. /\ \A s \in SUBSET T : IsFiniteSet(s) /\ Cardinality(s) \in Nat
      /\ \A x \in T : f[x] \in Nat
      /\ \A s \in SUBSET T : g[s] = SumStep(g, f, s)
  BY SumFacts
<1>0b. \A s \in SUBSET T : g[s] \in Nat
  BY SumType
<1>1. 0 \in P
  BY <1>0, FS_EmptySet
<1>2. ASSUME NEW n \in Nat, n \in P PROVE n + 1 \in P
  <2> SUFFICES ASSUME NEW s \in SUBSET T, Cardinality(s) = n + 1, NEW x \in s PROVE g[s] = f[x] + g[s \ {x}]
    OBVIOUS
  <2>0. PICK c : c = Pick(s)
    OBVIOUS
  <2>1. c \in s
    BY <2>0, PickIn
  <2>2. g[s] = f[c] + g[s \ {c}]
    BY <1>0, <2>0 DEF SumStep
  <2>3. CASE x = c
    BY <2>2, <2>3
  <2>4. CASE x # c
    <3> DEFINE u == s \ {c}
               v == s \ {x}
    <3>1. Cardinality(u) = n /\ Cardinality(v) = n
      BY <1>0, <2>1, Smaller
    <3>2. u \in SUBSET T /\ v \in SUBSET T /\ x \in u /\ c \in v
      BY <2>1, <2>4
    <3>3. g[u] = f[x] + g[u \ {x}]
      BY <1>2, <3>1, <3>2
    <3>4. g[v] = f[c] + g[v \ {c}]
      BY <1>2, <3>1, <3>2
    <3>5. u \ {x} = v \ {c}
      OBVIOUS
    <3>6. f[x] \in Nat /\ f[c] \in Nat /\ g[u \ {x}] \in Nat
      BY <1>0, <2>1, <1>0b
    <3> HIDE DEF u, v
    <3>7. g[s] = f[c] + g[u] /\ g[v] = f[c] + g[u \ {x}]
      BY <2>2, <3>4, <3>5 DEF u
    <3>8. g[s] = f[x] + g[v]
      BY <3>3, <3>6, <3>7
    <3> QED
      BY <3>8 DEF v
  <2> QED
    BY <2>3, <2>4
<1>3. Nat \subseteq P
  <2> HIDE DEF P
  <2> QED
    BY <1>1, <1>2, NatSetInduction
<1> QED
  BY <1>0, <1>3

\* A sum depends on nothing but the numbers added.
LEMMA SumAgree ==
  ASSUME NEW T, NEW U, NEW f, NEW g, NEW e, NEW h, IsSum(g, f, T), IsSum(h, e, U)
  PROVE  \A s : s \subseteq T /\ s \subseteq U /\ (\A x \in s : f[x] = e[x]) => g[s] = h[s]
<1> DEFINE Q(s) == (\A x \in s : f[x] = e[x]) => g[s] = h[s]
           P == {n \in Nat : \A s \in SUBSET (T \cap U) : Cardinality(s) = n => Q(s)}
<1>0. /\ \A s \in SUBSET (T \cap U) : IsFiniteSet(s) /\ Cardinality(s) \in Nat
      /\ \A s \in SUBSET (T \cap U) : g[s] = SumStep(g, f, s) /\ h[s] = SumStep(h, e, s)
  BY SumFacts
<1>1. 0 \in P
  BY <1>0, FS_EmptySet DEF SumStep
<1>2. ASSUME NEW n \in Nat, n \in P PROVE n + 1 \in P
  <2> SUFFICES ASSUME NEW s \in SUBSET (T \cap U), Cardinality(s) = n + 1, \A x \in s : f[x] = e[x]
               PROVE  g[s] = h[s]
    OBVIOUS
  <2>1. s # {}
    BY FS_EmptySet
  <2>2. Pick(s) \in s
    BY <2>1, PickIn
  <2>3. Cardinality(s \ {Pick(s)}) = n
    BY <1>0, <2>2, Smaller
  <2>4. g[s \ {Pick(s)}] = h[s \ {Pick(s)}]
    BY <1>2, <2>3
  <2> QED
    BY <2>1, <2>2, <2>4, <1>0 DEF SumStep
<1>3. Nat \subseteq P
  <2> HIDE DEF P
  <2> QED
    BY <1>1, <1>2, NatSetInduction
<1> QED
  BY <1>0, <1>3

\* The units that the entries S of the ledger led record, as FilledUnits adds them up.
Total(led, S) == MapThenSumSet(LAMBDA i : led[i].filled, S)

\* It is a sum.
LEMMA TotalIsSum ==
  ASSUME NEW led, NEW S, IsFiniteSet(S), \A i \in S : led[i].filled \in Nat
  PROVE  \E f, g : f = [i \in S |-> led[i].filled] /\ IsSum(g, f, S) /\ Total(led, S) = g[S]
<1> DEFINE Eq(g) == g = [s \in SUBSET S |-> IF s = {} THEN 0 ELSE led[Pick(s)].filled + g[s \ {Pick(s)}]]
           c == CHOOSE g : Eq(g)
<1>0. PICK f : f = [i \in S |-> led[i].filled]
  OBVIOUS
<1>1. ASSUME NEW g PROVE SumEq(g, f, SUBSET S) <=> Eq(g)
  <2>1. \A s \in SUBSET S : SumStep(g, f, s) = IF s = {} THEN 0 ELSE led[Pick(s)].filled + g[s \ {Pick(s)}]
    BY <1>0, PickIn DEF SumStep
  <2> QED
    BY <2>1 DEF SumEq
<1>2. \E g : Eq(g)
  <2> HIDE DEF Eq
  <2> QED
    BY <1>1, SumExists
<1>3. Eq(c)
  <2> HIDE DEF Eq
  <2> QED
    BY <1>2
<1>4. Total(led, S) = c[S]
  BY DEF Total, MapThenSumSet, MapThenFoldSet, Pick
<1>5. f \in [S -> Nat]
  BY <1>0
<1>6. IsSum(c, f, S)
  <2> HIDE DEF Eq, c
  <2> QED
    BY <1>1, <1>3, <1>5 DEF IsSum
<1> QED
  <2> HIDE DEF Eq, c
  <2> QED
    BY <1>0, <1>4, <1>6

\* It is a number, 0 over no entries, and any entry adds what it records.
LEMMA TotalAdds ==
  ASSUME NEW led, NEW S, IsFiniteSet(S), \A i \in S : led[i].filled \in Nat
  PROVE  /\ Total(led, S) \in Nat
         /\ S = {} => Total(led, S) = 0
         /\ \A n \in S : Total(led, S) = led[n].filled + Total(led, S \ {n})
<1>1. PICK f, g : f = [i \in S |-> led[i].filled] /\ IsSum(g, f, S) /\ Total(led, S) = g[S]
  BY TotalIsSum
<1>3. Total(led, S) \in Nat
  BY <1>1, SumType
<1>4. S = {} => Total(led, S) = 0
  BY <1>1 DEF IsSum, SumEq, SumStep
<1>5. ASSUME NEW n \in S PROVE Total(led, S) = led[n].filled + Total(led, S \ {n})
  <2>0. PICK R : R = S \ {n}
    OBVIOUS
  <2>1. IsFiniteSet(R) /\ \A i \in R : led[i].filled \in Nat
    BY <2>0, FS_RemoveElement
  <2>2. PICK e, h : e = [i \in R |-> led[i].filled] /\ IsSum(h, e, R) /\ Total(led, R) = h[R]
    BY <2>1, TotalIsSum
  <2>3. g[S] = f[n] + g[R]
    BY <1>1, <2>0, SumAnyOrder
  <2>4. g[R] = h[R]
    <3>1. \A x \in R : f[x] = e[x]
      BY <1>1, <2>0, <2>2
    <3>2. R \subseteq S /\ R \subseteq R
      BY <2>0
    <3> QED
      BY <1>1, <2>2, <3>1, <3>2, SumAgree
  <2> QED
    BY <1>1, <2>0, <2>2, <2>3, <2>4
<1> QED
  BY <1>3, <1>4, <1>5

\* Entries that record the same units have the same total.
LEMMA TotalAgrees ==
  ASSUME NEW led, NEW log, NEW S, IsFiniteSet(S), \A i \in S : led[i].filled \in Nat,
         \A i \in S : led[i].filled = log[i].filled
  PROVE  Total(led, S) = Total(log, S)
<1>1. PICK f, g : f = [i \in S |-> led[i].filled] /\ IsSum(g, f, S) /\ Total(led, S) = g[S]
  BY TotalIsSum
<1>1a. \A i \in S : log[i].filled \in Nat
  OBVIOUS
<1>2. PICK e, h : e = [i \in S |-> log[i].filled] /\ IsSum(h, e, S) /\ Total(log, S) = h[S]
  BY <1>1a, TotalIsSum
<1>3. S \subseteq S /\ \A x \in S : f[x] = e[x]
  BY <1>1, <1>2
<1> QED
  BY <1>1, <1>2, <1>3, SumAgree

-----------------------------------------------------------------------------
(* The statistics *)

FillKinds == {"FILL", "PARTIAL_FILL"}
FillEntries(led, c) == {i \in EntriesOf(led, c) : led[i].kind \in FillKinds}
Units(led, c) == Total(led, FillEntries(led, c))

\* The fill that is on record and not yet counted.
Due(c) == IF pc = "count" /\ c = op.cur THEN op.seen.filled ELSE 0

\* StatsFollowLedger, with the fill that is still to be counted.
StatsInv ==
  \A c \in Intents :
    /\ counted[c] + Due(c) <= Units(ledger, c)
    /\ crashes = <<>> /\ faults = 0 => counted[c] + Due(c) = Units(ledger, c)

\* The units on record are what FilledUnits adds up.
LEMMA UnitsAreFilled == \A c : FilledUnits(c) = Units(ledger, c)
<1>1. \A c : FillsOf(c) = FillEntries(ledger, c)
  BY DEF FillsOf, FillEntries, FillKinds
<1>2. \A c : FilledUnits(c) = Total(ledger, FillsOf(c))
  BY DEF FilledUnits, Total
<1> QED BY <1>1, <1>2 DEF Units

\* The entries of a ledger that record a fill are finitely many, and their amounts numbers.
LEMMA FillsFinite ==
  ASSUME NEW led, led \in Seq(Entry), NEW c
  PROVE  /\ IsFiniteSet(FillEntries(led, c)) /\ FillEntries(led, c) \subseteq 1..Len(led)
         /\ \A i \in FillEntries(led, c) : led[i].filled \in Nat
         /\ Units(led, c) \in Nat
<1>1. DOMAIN led = 1..Len(led) /\ Len(led) \in Nat
  BY LenProperties
<1>2. FillEntries(led, c) \subseteq 1..Len(led)
  BY <1>1 DEF FillEntries, EntriesOf
<1>3. IsFiniteSet(FillEntries(led, c))
  <2>1. IsFiniteSet(1..Len(led))
    BY <1>1, FS_Interval
  <2> QED BY <1>2, <2>1, FS_Subset
<1>4. \A i \in FillEntries(led, c) : led[i].filled \in Nat
  <2>1. \A i \in FillEntries(led, c) : led[i] \in Entry
    BY <1>1, <1>2
  <2>2. \A e \in Entry : e.filled \in Nat
    BY ExecutorAssumption DEF Entry
  <2> QED BY <2>1, <2>2
<1>5. Units(led, c) \in Nat
  BY <1>3, <1>4, TotalAdds DEF Units
<1> QED BY <1>2, <1>3, <1>4, <1>5

\* An entry more adds its amount, if it records a fill.
LEMMA UnitsAppend ==
  ASSUME NEW led, NEW e, NEW c, led \in Seq(Entry), e \in Entry
  PROVE  Units(Append(led, e), c) =
           Units(led, c) + (IF e.coid = c /\ e.kind \in FillKinds THEN e.filled ELSE 0)
<1>0. PICK log, n : log = Append(led, e) /\ n = Len(led) + 1
  OBVIOUS
<1>1. /\ DOMAIN led = 1..Len(led) /\ Len(led) \in Nat /\ log \in Seq(Entry)
      /\ DOMAIN log = 1..n /\ log[n] = e /\ \A i \in DOMAIN led : log[i] = led[i]
  BY <1>0, AppendProperties, LenProperties
<1>2. DOMAIN log = DOMAIN led \cup {n} /\ n \notin DOMAIN led
  BY <1>0, <1>1
<1>3. PICK S, T : S = FillEntries(led, c) /\ T = FillEntries(log, c)
  OBVIOUS
<1>4. /\ IsFiniteSet(S) /\ S \subseteq DOMAIN led /\ (\A i \in S : led[i].filled \in Nat)
      /\ IsFiniteSet(T) /\ T \subseteq DOMAIN log /\ (\A i \in T : log[i].filled \in Nat)
  <2>1. led \in Seq(Entry) /\ log \in Seq(Entry)
    BY <1>1
  <2>2. /\ IsFiniteSet(S) /\ S \subseteq 1..Len(led) /\ (\A i \in S : led[i].filled \in Nat)
        /\ IsFiniteSet(T) /\ T \subseteq 1..Len(log) /\ (\A i \in T : log[i].filled \in Nat)
    BY <1>3, <2>1, FillsFinite
  <2> QED BY <1>1, <2>1, <2>2, LenProperties
<1>5. T \ {n} = S /\ (n \in T <=> e.coid = c /\ e.kind \in FillKinds)
  <2>1. \A i \in DOMAIN led : i \in T <=> i \in S
    BY <1>1, <1>2, <1>3 DEF FillEntries, EntriesOf
  <2>2. n \in T <=> e.coid = c /\ e.kind \in FillKinds
    BY <1>1, <1>2, <1>3 DEF FillEntries, EntriesOf
  <2> QED BY <1>2, <1>4, <2>1, <2>2
<1>6. Total(log, S) = Total(led, S)
  <2>1. \A i \in S : led[i].filled = log[i].filled
    BY <1>1, <1>4
  <2> QED BY <1>4, <2>1, TotalAgrees
<1>7. Total(led, S) \in Nat
  BY <1>4, TotalAdds
<1>8. CASE e.coid = c /\ e.kind \in FillKinds
  <2>1. Total(log, T) = log[n].filled + Total(log, T \ {n})
    BY <1>4, <1>5, <1>8, TotalAdds
  <2>2. e.filled \in Nat
    BY ExecutorAssumption DEF Entry
  <2>3. Total(log, T) = e.filled + Total(led, S)
    BY <1>1, <1>5, <1>6, <2>1
  <2>4. Total(log, T) = Total(led, S) + e.filled
    BY <1>7, <2>2, <2>3
  <2> QED BY <1>0, <1>3, <1>8, <2>4 DEF Units
<1>9. CASE ~(e.coid = c /\ e.kind \in FillKinds)
  <2>1. T = S
    BY <1>5, <1>9
  <2>2. Total(log, T) = Total(led, S) + 0
    BY <1>6, <1>7, <2>1
  <2> QED BY <1>0, <1>3, <1>9, <2>2 DEF Units
<1> QED BY <1>8, <1>9

\* Two ledgers with one entry more are the same only if the entry is.
LEMMA AppendTells ==
  ASSUME NEW led, NEW e, NEW x, led \in Seq(Entry), x \in Entry, Append(led, x) = Append(led, e)
  PROVE  x = e
<1>1. \A y : Append(led, y)[Len(led) + 1] = y
  BY LenProperties
<1> QED BY <1>1

\* A crash is counted.
LEMMA CrashCounts ==
  ASSUME TypeOK, Crash
  PROVE  crashes' # <<>>
<1>1. crashes \in Seq(Nat) /\ Len(ledger) \in Nat
  BY LenProperties DEF TypeOK
<1>2. Len(crashes') = Len(crashes) + 1 /\ Len(crashes) \in Nat
  BY <1>1, AppendProperties, LenProperties DEF Crash
<1> QED BY <1>2, EmptySeq

\* Only RecordFill puts a fill on record, unless a write fails or the process dies in the middle of it.
LEMMA StepAppends ==
  ASSUME TypeOK, [Next]_vars, ~RecordFill
  PROVE  \/ ledger' = ledger
         \/ \E e \in Entry : /\ ledger' = Append(ledger, e)
                             /\ crashes' # <<>> \/ faults' # 0 \/ e.kind \notin FillKinds
<1> DEFINE Goal == \/ ledger' = ledger
                   \/ \E e \in Entry : /\ ledger' = Append(ledger, e)
                                       /\ crashes' # <<>> \/ faults' # 0 \/ e.kind \notin FillKinds
<1> SUFFICES Goal
  OBVIOUS
<1>0. faults \in Nat
  BY ExecutorAssumption DEF TypeOK
<1>1. ASSUME ledger' = ledger PROVE Goal
  BY <1>1
<1>2. ASSUME crashes' # <<>> \/ faults' # 0 PROVE Goal
  <2>1. \A e : Writable(e) => e \in Entry
    BY DEF Writable
  <2> QED BY <1>2, <2>1, LedgerStep
<1>3. ASSUME NEW e, ledger' = Append(ledger, e), e.kind \notin FillKinds PROVE Goal
  <2>1. \A x : Writable(x) => x \in Entry
    BY DEF Writable
  <2>2. CASE ledger' = ledger
    BY <2>2
  <2>3. ASSUME NEW x, Writable(x), ledger' = Append(ledger, x) PROVE Goal
    <3>1. x = e
      BY <1>3, <2>1, <2>3, AppendTells DEF TypeOK
    <3> QED BY <1>3, <2>1, <2>3, <3>1
  <2> QED BY <2>2, <2>3, LedgerStep
<1>4. ASSUME NEW e, AppendRaises(e) PROVE ledger' = ledger \/ faults' # 0
  BY <1>0, <1>4 DEF AppendRaises, Fault
<1>5. ASSUME NEW e, Appends(e) \/ BestEffort(e), e.kind \notin FillKinds PROVE Goal
  BY <1>1, <1>2, <1>3, <1>4, <1>5 DEF BestEffort, Appends
<1>6. \A stage, c, o : SentEntry(c, stage, o).kind \notin FillKinds
  BY DEF SentEntry, FillKinds
<1>7. \A kind, c, o : kind \notin FillKinds => CloseEntry(kind, c, o, 0).kind \notin FillKinds
  BY DEF CloseEntry
<1>8. {"INTENT_DENIED", "NO_FILL_CANCELED", "UNKNOWN_STATE", "RECONCILE_REPORT"} \cap FillKinds = {}
  BY DEF FillKinds
<1> HIDE DEF Goal
<1>9. CASE ExecuteStep
  <2>1. CASE WriteAhead \/ SentNoAck \/ Ack
    BY <1>5, <1>6, <2>1 DEF WriteAhead, SentNoAck, Ack
  <2>2. CASE WriteAheadFails
    BY <1>1, <1>2, <1>4, <2>2 DEF WriteAheadFails
  <2>3. CASE CreateRejected \/ LookupNone
    BY <1>5, <1>7, <1>8, <2>3 DEF CreateRejected, LookupNone
  <2> QED BY <1>1, <1>9, <2>1, <2>2, <2>3 DEF ExecuteStep, CreateAcked, CreateUncertain, LookupFound,
         LookupUncertain, durable
<1>10. CASE SettleStep
  <2>1. CASE RecordNoFill \/ RecordUnknown
    BY <1>5, <1>7, <1>8, <2>1 DEF RecordNoFill, RecordUnknown
  <2> QED BY <1>1, <1>10, <2>1 DEF SettleStep, CountFill, CountFillRaises, Poll, PollIf, Timeout,
         OutsideTheMachine, Cancel, Reread, ReadHalt, HaltOnUnknown, durable
<1>11. CASE ReconcileStep
  <2>1. CASE \E c \in run.todo : ReconcileNone(c)
    BY <1>5, <1>7, <1>8, <2>1 DEF ReconcileNone
  <2> QED BY <1>1, <1>11, <2>1 DEF ReconcileStep, ReconcileError, ReconcileFound, LeftOpenRaises,
         ScanOpenOrders, StrayOrder, StrayRaises, Summary, HaltPolicy, PolicyRaises, OtherAppendRaises, durable
<1>12. CASE \E e \in UnguardedEntries : LedgerRaises(e)
  BY <1>1, <1>2, <1>4, <1>12 DEF LedgerRaises
<1>13. CASE \/ \E c \in Intents : Admit(c)
            \/ Startup \/ BrokerStep \/ LedgerBreaks \/ ManualHalt \/ ManualClear \/ UNCHANGED vars
  BY <1>1, <1>13 DEF Admit, Startup, BrokerStep, BrokerFill, BrokerExpire, LedgerBreaks, ManualHalt, ManualClear,
     HaltFileChanges, durable, vars
<1>14. CASE Crash
  BY <1>2, <1>14, CrashCounts
<1> QED BY <1>9, <1>10, <1>11, <1>12, <1>13, <1>14 DEF Next, ProcessStep

\* What the count has added, and what is left of it.
LEMMA StepCounts ==
  ASSUME TypeOK, OrdersInHand, [Next]_vars, ~RecordFill
  PROVE  \/ \A c \in Intents : counted'[c] + Due(c)' = counted[c] + Due(c)
         \/ /\ \A c \in Intents : counted'[c] + Due(c)' <= counted[c] + Due(c)
            /\ crashes' # <<>> \/ faults' # 0
<1> DEFINE Goal == \/ \A c \in Intents : counted'[c] + Due(c)' = counted[c] + Due(c)
                   \/ /\ \A c \in Intents : counted'[c] + Due(c)' <= counted[c] + Due(c)
                      /\ crashes' # <<>> \/ faults' # 0
<1> SUFFICES Goal
  OBVIOUS
<1>0. /\ counted \in [Intents -> Nat] /\ faults \in Nat
      /\ pc = "count" => op.seen.filled \in Nat /\ op.cur \in Intents
  BY ExecutorAssumption DEF TypeOK, OrdersInHand, Filled, Sane, HoldsIntent, HoldsOrder
<1>1. \A c \in Intents : counted[c] \in Nat /\ Due(c) \in Nat
  BY <1>0 DEF Due
<1>2. ASSUME counted' = counted, pc # "count" PROVE Goal
  <2>1. pc' # "count"
    BY <1>2, StepArrives
  <2>2. \A c \in Intents : Due(c)' = Due(c)
    BY <1>2, <2>1 DEF Due
  <2> QED BY <1>2, <2>2
<1>3. ASSUME counted' = counted, pc' = pc, op' = op PROVE Goal
  BY <1>3 DEF Due
<1>4. ASSUME counted' = counted, pc' # "count", crashes' # <<>> \/ faults' # 0 PROVE Goal
  <2>1. \A c \in Intents : Due(c)' = 0
    BY <1>4 DEF Due
  <2> QED BY <1>1, <1>4, <2>1
<1>5. Return => pc' # "count"
  BY ReturnType
<1>6. CASE CountFill
  <2>1. pc' # "count" /\ pc = "count"
    BY <1>5, <1>6 DEF CountFill
  <2>2. CASE counted' = [counted EXCEPT ![op.cur] = @ + op.seen.filled]
    <3>1. \A c \in Intents : counted'[c] = counted[c] + Due(c) /\ Due(c)' = 0
      BY <1>0, <2>1, <2>2 DEF Due
    <3> QED BY <1>1, <3>1
  <2>3. CASE counted' = counted /\ faults' = faults + 1
    BY <1>0, <1>4, <2>1, <2>3
  <2> QED BY <1>6, <2>2, <2>3 DEF CountFill, Fault
<1>7. CASE CountFillRaises
  BY <1>0, <1>4, <1>7 DEF CountFillRaises, Fault, Raise, Abandon, Goto, durable
<1>8. CASE Crash
  BY <1>4, <1>8, CrashCounts DEF Crash, Abandon, Goto
<1> HIDE DEF Goal
<1>9. CASE ExecuteStep
  BY <1>2, <1>9 DEF ExecuteStep, WriteAhead, WriteAheadFails, CreateAcked, CreateRejected,
     CreateUncertain, SentNoAck, LookupFound, LookupNone, LookupUncertain, Ack, durable
<1>10. CASE SettleStep
  BY <1>2, <1>6, <1>7, <1>10 DEF SettleStep, RecordNoFill, Poll, PollIf, Timeout,
     OutsideTheMachine, Cancel, Reread, RecordUnknown, ReadHalt, HaltOnUnknown, durable
<1>11. CASE ReconcileStep
  BY <1>2, <1>11 DEF ReconcileStep, ReconcileError, ReconcileNone, ReconcileFound, LeftOpenRaises,
     ScanOpenOrders, StrayOrder, StrayRaises, Summary, HaltPolicy, PolicyRaises, Reconciling, durable
<1>12. CASE \E e \in UnguardedEntries : LedgerRaises(e)
  BY <1>2, <1>12 DEF LedgerRaises, Unguarded, Reconciling
<1>13. CASE (\E c \in Intents : Admit(c)) \/ Startup
  BY <1>2, <1>13 DEF Admit, Startup, durable
<1>14. CASE BrokerStep \/ LedgerBreaks \/ ManualHalt \/ ManualClear \/ UNCHANGED vars
  BY <1>3, <1>14 DEF BrokerStep, BrokerFill, BrokerExpire, LedgerBreaks, ManualHalt, ManualClear,
     HaltFileChanges, durable, vars
<1> QED BY <1>8, <1>9, <1>10, <1>11, <1>12, <1>13, <1>14 DEF Next, ProcessStep

\* Every step keeps the count in line: a fill is recorded, then counted once.
LEMMA StatsStep ==
  ASSUME IInv, StatsInv, [Next]_vars
  PROVE  StatsInv'
<1>0. /\ TypeOK /\ OrdersInHand /\ ledger \in Seq(Entry) /\ counted \in [Intents -> Nat]
      /\ TypeOK' /\ OrdersInHand' /\ counted' \in [Intents -> Nat]
      /\ faults \in Nat
  BY NextInv, ExecutorAssumption DEF IInv, TypeOK
<1>1. \A c \in Intents : Due(c) \in Nat /\ Due(c)' \in Nat /\ Units(ledger, c) \in Nat
  <2>1. /\ pc = "count" => op.seen.filled \in Nat
        /\ pc' = "count" => op'.seen.filled \in Nat
    BY <1>0, ExecutorAssumption DEF OrdersInHand, Filled, Sane
  <2> QED BY <1>0, <2>1, FillsFinite DEF Due
<1>2. crashes' = <<>> /\ faults' = 0 => crashes = <<>> /\ faults = 0
  BY <1>0, CrashesGrow, CrashCounts, FaultsStay
<1>3. CASE RecordFill
  <2>1. /\ ledger' = Append(ledger, FillEntry) /\ counted' = counted /\ pc = "settle" /\ pc' = "count"
        /\ op' = op
    BY <1>3 DEF RecordFill, Appends, Goto
  <2>2. FillEntry \in Entry /\ FillEntry.coid = op.cur /\ FillEntry.filled = op.seen.filled
        /\ FillEntry.kind \in FillKinds
    BY <1>0, <1>3, FillWritable DEF RecordFill, Writable, FillEntry, CloseEntry, FillKind, FillKinds
  <2>3. \A c \in Intents : Units(ledger', c) = Units(ledger, c) + Due(c)' /\ Due(c) = 0
    <3>1. PICK e : e = FillEntry
      OBVIOUS
    <3>2. \A c : Units(ledger', c) = Units(ledger, c) + (IF e.coid = c /\ e.kind \in FillKinds THEN e.filled ELSE 0)
      BY <1>0, <2>1, <2>2, <3>1, UnitsAppend
    <3>3. \A c : (IF e.coid = c /\ e.kind \in FillKinds THEN e.filled ELSE 0) = Due(c)'
      BY <2>1, <2>2, <3>1 DEF Due
    <3>4. \A c : Due(c) = 0
      BY <2>1 DEF Due
    <3> QED BY <3>2, <3>3, <3>4
  <2> QED BY <1>0, <1>1, <1>2, <2>1, <2>3 DEF StatsInv
<1>4. CASE ~RecordFill
  <2>1. \A c \in Intents : /\ Units(ledger', c) \in Nat /\ Units(ledger, c) <= Units(ledger', c)
                           /\ crashes' = <<>> /\ faults' = 0 => Units(ledger', c) = Units(ledger, c)
    <3>1. CASE ledger' = ledger
      BY <1>1, <3>1
    <3>2. ASSUME NEW e \in Entry, ledger' = Append(ledger, e), crashes' # <<>> \/ faults' # 0 \/ e.kind \notin FillKinds
          PROVE  \A c \in Intents : /\ Units(ledger', c) \in Nat /\ Units(ledger, c) <= Units(ledger', c)
                                    /\ crashes' = <<>> /\ faults' = 0 => Units(ledger', c) = Units(ledger, c)
      <4>1. e.filled \in Nat
        BY ExecutorAssumption DEF Entry
      <4>2. \A c : Units(ledger', c) = Units(ledger, c) + (IF e.coid = c /\ e.kind \in FillKinds THEN e.filled ELSE 0)
        BY <1>0, <3>2, UnitsAppend
      <4> QED BY <1>1, <3>2, <4>1, <4>2
    <3> QED BY <1>0, <1>4, <3>1, <3>2, StepAppends
  <2>2. CASE \A c \in Intents : counted'[c] + Due(c)' = counted[c] + Due(c)
    BY <1>0, <1>1, <1>2, <2>1, <2>2 DEF StatsInv
  <2>3. CASE /\ \A c \in Intents : counted'[c] + Due(c)' <= counted[c] + Due(c)
             /\ crashes' # <<>> \/ faults' # 0
    BY <1>0, <1>1, <1>2, <2>1, <2>3 DEF StatsInv
  <2> QED BY <1>0, <1>4, <2>2, <2>3, StepCounts
<1> QED BY <1>3, <1>4

\* The statistics never run ahead of the ledger, and are its fills as long as the process neither
\* dies nor fails to write.
THEOREM StatisticsFollow == Spec => []StatsFollowLedger
<1>1. Init => StatsInv
  <2> SUFFICES ASSUME Init PROVE StatsInv
    OBVIOUS
  <2>1. \A c \in Intents : counted[c] = 0 /\ Due(c) = 0
    BY DEF Init, Due
  <2>2. \A c : Units(ledger, c) = 0
    <3>1. \A c : FillEntries(ledger, c) = {}
      BY DEF Init, FillEntries, EntriesOf
    <3>2. IsFiniteSet({}) /\ \A i \in {} : ledger[i].filled \in Nat
      BY FS_EmptySet
    <3>3. Total(ledger, {}) = 0
      BY <3>2, TotalAdds
    <3> QED BY <3>1, <3>3 DEF Units
  <2> QED BY <2>1, <2>2 DEF StatsInv
<1>2. IInv /\ StatsInv /\ [Next]_vars => StatsInv'
  BY StatsStep
<1>3. IInv /\ StatsInv => StatsFollowLedger
  <2> SUFFICES ASSUME IInv, StatsInv, NEW c \in Intents
               PROVE  /\ counted[c] <= FilledUnits(c)
                      /\ pc # "count" /\ crashes = <<>> /\ faults = 0 => counted[c] = FilledUnits(c)
    BY DEF StatsFollowLedger
  <2>1. counted[c] \in Nat /\ Due(c) \in Nat /\ Units(ledger, c) \in Nat
    BY FillsFinite, ExecutorAssumption DEF IInv, TypeOK, OrdersInHand, Filled, Sane, Due
  <2>2. /\ counted[c] + Due(c) <= Units(ledger, c)
        /\ crashes = <<>> /\ faults = 0 => counted[c] + Due(c) = Units(ledger, c)
    BY DEF StatsInv
  <2>3. pc # "count" => Due(c) = 0
    BY DEF Due
  <2> QED BY <2>1, <2>2, <2>3, UnitsAreFilled
<1> QED BY <1>1, <1>2, <1>3, Inductive, PTL DEF Spec

=============================================================================
