-------------------------- MODULE HonestExecutor --------------------------
(***************************************************************************)
(* The post-fill state machine and the startup reconciliation of           *)
(* deadman/executor.py, together with the four things it acts on: the      *)
(* ledger (durable), the entry halt (durable), the daily fill statistics   *)
(* (durable) and a broker that honours the guarantees G1..G9 of            *)
(* deadman/broker.py and nothing more.                                     *)
(*                                                                         *)
(* One process runs execute() and startup(), one statement after another;  *)
(* every network call, every durable write and every point where a crash   *)
(* matters is a step of its own.  The broker moves on its own between the  *)
(* steps.  A crash loses the index and _started, never the ledger; but one *)
(* in the middle of an append leaves a ledger file that nothing can be     *)
(* appended to any more, or one that cannot even be read.                  *)
(*                                                                         *)
(* Abstractions.                                                           *)
(*  - A client_order_id is the intent it is derived from: the same intent  *)
(*    gives the same id (client_order_id_for).                             *)
(*  - Only ledger entries that carry a client_order_id and that            *)
(*    _rebuild_index reads are kept.  Entries without one (a refusal       *)
(*    before the send, HALT_SET, the summary) and the non-terminal         *)
(*    left_open_exit entry change nothing it rebuilds; that they can fail, *)
(*    and break the file, is kept.                                         *)
(*  - Other processes share the halt file (EntryHalt has its seals) and    *)
(*    the ledger.  The executor reads the halt in one step and writes it   *)
(*    in a later one; whoever rewrites the file between the two is met as  *)
(*    a conflict, or not met and overwritten.                              *)
(*  - A call of execute() that a gate refuses (not started, kill switch,   *)
(*    halt, limits, sanity, duplicate) changes no state here: it is not    *)
(*    a step.  Whether kill, limits and sanity allow is free.              *)
(*  - Amounts are units 0..Requested; every intent asks for Requested.     *)
(*  - All symbols are one symbol.                                          *)
(***************************************************************************)
EXTENDS Naturals, Integers, Sequences, FiniteSets, FiniteSetsExt

CONSTANTS
  Intents,      \* the intents a strategy submits
  Exits,        \* those the exposure predicate calls exits
  NoIntent,     \* the client id of an order that is not ours
  Requested,    \* base units every intent asks for
  MaxPolls,     \* fill_timeout_s / poll_interval_s, rounded up
  Dedups,       \* TRUE if the broker refuses a second order with a client id (G2)
  MaxStrays,    \* bound: orders of somebody else at the broker at the beginning
  MaxSends,     \* bound: write-aheads in a behaviour
  MaxCrashes,   \* bound: crashes
  MaxFaults     \* bound: failures of a durable write

ASSUME ExecutorAssumption ==
  /\ Exits \subseteq Intents
  /\ NoIntent \notin Intents
  /\ Requested \in Nat \ {0}
  /\ Dedups \in BOOLEAN
  /\ {MaxPolls, MaxStrays, MaxSends, MaxCrashes, MaxFaults} \subseteq Nat

VARIABLES
  ledger,    \* durable: entries with a client_order_id, oldest first
  disk,      \* durable: what can be done with the ledger file
  book,      \* the broker: its orders, the order id is the position
  halt,      \* durable: state of entry_halt.json
  counted,   \* durable: units DailyLimits.record_fill has added, per intent
  started,   \* self._started
  index,     \* self._index
  pc,        \* where the process is
  op,        \* locals of the order being worked on
  run,       \* locals of startup()
  outcome,   \* history: what execute() last returned, per intent
  crashes,   \* history: the length of the ledger at each crash so far
  faults     \* number of failed durable writes so far

durable  == <<ledger, disk, halt, counted>>
vars == <<ledger, disk, book, halt, counted, started, index, pc, op, run, outcome, crashes, faults>>

-----------------------------------------------------------------------------
(* Data *)

Stages   == {"write_ahead", "sent_no_ack", "acked"}
TERMINAL_KINDS == {"FILL", "PARTIAL_FILL", "NO_FILL_CANCELED", "UNKNOWN_STATE"}
Kinds    == TERMINAL_KINDS \cup {"ORDER_SENT", "INTENT_DENIED", "RECONCILE_REPORT"}

Entry    == [kind: Kinds, coid: Intents \cup {NoIntent}, stage: Stages \cup {"-"},
             oid: Nat, filled: 0..Requested]
Order    == [client: Intents \cup {NoIntent}, status: {"open", "closed", "canceled"},
             filled: 0..Requested]
Report   == [status: {"open", "closed", "canceled", "unknown"}, filled: Int]
IndexRec == [stage: Stages \cup {"-"}, oid: Nat, terminal: BOOLEAN]
Result   == [status: {"NONE", "FILLED", "PARTIAL", "NO_FILL_CANCELED", "DENIED", "UNKNOWN", "RAISED"},
             oid: Nat, filled: 0..Requested, after: Nat]
Modes    == {"execute", "startup", "reconcile_cancel", "stray"}
Halts    == {"none", "auto", "manual"}
\* next: the halt that is about to be written, "-" for none.
Op       == [cur: Intents \cup {NoIntent}, oid: Nat, seen: Report, mode: Modes, polls: 0..MaxPolls,
             next: Halts \cup {"-"}]
Run      == [todo: SUBSET Intents, strays: SUBSET Nat, found: BOOLEAN, unknown: BOOLEAN]
PCs      == {"idle", "admitted", "create", "maybe_sent", "raised", "lookup_maybe", "lookup_raised",
             "ack", "settle", "cancel", "reread", "count", "unknown", "set_halt", "put_halt",
             "reconcile", "strays", "policy"}

\* The ledger file: "ok"; "frozen", a line that the tip does not know, so that every append raises;
\* "torn", a last line cut short, so that _rebuild_index raises too.  Nothing heals either.
Disks    == {"ok", "frozen", "torn"}

HoldsOrder  == {"ack", "settle", "cancel", "reread", "count"}
HoldsIntent == HoldsOrder \cup {"admitted", "create", "maybe_sent", "raised", "lookup_maybe", "lookup_raised"}

NoRec    == [stage |-> "-", oid |-> 0, terminal |-> FALSE]
NoReport == [status |-> "unknown", filled |-> 0]
NoOp     == [cur |-> NoIntent, oid |-> 0, seen |-> NoReport, mode |-> "execute", polls |-> 0,
             next |-> "-"]
NoRun    == [todo |-> {}, strays |-> {}, found |-> FALSE, unknown |-> FALSE]

SentEntry(c, stage, o)  == [kind |-> "ORDER_SENT", coid |-> c, stage |-> stage, oid |-> o, filled |-> 0]
CloseEntry(kind, c, o, q) == [kind |-> kind, coid |-> c, stage |-> "-", oid |-> o, filled |-> q]

-----------------------------------------------------------------------------
(* The index and the ledger *)

\* Entries after which _rebuild_index calls a client_order_id terminal.
ClosesEntry(e) == e.kind \in TERMINAL_KINDS \cup {"INTENT_DENIED", "RECONCILE_REPORT"}

EntriesOf(led, c) == {i \in DOMAIN led : led[i].coid = c}
SentOf(led, c)    == {i \in EntriesOf(led, c) : led[i].kind = "ORDER_SENT"}
Attempts(led, c)  == {i \in SentOf(led, c) : led[i].stage = "write_ahead"}
\* What the index calls terminal: some attempt of the id has ended, not always the last.
Closed(led, c)    == \E i \in EntriesOf(led, c) : ClosesEntry(led[i])

\* _rebuild_index for one id: the last stage and the last order id win, terminal sticks.
Rebuilt(led, c) ==
  LET sent  == SentOf(led, c)
      named == {i \in EntriesOf(led, c) : led[i].oid # 0}
  IN [stage    |-> IF sent = {} THEN "-" ELSE led[Max(sent)].stage,
      oid      |-> IF named = {} THEN 0 ELSE led[Max(named)].oid,
      terminal |-> Closed(led, c)]

\* Mutant: an order counts as in flight once it was acknowledged.
InFlight_AckedOnly(r) == ~r.terminal /\ r.stage = "acked"
InFlight(r) == ~r.terminal /\ r.stage # "-"

\* Mutant: orders that were never acknowledged are not reconciled.
Pending_AckedOnly(idx) == {c \in Intents : InFlight(idx[c]) /\ idx[c].stage = "acked"}
\* pending()
Pending(idx) == {c \in Intents : InFlight(idx[c])}

\* startup(): known_ids, over our intents and over the strays an earlier startup recorded.
KnownIds == {index[c].oid : c \in Intents} \cup {ledger[i].oid : i \in EntriesOf(ledger, NoIntent)}

\* EntryHalt.set with auto_clear, up to its write: a manual halt stays manual.
HaltToSet == IF halt = "manual" THEN "manual" ELSE "auto"

\* What the write, or the removal, leaves: what was decided when the file was read; or, if the
\* seal has changed since (the file may say the same again), a manual halt written by force.
HaltWritten(next) == IF next = "-" THEN {halt} ELSE {next, "manual"}

-----------------------------------------------------------------------------
(* The broker *)

Truth(b, o) == [status |-> b[o].status, filled |-> b[o].filled]

\* Answers outside the state machine: unmappable status, closed with nothing filled,
\* more filled than requested, a negative or NaN amount.
Garbage == {[status |-> "unknown", filled |-> 0], [status |-> "closed", filled |-> 0],
            [status |-> "open", filled |-> Requested + 1], [status |-> "open", filled |-> -1]}

\* What a read of order o may answer.
Answers(b, o) == {Truth(b, o)} \cup Garbage

OrdersOf(b, c) == {o \in DOMAIN b : b[o].client = c}
OpenOrders     == {o \in DOMAIN book : book[o].status = "open"}

\* The books in which the broker has taken an order of c: it rests, or it fills at once.
\* A broker that honours client ids (G2) answers a repeated one with the order it has.
BooksAfterSend(c) ==
  IF Dedups /\ OrdersOf(book, c) # {} THEN {book}
  ELSE {Append(book, [client |-> c, status |-> "open", filled |-> 0]),
        Append(book, [client |-> c, status |-> "closed", filled |-> Requested])}

\* A cancel takes effect, or it does not (already done, ignored, still under way).
BooksAfterCancel(o) ==
  {book} \cup (IF book[o].status = "open" THEN {[book EXCEPT ![o].status = "canceled"]} ELSE {})

\* Of a stranger's order the code asks only whether it rests: it stays as it is, or it ends.
BrokerFill(o) ==
  /\ book[o].client \in Intents
  /\ book[o].status = "open" /\ book[o].filled < Requested
  /\ LET q == book[o].filled + 1
     IN book' = [book EXCEPT ![o].filled = q, ![o].status = IF q = Requested THEN "closed" ELSE "open"]
  /\ UNCHANGED <<durable, started, index, pc, op, run, outcome, crashes, faults>>

\* The exchange ends a resting order: it expires, or a cancel asked for earlier takes effect.
BrokerExpire(o) ==
  /\ book[o].status = "open"
  /\ book' = [book EXCEPT ![o].status = "canceled"]
  /\ UNCHANGED <<durable, started, index, pc, op, run, outcome, crashes, faults>>

-----------------------------------------------------------------------------
(* Durable writes that may fail *)

Appends(e) == disk = "ok" /\ ledger' = Append(ledger, e) /\ UNCHANGED <<disk, faults>>

Fault == faults < MaxFaults /\ faults' = faults + 1

\* An append that raises.  The line may be in the file: without the tip, with it (the anchor that
\* follows raises), or in part.  On a broken file every append raises and changes nothing.
AppendRaises(e) ==
  \/ disk # "ok" /\ UNCHANGED <<ledger, disk, faults>>
  \/ /\ disk = "ok" /\ Fault
     /\ \/ ledger' = ledger /\ disk' \in {"ok", "torn"}
        \/ ledger' = Append(ledger, e) /\ disk' \in {"ok", "frozen"}

\* The same of an entry that is not kept here.
OtherAppendRaises ==
  /\ \/ disk # "ok" /\ UNCHANGED <<disk, faults>>
     \/ disk = "ok" /\ Fault /\ disk' \in Disks
  /\ UNCHANGED ledger

\* _deny and _unknown log a failed append and go on.
BestEffort(e) == Appends(e) \/ AppendRaises(e)

-----------------------------------------------------------------------------
(* Control *)

Goto(p) == pc' = p

\* The order at hand is done with: execute() returns to its caller, startup() goes to the next.
Return ==
  /\ pc' = CASE op.mode = "execute" -> "idle"
             [] op.mode = "stray"   -> "strays"
             [] OTHER               -> "reconcile"
  /\ op' = NoOp

\* Whatever was under way is given up: an exception, a crash.
Abandon ==
  /\ Goto("idle")
  /\ op' = NoOp
  /\ run' = NoRun

\* An exception leaves execute() or startup() in the middle.
Raise ==
  /\ Abandon
  /\ IF op.mode = "execute" /\ op.cur # NoIntent
     THEN outcome' = [outcome EXCEPT ![op.cur].status = "RAISED"] ELSE UNCHANGED outcome

\* What execute() answers.  startup() answers nothing for one order; its report keeps
\* that there was one, and whether it was appended to rep.unknown.
Tell(status, o, q) ==
  IF op.mode = "execute"
  THEN /\ outcome' = [outcome EXCEPT ![op.cur] = [@ EXCEPT !.status = status, !.oid = o, !.filled = q]]
       /\ UNCHANGED run
  ELSE /\ run' = [run EXCEPT !.found = TRUE,
                             !.unknown = @ \/ (status = "UNKNOWN" /\ op.mode # "reconcile_cancel")]
       /\ UNCHANGED outcome

\* index[cur] becomes terminal, with the order id if there is one.
CloseIndex(o) ==
  index' = IF op.cur = NoIntent THEN index
           ELSE [index EXCEPT ![op.cur].terminal = TRUE, ![op.cur].oid = IF o = 0 THEN @ ELSE o]

-----------------------------------------------------------------------------
(* execute() *)

\* Steps 1 to 7a: every gate lets the intent through.
Admit(c) ==
  /\ pc = "idle"
  /\ started
  /\ c \in Exits \/ halt = "none"
  /\ ~InFlight(index[c])
  /\ Cardinality(UNION {Attempts(ledger, d) : d \in Intents}) < MaxSends
  /\ Goto("admitted")
  /\ op' = [NoOp EXCEPT !.cur = c]
  /\ outcome' = [outcome EXCEPT ![c] = [status |-> "NONE", oid |-> 0, filled |-> 0, after |-> Len(book)]]
  /\ UNCHANGED <<durable, book, started, index, run, crashes, faults>>

\* Step 7: ORDER_SENT{write_ahead} is on disk before any network call.
WriteAhead ==
  /\ pc = "admitted"
  /\ Appends(SentEntry(op.cur, "write_ahead", 0))
  /\ index' = [index EXCEPT ![op.cur] = [stage |-> "write_ahead", oid |-> 0, terminal |-> FALSE]]
  /\ Goto("create")
  /\ UNCHANGED <<book, halt, counted, started, op, run, outcome, crashes>>

\* Mutant: a failed write-ahead is logged and the order is sent.
WriteAheadFails_SendsAnyway ==
  /\ pc = "admitted"
  /\ AppendRaises(SentEntry(op.cur, "write_ahead", 0))
  /\ Goto("create")
  /\ UNCHANGED <<book, halt, counted, started, index, op, run, outcome, crashes>>

\* The write-ahead raises: manual halt, nothing is sent, the index is not touched.  If the halt
\* cannot be written either, that is swallowed.
WriteAheadFails ==
  /\ pc = "admitted"
  /\ AppendRaises(SentEntry(op.cur, "write_ahead", 0))
  /\ halt' \in {"manual", halt}
  /\ Tell("DENIED", 0, 0)
  /\ Return
  /\ UNCHANGED <<book, counted, started, index, crashes>>

\* create_order returns an order.
CreateAcked ==
  /\ pc = "create"
  /\ \E b \in BooksAfterSend(op.cur) :
       LET o == Max(OrdersOf(b, op.cur))
       IN /\ book' = b
          /\ \E s \in Answers(b, o) : op' = [op EXCEPT !.oid = o, !.seen = s]
  /\ Goto("ack")
  /\ UNCHANGED <<durable, started, index, run, outcome, crashes, faults>>

\* BrokerRejected: refused before acceptance (G1).
CreateRejected ==
  /\ pc = "create"
  /\ BestEffort(CloseEntry("INTENT_DENIED", op.cur, 0, 0))
  /\ CloseIndex(0)
  /\ Tell("DENIED", 0, 0)
  /\ Return
  /\ UNCHANGED <<book, halt, counted, started, crashes>>

\* OrderMaybeSent, or any other exception: the order may or may not have been accepted.
CreateUncertain(p) ==
  /\ pc = "create"
  /\ book' \in {book} \cup BooksAfterSend(op.cur)
  /\ Goto(p)
  /\ UNCHANGED <<durable, started, index, op, run, outcome, crashes, faults>>

SentNoAck ==
  /\ pc \in {"maybe_sent", "raised"}
  /\ Appends(SentEntry(op.cur, "sent_no_ack", 0))
  /\ index' = [index EXCEPT ![op.cur].stage = "sent_no_ack"]
  /\ Goto(IF pc = "maybe_sent" THEN "lookup_maybe" ELSE "lookup_raised")
  /\ UNCHANGED <<book, halt, counted, started, op, run, outcome, crashes>>

\* fetch_order_by_client_id finds an order: go on as if it had been acknowledged.
LookupFound ==
  /\ pc \in {"lookup_maybe", "lookup_raised"}
  /\ OrdersOf(book, op.cur) # {}
  /\ LET o == Max(OrdersOf(book, op.cur))
     IN \E s \in Answers(book, o) : op' = [op EXCEPT !.oid = o, !.seen = s]
  /\ Goto("ack")
  /\ UNCHANGED <<durable, book, started, index, run, outcome, crashes, faults>>

\* Mutant: a lookup that raises is read as "never accepted".
LookupNone_ErrorIsNone ==
  /\ pc = "lookup_maybe"
  /\ BestEffort(CloseEntry("INTENT_DENIED", op.cur, 0, 0))
  /\ CloseIndex(0)
  /\ Tell("DENIED", 0, 0)
  /\ Return
  /\ UNCHANGED <<book, halt, counted, started, crashes>>

\* None after OrderMaybeSent is authoritative (G9): BROKER_NEVER_ACCEPTED.
LookupNone ==
  /\ pc = "lookup_maybe"
  /\ OrdersOf(book, op.cur) = {}
  /\ BestEffort(CloseEntry("INTENT_DENIED", op.cur, 0, 0))
  /\ CloseIndex(0)
  /\ Tell("DENIED", 0, 0)
  /\ Return
  /\ UNCHANGED <<book, halt, counted, started, crashes>>

\* The lookup raises, or it says None after an exception that promised nothing.
LookupUncertain ==
  /\ pc \in {"lookup_maybe", "lookup_raised"}
  /\ Goto("unknown")
  /\ UNCHANGED <<durable, book, started, index, op, run, outcome, crashes, faults>>

Ack ==
  /\ pc = "ack"
  /\ Appends(SentEntry(op.cur, "acked", op.oid))
  /\ index' = [index EXCEPT ![op.cur].stage = "acked", ![op.cur].oid = op.oid]
  /\ Goto("settle")
  /\ UNCHANGED <<book, halt, counted, started, op, run, outcome, crashes>>

-----------------------------------------------------------------------------
(* _settle and _finalize_if_terminal: op.seen is the last answer of the broker *)

Sane(s)   == s.filled \in 0..Requested
Rests(s)  == Sane(s) /\ s.status = "open"
Filled(s) == Sane(s) /\ s.status \in {"closed", "canceled"} /\ s.filled > 0
Unfilled(s) == s.status = "canceled" /\ s.filled = 0

Finished(s) == Filled(s) \/ Unfilled(s)

FillKind(s) == IF s.filled < Requested THEN "PARTIAL_FILL" ELSE "FILL"
FillEntry   == CloseEntry(FillKind(op.seen), op.cur, op.oid, op.seen.filled)

RecordFill ==
  /\ pc = "settle" /\ Filled(op.seen)
  /\ Appends(FillEntry)
  /\ CloseIndex(op.oid)
  /\ Goto("count")
  /\ UNCHANGED <<book, halt, counted, started, op, run, outcome, crashes>>

\* Mutant: the requested amount is counted, not the filled one.
CountFill_RoundsUp ==
  /\ pc = "count"
  /\ counted' = [counted EXCEPT ![op.cur] = @ + Requested]
  /\ Tell(IF op.seen.filled < Requested THEN "PARTIAL" ELSE "FILLED", op.oid, op.seen.filled)
  /\ Return
  /\ UNCHANGED <<ledger, disk, book, halt, started, index, crashes, faults>>

\* limits.record_fill, after the ledger.  An exception is logged, and one that says another
\* process writes the statistics is a manual halt.
CountFill ==
  /\ pc = "count"
  /\ \/ /\ counted' = [counted EXCEPT ![op.cur] = @ + op.seen.filled]
        /\ UNCHANGED <<halt, faults>>
     \/ /\ Fault
        /\ halt' \in {halt, "manual"}
        /\ UNCHANGED counted
  /\ Tell(IF op.seen.filled < Requested THEN "PARTIAL" ELSE "FILLED", op.oid, op.seen.filled)
  /\ Return
  /\ UNCHANGED <<ledger, disk, book, started, index, crashes>>

\* Another process writes the statistics, and the halt that must say so cannot be written.
CountFillRaises ==
  /\ pc = "count"
  /\ Fault
  /\ Raise
  /\ UNCHANGED <<durable, book, started, index, crashes>>

RecordNoFill ==
  /\ pc = "settle" /\ Unfilled(op.seen)
  /\ Appends(CloseEntry("NO_FILL_CANCELED", op.cur, op.oid, 0))
  /\ CloseIndex(0)
  /\ Tell("NO_FILL_CANCELED", op.oid, 0)
  /\ Return
  /\ UNCHANGED <<book, halt, counted, started, crashes>>

PollIf(timeLeft) ==
  /\ pc = "settle" /\ Rests(op.seen)
  /\ timeLeft
  /\ \/ /\ \E s \in Answers(book, op.oid) : op' = [op EXCEPT !.seen = s, !.polls = op.polls + 1]
        /\ UNCHANGED pc
     \/ Goto("unknown") /\ UNCHANGED op
  /\ UNCHANGED <<durable, book, started, index, run, outcome, crashes, faults>>

\* Mutant: one poll too many.
Poll_OneMore == PollIf(op.polls <= MaxPolls)

\* Still open and time left: sleep, fetch_order.
Poll == PollIf(op.polls < MaxPolls)

\* fill_timeout_s has passed.  The calls take time too: it may pass before MaxPolls.
Timeout ==
  /\ pc = "settle" /\ Rests(op.seen)
  /\ Goto("cancel")
  /\ UNCHANGED <<durable, book, started, index, op, run, outcome, crashes, faults>>

OutsideTheMachine ==
  /\ pc = "settle"
  /\ ~Rests(op.seen) /\ ~Finished(op.seen)
  /\ Goto("unknown")
  /\ UNCHANGED <<durable, book, started, index, op, run, outcome, crashes, faults>>

\* Mutant: a cancel that did not raise is taken for done, without the re-read.
Cancel_NoReread ==
  /\ pc = "cancel"
  /\ book' \in BooksAfterCancel(op.oid)
  /\ op' = [op EXCEPT !.seen = [op.seen EXCEPT !.status = "canceled"]]
  /\ Goto("settle")
  /\ UNCHANGED <<durable, started, index, run, outcome, crashes, faults>>

\* cancel_order: whether it raises says nothing of whether it took effect.
Cancel ==
  /\ pc = "cancel"
  /\ book' \in BooksAfterCancel(op.oid)
  /\ pc' \in {"reread", "unknown"}
  /\ UNCHANGED <<durable, started, index, op, run, outcome, crashes, faults>>

\* Mutant: an order still open on the re-read is canceled again.
Reread_CancelAgain ==
  /\ pc = "reread"
  /\ \/ \E s \in Answers(book, op.oid) :
          /\ s.status # "open"
          /\ op' = [op EXCEPT !.seen = s]
          /\ Goto("settle")
     \/ Goto("cancel") /\ UNCHANGED op
  /\ UNCHANGED <<durable, book, started, index, run, outcome, crashes, faults>>

Reread ==
  /\ pc = "reread"
  /\ \/ \E s \in Answers(book, op.oid) :
          /\ s.status # "open"
          /\ op' = [op EXCEPT !.seen = s,
                              !.mode = IF @ = "startup" THEN "reconcile_cancel" ELSE @]
          /\ Goto("settle")
     \/ Goto("unknown") /\ UNCHANGED op   \* raised, or still open
  /\ UNCHANGED <<durable, book, started, index, run, outcome, crashes, faults>>

\* _unknown, first half: the ledger.
RecordUnknown ==
  /\ pc = "unknown"
  /\ BestEffort(CloseEntry("UNKNOWN_STATE", op.cur, op.oid, 0))
  /\ Goto("set_halt")
  /\ UNCHANGED <<book, halt, counted, started, index, op, run, outcome, crashes>>

\* _unknown, second half: the halt, read first ...
ReadHalt ==
  /\ pc = "set_halt"
  /\ op' = [op EXCEPT !.next = HaltToSet]
  /\ Goto("put_halt")
  /\ UNCHANGED <<durable, book, started, index, run, outcome, crashes, faults>>

\* ... then written (a failure is logged), and the index.
HaltOnUnknown ==
  /\ pc = "put_halt"
  /\ \/ halt' \in HaltWritten(op.next) /\ UNCHANGED faults
     \/ Fault /\ UNCHANGED halt
  /\ CloseIndex(op.oid)
  /\ Tell("UNKNOWN", op.oid, 0)
  /\ Return
  /\ UNCHANGED <<ledger, disk, book, counted, started, crashes>>

-----------------------------------------------------------------------------
(* startup() *)

\* _rebuild_index, and who is pending.  A torn line raises: the index holds what is above it.
Startup ==
  /\ pc = "idle"
  /\ index' = [c \in Intents |-> Rebuilt(ledger, c)]
  /\ IF disk = "torn"
     THEN UNCHANGED <<run, pc>>
     ELSE /\ run' = [NoRun EXCEPT !.todo = Pending(index')]
          /\ Goto("reconcile")
  /\ UNCHANGED <<durable, book, started, op, outcome, crashes, faults>>

\* Orders the lookup by client id, or failing that by the recorded order id, can find.
Findable(c) ==
  (IF OrdersOf(book, c) = {} THEN {} ELSE {Max(OrdersOf(book, c))})
    \cup ({index[c].oid} \ {0})

Reconciling(c) == pc = "reconcile" /\ c \in run.todo

ReconcileError(c) ==
  /\ Reconciling(c)
  /\ op' = [NoOp EXCEPT !.cur = c, !.oid = index[c].oid, !.mode = "startup"]
  /\ run' = [run EXCEPT !.todo = @ \ {c}, !.found = TRUE]
  /\ Goto("unknown")
  /\ UNCHANGED <<durable, book, started, index, outcome, crashes, faults>>

\* Mutant: a lookup that raises is read as "never sent".
ReconcileNone_ErrorIsNone(c) ==
  /\ Reconciling(c)
  /\ Appends(CloseEntry("RECONCILE_REPORT", c, 0, 0))
  /\ index' = [index EXCEPT ![c].terminal = TRUE]
  /\ run' = [run EXCEPT !.todo = @ \ {c}, !.found = TRUE]
  /\ UNCHANGED <<book, halt, counted, started, pc, op, outcome, crashes>>

\* The broker says it never had the order: never_sent or broker_never_accepted.
ReconcileNone(c) ==
  /\ Reconciling(c)
  /\ OrdersOf(book, c) = {}
  /\ Appends(CloseEntry("RECONCILE_REPORT", c, 0, 0))
  /\ index' = [index EXCEPT ![c].terminal = TRUE]
  /\ run' = [run EXCEPT !.todo = @ \ {c}, !.found = TRUE]
  /\ UNCHANGED <<book, halt, counted, started, pc, op, outcome, crashes>>

\* Found: finished orders are finalised, open entries canceled first, open exits left.
ReconcileFound(c) ==
  /\ Reconciling(c)
  /\ \E o \in Findable(c) : \E s \in Answers(book, o) :
       /\ index' = [index EXCEPT ![c].oid = o]
       /\ IF s.status = "open" /\ c \in Exits
          THEN disk = "ok" /\ UNCHANGED <<pc, op>>
          ELSE /\ op' = [NoOp EXCEPT !.cur = c, !.oid = o, !.seen = s, !.mode = "startup"]
               /\ Goto(IF s.status = "open" THEN "cancel" ELSE "settle")
  /\ run' = [run EXCEPT !.todo = @ \ {c}, !.found = TRUE]
  /\ UNCHANGED <<durable, book, started, outcome, crashes, faults>>

\* The non-terminal entry about an exit that is left open cannot be written: startup() raises.
LeftOpenRaises(c) ==
  /\ Reconciling(c) /\ c \in Exits
  /\ OtherAppendRaises
  /\ \E o \in Findable(c) : index' = [index EXCEPT ![c].oid = o]
  /\ Abandon
  /\ UNCHANGED <<halt, counted, book, started, outcome, crashes>>

Indexed(c) == c # NoIntent /\ index[c].stage # "-"

\* Mutant: fetch_open_orders raising is an empty book.
ScanOpenOrders_ErrorIsEmpty ==
  /\ pc = "reconcile" /\ run.todo = {}
  /\ \/ run' = [run EXCEPT !.strays = {o \in OpenOrders : o \notin KnownIds /\ ~Indexed(book[o].client)}]
     \/ UNCHANGED run
  /\ Goto("strays")
  /\ UNCHANGED <<durable, book, started, index, op, outcome, crashes, faults>>

\* fetch_open_orders is complete or raises (G8); known orders are not looked at again.
ScanOpenOrders ==
  /\ pc = "reconcile" /\ run.todo = {}
  /\ \/ run' = [run EXCEPT !.strays = {o \in OpenOrders : o \notin KnownIds /\ ~Indexed(book[o].client)}]
     \/ run' = [run EXCEPT !.found = TRUE]
  /\ Goto("strays")
  /\ UNCHANGED <<durable, book, started, index, op, outcome, crashes, faults>>

\* An order the ledger does not know: canceled unless it reduces exposure, always UNKNOWN_STATE.
StrayOrder(o) ==
  /\ pc = "strays" /\ o \in run.strays
  /\ book' \in BooksAfterCancel(o)
  /\ op' = [NoOp EXCEPT !.oid = o, !.mode = "stray"]
  /\ run' = [run EXCEPT !.strays = @ \ {o}]
  /\ Goto("unknown")
  /\ UNCHANGED <<durable, started, index, outcome, crashes, faults>>

\* position_of, or the exposure predicate, raises on such an order: startup() ends there.
StrayRaises ==
  /\ pc = "strays" /\ run.strays # {}
  /\ Abandon
  /\ UNCHANGED <<durable, book, started, index, outcome, crashes, faults>>

\* Mutant: a summary that cannot be written is logged.
Summary_BestEffort ==
  /\ pc = "strays" /\ run.strays = {}
  /\ op' = [op EXCEPT !.next = IF run.found THEN (IF run.unknown THEN "-" ELSE HaltToSet)
                                ELSE (IF halt = "auto" THEN "none" ELSE "-")]
  /\ Goto("policy")
  /\ UNCHANGED <<durable, book, started, index, run, outcome, crashes, faults>>

\* The summary is on record; the halt policy reads the halt and decides: set it, clear it if it
\* clears itself, or leave it (an UNKNOWN_STATE has set one already).
Summary ==
  /\ pc = "strays" /\ run.strays = {}
  /\ disk = "ok"
  /\ op' = [op EXCEPT !.next = IF run.found THEN (IF run.unknown THEN "-" ELSE HaltToSet)
                                ELSE (IF halt = "auto" THEN "none" ELSE "-")]
  /\ Goto("policy")
  /\ UNCHANGED <<durable, book, started, index, run, outcome, crashes, faults>>

\* The halt is written or removed, and only then the executor is started.
HaltPolicy ==
  /\ pc = "policy"
  /\ halt' \in HaltWritten(op.next)
  /\ started' = TRUE
  /\ op' = NoOp
  /\ run' = NoRun
  /\ Goto("idle")
  /\ UNCHANGED <<ledger, disk, book, counted, index, outcome, crashes, faults>>

-----------------------------------------------------------------------------
(* Exceptions, crashes, the world outside *)

\* What an append that nothing guards would write at this point.
Unguarded(e) ==
  \/ pc \in {"maybe_sent", "raised"} /\ e = SentEntry(op.cur, "sent_no_ack", 0)
  \/ pc = "ack" /\ e = SentEntry(op.cur, "acked", op.oid)
  \/ pc = "settle" /\ Filled(op.seen) /\ e = FillEntry
  \/ pc = "settle" /\ Unfilled(op.seen) /\ e = CloseEntry("NO_FILL_CANCELED", op.cur, op.oid, 0)
  \/ \E c \in run.todo : /\ Reconciling(c) /\ OrdersOf(book, c) = {}
                         /\ e = CloseEntry("RECONCILE_REPORT", c, 0, 0)

\* An unguarded append raises out of execute() or startup().
LedgerRaises(e) ==
  /\ Unguarded(e)
  /\ AppendRaises(e)
  /\ Raise
  /\ UNCHANGED <<book, halt, counted, started, index, crashes>>

\* The summary, or the halt after it, cannot be written: startup() raises, _started stays.
PolicyRaises ==
  /\ \/ pc = "strays" /\ run.strays = {} /\ OtherAppendRaises
     \/ pc = "policy" /\ op.next # "-" /\ Fault /\ UNCHANGED <<ledger, disk>>
  /\ Abandon
  /\ UNCHANGED <<halt, counted, book, started, index, outcome, crashes>>

\* What an append whose failure is caught would write at this point.
Guarded(e) ==
  \/ pc = "admitted" /\ e = SentEntry(op.cur, "write_ahead", 0)
  \/ pc = "create" /\ e = CloseEntry("INTENT_DENIED", op.cur, 0, 0)
  \/ pc = "lookup_maybe" /\ OrdersOf(book, op.cur) = {} /\ e = CloseEntry("INTENT_DENIED", op.cur, 0, 0)
  \/ pc = "unknown" /\ e = CloseEntry("UNKNOWN_STATE", op.cur, op.oid, 0)

\* Every entry that an append could write here.
UnguardedEntries ==
  {SentEntry(op.cur, "sent_no_ack", 0), SentEntry(op.cur, "acked", op.oid), FillEntry,
   CloseEntry("NO_FILL_CANCELED", op.cur, op.oid, 0)}
    \cup {CloseEntry("RECONCILE_REPORT", c, 0, 0) : c \in run.todo}
GuardedEntries ==
  {SentEntry(op.cur, "write_ahead", 0), CloseEntry("INTENT_DENIED", op.cur, 0, 0),
   CloseEntry("UNKNOWN_STATE", op.cur, op.oid, 0)}

\* What a process that dies leaves of the ledger: all of it; or, killed in an append between the
\* line and the tip or within the line, a file that is frozen or torn.
CutsLedger ==
  \/ UNCHANGED <<ledger, disk>>
  \/ disk = "ok" /\ disk' \in {"frozen", "torn"} /\ UNCHANGED ledger
  \/ /\ disk = "ok" /\ disk' = "frozen"
     /\ \E e \in UnguardedEntries \cup GuardedEntries :
          (Unguarded(e) \/ Guarded(e)) /\ ledger' = Append(ledger, e)

\* The process dies and is started again: disk and broker stay, memory does not.
Crash ==
  /\ Len(crashes) < MaxCrashes
  /\ started \/ pc # "idle"
  /\ crashes' = Append(crashes, Len(ledger))
  /\ started' = FALSE
  /\ index' = [c \in Intents |-> NoRec]
  /\ Abandon
  /\ CutsLedger
  /\ UNCHANGED <<halt, counted, book, outcome, faults>>

\* An append of an entry that is not kept here, by this process or another one, breaks the file,
\* and nobody is told: EntryHalt logs it, the other process is gone.
LedgerBreaks ==
  /\ disk = "ok" /\ disk' \in {"frozen", "torn"}
  /\ Fault
  /\ UNCHANGED <<ledger, book, halt, counted, started, index, pc, op, run, outcome, crashes>>

\* Somebody else halts entries (another gate, a human); a human lifts the halt.
HaltFileChanges(h) ==
  /\ halt # h
  /\ halt' = h
  /\ UNCHANGED <<ledger, disk, book, counted, started, index, pc, op, run, outcome, crashes, faults>>
ManualHalt  == HaltFileChanges("manual")
ManualClear == HaltFileChanges("none")

-----------------------------------------------------------------------------
(* The specification *)

Init ==
  /\ ledger = <<>>
  /\ disk = "ok"
  /\ \E n \in 0..MaxStrays :
       book = [o \in 1..n |-> [client |-> NoIntent, status |-> "open", filled |-> 0]]
  /\ halt = "none"
  /\ counted = [c \in Intents |-> 0]
  /\ started = FALSE
  /\ index = [c \in Intents |-> NoRec]
  /\ pc = "idle"
  /\ op = NoOp
  /\ run = NoRun
  /\ outcome = [c \in Intents |-> [status |-> "NONE", oid |-> 0, filled |-> 0, after |-> 0]]
  /\ crashes = <<>>
  /\ faults = 0

\* What execute() does once a gate has let an intent in.
ExecuteStep ==
  \/ WriteAhead \/ WriteAheadFails
  \/ CreateAcked \/ CreateRejected \/ CreateUncertain("maybe_sent") \/ CreateUncertain("raised")
  \/ SentNoAck \/ LookupFound \/ LookupNone \/ LookupUncertain \/ Ack

\* _settle, _finalize_if_terminal, _record_fill and _unknown, shared with startup().
SettleStep ==
  \/ RecordFill \/ CountFill \/ CountFillRaises \/ RecordNoFill \/ Poll \/ Timeout \/ OutsideTheMachine
  \/ Cancel \/ Reread \/ RecordUnknown \/ ReadHalt \/ HaltOnUnknown

ReconcileStep ==
  \/ \E c \in run.todo : ReconcileError(c) \/ ReconcileNone(c) \/ ReconcileFound(c) \/ LeftOpenRaises(c)
  \/ ScanOpenOrders
  \/ \E o \in run.strays : StrayOrder(o)
  \/ StrayRaises
  \/ Summary \/ HaltPolicy \/ PolicyRaises

\* A step of a call that is under way.
ProcessStep == ExecuteStep \/ SettleStep \/ ReconcileStep \/ \E e \in UnguardedEntries : LedgerRaises(e)

BrokerStep == \E o \in DOMAIN book : BrokerFill(o) \/ BrokerExpire(o)

Next ==
  \/ \E c \in Intents : Admit(c)
  \/ Startup
  \/ ProcessStep
  \/ BrokerStep
  \/ Crash \/ LedgerBreaks \/ ManualHalt \/ ManualClear

Spec == Init /\ [][Next]_vars

\* A call under way goes on (one thread, no call blocks for ever: every network call of the
\* adapter returns or raises), and a restarted process calls startup() before anything else.
FairSpec == Spec /\ WF_vars(ProcessStep) /\ WF_vars(~started /\ Startup)

-----------------------------------------------------------------------------
(* Properties *)

\* Every variable has its type.
TypeOK ==
  /\ ledger \in Seq(Entry)
  /\ disk \in Disks
  /\ book \in Seq(Order)
  /\ halt \in Halts
  /\ counted \in [Intents -> Nat]
  /\ started \in BOOLEAN
  /\ index \in [Intents -> IndexRec]
  /\ pc \in PCs
  /\ op \in Op
  /\ run \in Run
  /\ outcome \in [Intents -> Result]
  /\ crashes \in Seq(Nat) /\ Len(crashes) <= MaxCrashes
  /\ faults \in 0..MaxFaults

\* An order of ours at the broker, or one that is being created there, has its write-ahead on
\* disk, wherever the process has been killed since: without it startup() would take the
\* order for a stranger's.
WriteAheadDurable ==
  /\ \A o \in DOMAIN book : book[o].client \in Intents => Attempts(ledger, book[o].client) # {}
  /\ pc = "create" => Attempts(ledger, op.cur) # {}

\* The process works on an order of the intent it holds, and an answer it is about to record
\* as final is the state of that order now: the broker cannot move under a final answer.
OrdersInHand ==
  /\ pc \in HoldsIntent => op.cur \in Intents
  /\ pc \in HoldsOrder => op.oid # 0
  /\ op.cur \in Intents => op.oid \in OrdersOf(book, op.cur) \cup {0}
  /\ pc \in {"ack", "settle", "count"} /\ Finished(op.seen) => op.seen = Truth(book, op.oid)
  /\ pc = "count" => Filled(op.seen)
  /\ run.strays \subseteq DOMAIN book

\* Order ids are never mixed up: the index and the ledger name, for an intent, orders that the
\* broker keeps under its client id.
OwnOrdersNamed ==
  /\ \A c \in Intents : index[c].oid \in OrdersOf(book, c) \cup {0}
  /\ \A i \in DOMAIN ledger :
       ledger[i].coid \in Intents => ledger[i].oid \in OrdersOf(book, ledger[i].coid) \cup {0}

\* Every final entry is the broker's final word: FILL and PARTIAL_FILL name a finished order
\* of that client id and exactly its filled amount, NO_FILL_CANCELED one that ended with
\* nothing.  Polls, cancels that race with fills and reconciliation all lead here.
FinalEntriesAreTrue ==
  \A i \in DOMAIN ledger :
    LET e == ledger[i]
    IN e.kind \in {"FILL", "PARTIAL_FILL", "NO_FILL_CANCELED"} =>
         /\ e.oid \in OrdersOf(book, e.coid)
         /\ book[e.oid].status # "open"
         /\ book[e.oid].filled = e.filled
         /\ e.kind = "FILL" <=> e.filled = Requested
         /\ e.kind = "NO_FILL_CANCELED" <=> e.filled = 0

\* After one attempt, an order that still rests at the broker has an owner: the ledger
\* either has it pending, so the next startup() that can write resolves it, or says UNKNOWN_STATE.
\* A denial or a never_sent report therefore means that no order is alive, and an UNKNOWN_STATE
\* that could not be written leaves the order pending.
LiveOrderHasOwner ==
  \A o \in OpenOrders :
    LET c == book[o].client
    IN c \in Intents /\ Cardinality(Attempts(ledger, c)) = 1 =>
         \/ InFlight(Rebuilt(ledger, c))
         \/ \E i \in EntriesOf(ledger, c) : ledger[i].kind = "UNKNOWN_STATE"

\* An entry that ends an attempt of c lies between the positions i and j of the ledger.
EndBetween(c, i, j) == \E k \in EntriesOf(ledger, c) : i < k /\ k < j /\ ClosesEntry(ledger[k])

\* While durable writes work, a process does not repeat an attempt before its end is on record.
\* What a later process repeats without that record is an attempt that a crash has cut off, of an
\* intent that an earlier attempt had already ended: the rebuilt index calls the id terminal for
\* good (executor.py:162), and startup() does not ask about it.  A first attempt is never repeated
\* before its end is on record.
UnresolvedNeverResent ==
  faults = 0 => \A c \in Intents : \A i, j \in Attempts(ledger, c) :
    i < j => \/ EndBetween(c, i, j)
             \/ /\ EndBetween(c, 0, i)
                /\ \E n \in DOMAIN crashes : i <= crashes[n] /\ crashes[n] < j

\* The entries that record a fill of c.
FillsOf(c) == {i \in EntriesOf(ledger, c) : ledger[i].kind \in {"FILL", "PARTIAL_FILL"}}

\* What execute() answers is in the ledger: a fill it reports is recorded with the same order
\* and amount, and a denial of a call that reached the broker created no order.
ResultMatchesLedger ==
  \A c \in Intents :
    LET r == outcome[c]
    IN /\ r.status \in {"FILLED", "PARTIAL"} =>
            \E i \in FillsOf(c) : ledger[i].oid = r.oid /\ ledger[i].filled = r.filled
       /\ r.status = "DENIED" => \A o \in OrdersOf(book, c) : o <= r.after

FilledUnits(c) == MapThenSumSet(LAMBDA i : ledger[i].filled, FillsOf(c))

\* The statistics never run ahead of the ledger, and while the process neither dies nor
\* fails to write, they are exactly the fills in the ledger once a fill has been counted.
StatsFollowLedger ==
  \A c \in Intents :
    /\ counted[c] <= FilledUnits(c)
    /\ pc # "count" /\ crashes = <<>> /\ faults = 0 => counted[c] = FilledUnits(c)

\* A startup() that lifts the halt, its own or one it overtakes, leaves nothing pending in the
\* ledger, and every order of the broker's book is one the ledger names.
QuietClear ==
  [][pc = "policy" /\ halt # "none" /\ halt' = "none" =>
       \/ ManualClear
       \/ /\ \A c \in Intents : ~InFlight(Rebuilt(ledger, c))
          /\ \A o \in OpenOrders :
               book[o].client \in Intents \/ \E i \in DOMAIN ledger : ledger[i].oid = o]_vars

\* A process that finds a ledger it cannot write to does not trade over it: startup() does not get
\* as far as the halt policy, so it never lifts a halt, _started stays FALSE, and it creates no order.
BrokenLedgerStaysShut ==
  [][disk # "ok" /\ ~started /\ pc # "policy" =>
       /\ ~started' /\ pc' # "policy"
       /\ \A c \in Intents : OrdersOf(book', c) = OrdersOf(book, c)]_vars

\* execute() and startup() come to an end, however the broker answers.
CallsEnd == (pc # "idle") ~> (pc = "idle")

\* An entry that a crash left pending gets a final entry in the ledger, unless a crash in the
\* middle of an append has left a ledger that nothing can be written to.
PendingEntriesResolve ==
  \A c \in Intents \ Exits :
    InFlight(Rebuilt(ledger, c)) ~> (~InFlight(Rebuilt(ledger, c)) \/ disk # "ok")

-----------------------------------------------------------------------------
(* The promise kept: HonestExecutor implements OrderCustody while durable writes work *)

CustodyOf(c) ==
  IF Attempts(ledger, c) = {} THEN "none"
  ELSE IF Cardinality(Attempts(ledger, c)) > 1 THEN "retried"
  ELSE IF ~Closed(ledger, c) THEN "pending"
  ELSE IF \E i \in EntriesOf(ledger, c) : ledger[i].kind = "UNKNOWN_STATE" THEN "unknown"
  ELSE "final"

Custody == INSTANCE OrderCustody WITH
  custody <- [c \in Intents |-> CustodyOf(c)],
  alive   <- [c \in Intents |-> OrdersOf(book, c) \cap OpenOrders # {}]

\* Custody before exposure, no final record of a live order, no second attempt before the
\* first has its end on record.
KeepsCustody == Custody!Spec

-----------------------------------------------------------------------------
(* What the documents say, and the code does not always do *)

\* executor.py, step 7: "retrying without a confirmed terminal state of the previous attempt
\* is double exposure".  An intent has at most one order alive at the broker.
NoDoubleExposure ==
  \A c \in Intents : Cardinality(OrdersOf(book, c) \cap OpenOrders) <= 1

\* The same sentence about the ledger: between two write-aheads of an intent there is an
\* entry that closes the first.
RetryAfterConfirmedEnd ==
  \A c \in Intents : \A i, j \in Attempts(ledger, c) : i < j => EndBetween(c, i, j)

\* client_order_id_for: the deterministic id "makes a retry after a crash idempotent".  A call
\* that a crash ended gave no answer; the strategy submits the intent again.  If the first
\* attempt was filled, and the ledger says so, the retry is not let in.
RetryIsIdempotent ==
  [][\A c \in Intents : pc = "idle" /\ pc' = "admitted" /\ op'.cur = c /\ outcome[c].status = "NONE"
       => FilledUnits(c) = 0]_vars

\* An order of the broker is accounted for once: one final entry with a fill.
OrderAccountedOnce ==
  \A i, j \in DOMAIN ledger :
    /\ {ledger[i].kind, ledger[j].kind} \subseteq {"FILL", "PARTIAL_FILL"}
    /\ ledger[i].oid = ledger[j].oid
    => i = j

\* entry_halt.py: the halt is "cleared by a reconciliation that sees an empty book".
BookEmptyWhenCleared ==
  [][pc = "policy" /\ halt # "none" /\ halt' = "none" => ManualClear \/ OpenOrders = {}]_vars

\* daily_limits.py: the statistics are the fills, also after a restart.
StatsAreTheFills ==
  pc = "idle" => \A c \in Intents : counted[c] = FilledUnits(c)

=============================================================================
