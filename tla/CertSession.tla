---------------------------- MODULE CertSession ----------------------------
(***************************************************************************)
(* What CertVerifier is asked about: a guardian (another program) writes   *)
(* its ledger over starts, stops, crashes, seals and days; at any time a   *)
(* certificate over some range of it is shown with a copy of the file, and *)
(* main() of deadman/verify_certificate.py gives its exit code.            *)
(*                                                                         *)
(* The issuer counts on its own (Reference...), so that the claims of an   *)
(* honest certificate and the loops of the verifier are two definitions of *)
(* the same thing.  At most one thing is wrong with what is shown: a false *)
(* statement, or an accident to the copy.  Rewrites with recomputed hashes *)
(* are out of scope, as they are for the verifier without anchors.         *)
(***************************************************************************)
EXTENDS CertVerifier

CONSTANT
  Themes   \* what a ledger is about, and the bounds: the kinds and the number of its entries, the
           \* pauses between them, a clock that may go back; the ranges, flaws and anchors of the
           \* certificates, whether they name their day, and the later days of their series

Statements == {"lockouts", "rejected", "clock", "changes", "episodes", "reasons", "open",
               "preceding", "limit", "edited", "no hash", "no dialect", "no range", "filler",
               "belied", "reworded", "trades", "overstated", "bad level", "forged"}
Accidents == {"short", "rotated", "hole", "altered", "alien line"}
\* With these goes a ledger that cannot be parsed.
Unreadable == {"unreadable", "edited over unreadable", "trades over unreadable"}
Flaws == {"none", "silent", "future dialect", "edited over alien", "not an object"}
           \cup Unreadable \cup Statements \cup Accidents
ASSUME CertSessionAssumption ==
  \A t \in Themes : /\ t.flaws \subseteq Flaws /\ t.pauses \subseteq Nat \ {0}
                     /\ {t.clockBack, t.anchors} \cup t.named \subseteq BOOLEAN
                     /\ t.ranges \in {"all", "suffixes"} /\ t.entries \in Nat
                     /\ \A D \in t.series : D \subseteq Nat \ {0, 1} /\ IsFiniteSet(D)

\* Over a series with something in it that is no object, verify_series() raises.
ASSUME ObjectsAssumption ==
  \A t \in Themes : "not an object" \in t.flaws => t.series = {{}}

VARIABLES
  theme,     \* the theme of this ledger
  book,      \* the ledger, complete and intact
  up,        \* the guardian's process runs
  sealed,    \* a seal is in force
  day,       \* the day that is open, or NoDay
  now,       \* true time
  skew,      \* how far the machine's clock is off
  died,      \* history: the last session ended without a shutdown
  crashed,   \* history: numbers of the starts that follow a crash
  seals,     \* history: [seq, at, until] of each seal, until when one process has watched it
  shown,     \* the certificate and copy that were shown
  exit,      \* the exit code
  report     \* the report behind it

guardianVars == <<book, up, sealed, day, now, skew, died, crashed, seals>>
vars == <<theme, book, up, sealed, day, now, skew, died, crashed, seals, shown, exit, report>>

Nothing == [flaw |-> "nothing shown"]
NoReport == Stopped([hash |-> "matches"], "NOT_RUN")

-----------------------------------------------------------------------------
(* The guardian *)

Entry(ev, oid, d, pause) ==
  [seq |-> Len(book) + 1, ev |-> ev, ts |-> now + pause + skew, day |-> d, oid |-> oid,
   fresh |-> book = <<>>, prev |-> IF book = <<>> THEN Genesis ELSE Last(book).hash,
   hash |-> Len(book) + 1, sound |-> TRUE, dialect |-> "guardian-core-v1"]

\* An entry is written after a pause; nothing is written once a certificate is out.
Write(ev, oid, d) ==
  /\ shown = Nothing /\ Len(book) < theme.entries
  /\ \E p \in theme.pauses : /\ book' = Append(book, Entry(ev, oid, d, p))
                             /\ now' = now + p
  /\ UNCHANGED <<theme, skew, shown, exit, report>>

Watched(until) ==   \* the process that watched the seals ends
  {IF s.until = Unknown THEN [s EXCEPT !.until = until] ELSE s : s \in seals}

GuardianStarts ==
  /\ ~up
  /\ Write("GUARDIAN_STARTED", NoId, day)
  /\ up' = TRUE /\ died' = FALSE
  /\ crashed' = IF died THEN crashed \cup {Len(book')} ELSE crashed
  /\ UNCHANGED <<sealed, day, seals>>
GuardianStops ==
  /\ up /\ "GUARDIAN_STOPPED" \in theme.kinds
  /\ Write("GUARDIAN_STOPPED", NoId, day)
  /\ up' = FALSE /\ seals' = Watched(now')
  /\ UNCHANGED <<sealed, day, died, crashed>>
\* A crash, a kill or a power cut: no entry is written.
GuardianCrashes ==
  /\ up /\ shown = Nothing /\ "crash" \in theme.kinds
  /\ up' = FALSE /\ died' = TRUE
  /\ now' = now + 1 /\ seals' = Watched(now')
  /\ UNCHANGED <<theme, book, sealed, day, skew, crashed, shown, exit, report>>
SealCreated ==
  /\ up /\ ~sealed /\ "SEAL_CREATED" \in theme.kinds
  /\ Write("SEAL_CREATED", NoId, day)
  /\ sealed' = TRUE
  /\ seals' = seals \cup {[seq |-> Len(book'), at |-> now', until |-> Unknown]}
  /\ UNCHANGED <<up, day, died, crashed>>
DayOpened ==
  /\ up /\ day = NoDay /\ "DAY_OPENED" \in theme.kinds
  /\ day' = Count(book, "DAY_OPENED") + 1
  /\ Write("DAY_OPENED", NoId, day')
  /\ UNCHANGED <<up, sealed, died, crashed, seals>>
\* The entry carries the day it closes.
DayClosed ==
  /\ up /\ "DAY_CLOSED" \in theme.kinds /\ (day # NoDay \/ "DAY_OPENED" \notin theme.kinds)
  /\ Write("DAY_CLOSED", NoId, day)
  /\ day' = NoDay /\ sealed' = FALSE
  /\ UNCHANGED <<up, died, crashed, seals>>
Observed == (Material \cup Boundary \cup Human \cup {"PNL_CHECKPOINT", "NEW_KIND"})
\* Anything else the guardian records, the word of a person included.
Observes(ev, oid) ==
  /\ up /\ ev \in theme.kinds
  /\ Write(ev, oid, day)
  /\ UNCHANGED <<up, sealed, day, died, crashed, seals>>
ClockBack ==
  /\ theme.clockBack /\ skew = 0 /\ book # <<>> /\ shown = Nothing
  /\ skew' = -2
  /\ UNCHANGED <<theme, book, up, sealed, day, now, died, crashed, seals, shown, exit, report>>

-----------------------------------------------------------------------------
(* The issuer: the certificate over a range, counted from the book without the verifier *)

NotHuman(rows) ==
  LET kept == Ranked({i \in DOMAIN rows : rows[i].ev \notin Human}, <)
  IN [k \in DOMAIN kept |-> rows[kept[k]]]
CertRows(p) == SubSeq(book, p.from, p.to)

\* Where the guardian stopped seeing, and until when: the index of the first entry of an
\* episode and of the one that ends it (one past the end when none does).
BlindFrom(rows) ==
  {i \in DOMAIN rows :
     /\ rows[i].ev = "FAIL_CLOSED_ENTERED"
     /\ \A j \in 1..(i - 1) : rows[j].ev = "FAIL_CLOSED_ENTERED" =>
                                \E k \in j..i : rows[k].ev = "FAIL_CLOSED_CLEARED"}
BlindUntil(rows, i) ==
  Min({k \in i..Len(rows) : rows[k].ev = "FAIL_CLOSED_CLEARED"} \cup {Len(rows) + 1})
ReferenceEpisode(rows, i) ==
  LET end == BlindUntil(rows, i)
      before == i > 1 /\ rows[i - 1].ev \notin Boundary
      told == {k \in (i + 1)..(end - 1) : rows[k].ev \notin Boundary}
                \cup (IF before THEN {i - 1} ELSE {})
  IN [seq |-> rows[i].seq, open |-> end > Len(rows),
      precedingSeq |-> IF before THEN rows[i - 1].seq ELSE 0,
      precedingEvent |-> IF before THEN rows[i - 1].ev ELSE "none",
      reasons |-> [ev \in {rows[k].ev : k \in told} |->
                     Cardinality({k \in told : rows[k].ev = ev})]]
ReferenceEpisodes(rows) ==
  LET starts == Ranked(BlindFrom(rows), <)
  IN [n \in DOMAIN starts |-> ReferenceEpisode(rows, starts[n])]
\* What is true of the limit: three states.
ReferenceLimit(rows) ==
  IF \E i \in DOMAIN rows : rows[i].ev = "LIMIT_BREACHED" THEN "breached"
  ELSE IF \E i \in BlindFrom(rows) : BlindUntil(rows, i) > Len(rows) THEN "undetermined"
  ELSE "respected"
\* Emitters write a boolean: true when the limit was respected and seen to be.
Legacy(limit) == IF limit = "respected" THEN "true" ELSE "false"

FalseNumber(n) == IF n > 0 THEN n - 1 ELSE 1
ClaimsOf(p) ==
  LET rows == NotHuman(CertRows(p))
      eps == ReferenceEpisodes(rows)
      times(ev) == Cardinality({i \in DOMAIN rows : rows[i].ev = ev})
      ids == {rows[i].oid : i \in {j \in DOMAIN rows : rows[j].ev = "ORDER_REJECTED_LOCKED"}}
      told(flaw, n) == IF p.flaw = flaw THEN FalseNumber(n) ELSE n
  IN [lockoutsTriggered |-> told("lockouts", times("LIMIT_BREACHED")),
      ordersRejectedWhileLocked |-> told("rejected", Cardinality(ids \ {NoId})),
      clockAnomalies |-> <<told("clock", times("CLOCK_ANOMALY")), times("CLOCK_SUSPECT")>>,
      changeAttemptsWhileSealed |-> told("changes", times("CONFIG_CHANGE_REJECTED")),
      limitRespected |-> IF p.flaw = "limit" THEN p.limit ELSE Legacy(ReferenceLimit(rows)),
      failClosedEpisodes |->
        CASE p.flaw = "episodes" -> Front(eps)
          [] p.flaw = "reasons" -> [eps EXCEPT ![Len(eps)].reasons = @ (+) SetToBag({"SEAL_EXPIRED"})]
          [] p.flaw = "open" -> [eps EXCEPT ![Len(eps)].open = ~@]
          [] p.flaw = "preceding" -> [eps EXCEPT ![Len(eps)].precedingEvent = "SEAL_EXPIRED"]
          [] OTHER -> eps]

\* The day that was open last up to the end of the range.
DayAt(n) ==
  LET opened == {i \in 1..n : book[i].ev = "DAY_OPENED"}
  IN IF opened = {} THEN NoDay ELSE book[Max(opened)].day

HonestLeaves ==
  {[key |-> "alias", shape |-> "filler"], [key |-> "precedingEvent", shape |-> "filler"],
   [key |-> "DAILY_LOSS", shape |-> "number"], [key |-> "dayLoss", shape |-> "money"],
   [key |-> "sealHash", shape |-> "null"], [key |-> "issuedAtUtc", shape |-> "utc"]}
Certificate(p) ==
  [hash |-> CASE p.flaw \in {"edited", "edited over alien", "edited over unreadable"} -> "differs"
              [] p.flaw = "no hash" -> "missing" [] p.flaw = "not an object" -> "not taken"
              [] OTHER -> "matches",
   dialect |-> CASE p.flaw = "no dialect" -> "none" [] p.flaw = "future dialect" -> "v9"
                 [] p.flaw = "not an object" -> p.flaw [] OTHER -> "guardian-core-v1",
   from |-> IF p.flaw = "no range" THEN p.to + 1 ELSE p.from, to |-> p.to,
   day |-> IF p.named THEN DayAt(p.to) ELSE NoDay,
   claims |-> IF p.flaw = "silent" THEN <<>> ELSE ClaimsOf(p),
   leaves |-> HonestLeaves
     \cup (IF p.flaw = "filler" THEN {[key |-> "tool", shape |-> "filler"]} ELSE {})
     \cup (IF p.flaw = "belied" THEN {[key |-> "sealHash", shape |-> "text"]} ELSE {}),
   limitations |-> p.flaw # "reworded",
   trades |-> p.flaw \in {"trades", "trades over unreadable"},
   signature |-> IF p.flaw = "forged" THEN "not genuine" ELSE "none",
   id |-> 1, previous |-> 0, gaps |-> {}, unexplained |-> {},
   level |-> CASE p.flaw = "overstated" -> "L3" [] p.flaw = "bad level" -> "L9"
               [] OTHER -> IF p.anchor > 0 THEN "L2" ELSE "L1"]

\* The certificate of day d of a series: it has the hash of the one before and declares the days
\* between, and may call the day of a lost one a gap too.  The one that is shown is that of day 1.
DayCertificate(p, d) ==
  LET last == Max({1} \cup {e \in p.later : e < d})
  IN [day |-> d, id |-> d, previous |-> last, unexplained |-> {},
      gaps |-> (last + 1)..(d - 1)
                 \cup (IF p.order = "excused" /\ last = p.lost THEN {p.lost} ELSE {})]
\* The certificates of the later days, in whatever order; one may be lost.
Rest(p) ==
  LET kept == Ranked(p.later \ {p.lost}, <)
      n == Len(kept)
  IN [i \in 1..n |-> DayCertificate(p, kept[IF p.order = "reversed" THEN n + 1 - i ELSE i])]

-----------------------------------------------------------------------------
(* The copy of the ledger that is shown with it, and the verdict *)

Copy(p) ==
  CASE p.flaw = "short" -> SubSeq(book, 1, p.at)
    [] p.flaw = "rotated" -> SubSeq(book, p.at + 1, Len(book))
    [] p.flaw = "hole" -> RemoveAt(book, p.at)
    [] p.flaw = "altered" -> [book EXCEPT ![p.at].ev = "PNL_CHECKPOINT", ![p.at].sound = FALSE]
    [] p.flaw \in {"alien line", "edited over alien"} ->
         [book EXCEPT ![IF p.at = 0 THEN 1 ELSE p.at].dialect = "deadman-kit-v1"]
    [] OTHER -> book
\* An anchor that a third party keeps of an entry of the book.
Anchors(p) == IF p.anchor = 0 THEN {} ELSE {[seq |-> p.anchor, hash |-> book[p.anchor].hash]}

LimitValues == {"true", "false", "respected", "breached", "undetermined", "1"}
Inapplicable(flaw, from, to) ==   \* there is no episode to misstate
  flaw \in {"episodes", "reasons", "open", "preceding"} /\ BlindFrom(SubSeq(book, from, to)) = {}

Show(p) ==
  /\ shown = Nothing
  /\ shown' = p
  /\ report' = VerifyCertificate(Certificate(p), Copy(p), Anchors(p), TRUE)
  /\ exit' = RunOf(Certificate(p), Rest(p), IF p.flaw \in Unreadable THEN "unreadable" ELSE "read",
                   Copy(p), Anchors(p), TRUE)
  /\ UNCHANGED <<theme, guardianVars>>

Init ==
  /\ theme \in Themes
  /\ book = <<>> /\ up = FALSE /\ sealed = FALSE /\ day = NoDay /\ now = 0 /\ skew = 0
  /\ died = FALSE /\ crashed = {} /\ seals = {}
  /\ shown = Nothing /\ exit = Unknown /\ report = NoReport
Next ==
  \/ GuardianStarts \/ GuardianStops \/ GuardianCrashes \/ SealCreated
  \/ DayOpened \/ DayClosed \/ ClockBack
  \/ \E ev \in theme.kinds \cap Observed :
       \E oid \in IF ev = "ORDER_REJECTED_LOCKED" THEN {NoId, 1, 2} ELSE {NoId} :
         Observes(ev, oid)
  \/ shown = Nothing /\ \E from \in DOMAIN book, flaw \in theme.flaws, named \in theme.named :
       \E to \in IF theme.ranges = "all" THEN from..Len(book) ELSE {Len(book)},
          at \in IF flaw \in Accidents THEN DOMAIN book ELSE {0},
          limit \in IF flaw = "limit" THEN LimitValues ELSE {"-"},
          anchor \in IF theme.anchors THEN 0..Len(book) ELSE {0} :
       \E later \in IF named /\ DayAt(to) = 1 THEN theme.series ELSE {{}} :
         \E lost \in {0} \cup (later \ {Max(later \cup {0})}),
            order \in IF later = {} THEN {"as is"} ELSE {"as is", "reversed", "excused"} :
           /\ ~Inapplicable(flaw, from, to)
           /\ Show([from |-> from, to |-> to, named |-> named, flaw |-> flaw, at |-> at,
                    limit |-> limit, anchor |-> anchor, later |-> later, lost |-> lost,
                    order |-> order])
Spec == Init /\ [][Next]_vars

-----------------------------------------------------------------------------
(* Properties *)

IsShown == shown # Nothing
Opening(d) == CHOOSE i \in DOMAIN book : book[i].ev = "DAY_OPENED" /\ book[i].day = d
Closings(d) == {i \in DOMAIN book : book[i].ev = "DAY_CLOSED" /\ book[i].day = d}
\* The range holds all there is of the session it is for.
WholeSession ==
  LET d == IF shown.named THEN DayAt(shown.to) ELSE NoDay
  IN IF d # NoDay
     THEN Opening(d) >= shown.from /\ Closings(d) \subseteq shown.from..shown.to
     ELSE \A i \in DOMAIN book : i > shown.to => book[i].ev # "DAY_CLOSED"
InRange(n) == n \in shown.from..shown.to

\* An honest certificate of a whole session is verified at the layer it declares, however far
\* the ledger has grown since, with claims left out, and when segments before its range are
\* kept elsewhere.
HonestIsVerified ==
  /\ IsShown /\ WholeSession /\ shown.lost = 0
  /\ \/ shown.flaw \in {"none", "silent"}
     \/ shown.flaw = "rotated" /\ shown.at < shown.from /\ shown.anchor \notin 1..shown.at
  => exit = 0 /\ report.reached = (IF shown.anchor > 0 THEN "L2" ELSE "L1")

\* A certificate that names its day and leaves out something material that is on record of that
\* day, or a restart of it after a crash, is contradicted: from the front at once, from the end
\* once the day is closed.
HiddenIsFound ==
  IsShown /\ shown.flaw = "none" /\ shown.named /\ DayAt(shown.to) # NoDay
  => LET d == DayAt(shown.to)
         hides(i) == /\ i > Opening(d) /\ \A c \in Closings(d) : i < c
                     /\ ~InRange(i)
                     /\ \/ book[i].ev \in Material /\ (i < shown.from \/ Closings(d) # {})
                        \/ i \in crashed /\ i < shown.from
     IN (\E i \in DOMAIN book : hides(i)) => exit = 1

\* A copy that was cut within the range is not evaluated and not charged to anybody.  One with a
\* line that was altered or is missing from within the range is contradicted; so is one with
\* nothing of the range in it, be it cut before the range or kept from after it: an empty range
\* counts as a broken chain, although CERT_SPEC A.2 has a missing suffix not evaluated.  One that
\* is empty, of another kind or cannot be parsed is not evaluated, nor is a certificate that is no
\* object; over a ledger that cannot be parsed this holds of an edited document and a false
\* statement too, although CERT_SPEC A.2 has certHash recomputed on any path to a verdict.
DamageIsNamed ==
  IsShown =>
    /\ shown.flaw = "short" /\ shown.at \in shown.from..(shown.to - 1) /\ WholeSession
         /\ shown.anchor <= shown.at /\ shown.lost = 0
       => exit = 2 /\ report.effectiveTo = shown.at
    /\ \/ shown.flaw = "altered" /\ InRange(shown.at)
       \/ shown.flaw = "hole" /\ shown.at \in shown.from..(shown.to - 1)
       \/ shown.flaw = "rotated" /\ shown.at \in shown.from..(Len(book) - 1)
       \/ shown.flaw = "short" /\ shown.at < shown.from
       => exit = 1
    /\ /\ shown.lost = 0
       /\ \/ shown.flaw \in {"alien line", "future dialect", "not an object"} \cup Unreadable
          \/ shown.flaw = "rotated" /\ shown.at = Len(book)
       => exit = 2

\* A false statement over an intact ledger is contradicted, be it about the account, the document
\* or the layer; an edited document is contradicted also over the ledger of another dialect, which
\* is not evaluated.  Over one that cannot be parsed neither is: see DamageIsNamed.
FalseStatementIsFound ==
  IsShown =>
    /\ shown.flaw \in (Statements \ {"limit"}) \cup {"edited over alien"} => exit = 1
    /\ shown.flaw = "limit" /\ ReferenceLimit(CertRows(shown)) # "undetermined"
         /\ shown.limit \notin {ReferenceLimit(CertRows(shown)),
                                Legacy(ReferenceLimit(CertRows(shown)))}
       => exit = 1

\* While the guardian could not see whether the limit was respected, nothing the certificate
\* says of the limit is held against its holder.
BlindIsNotCharged ==
  IsShown /\ shown.flaw = "limit" /\ WholeSession /\ shown.lost = 0 /\ shown.limit # "1"
  /\ ReferenceLimit(CertRows(shown)) = "undetermined" => exit = 0

Continued == IsShown /\ shown.flaw \in {"none", "rotated"} /\ report.continuity.supported
SealsIn == {s \in seals : InRange(s.seq)}
\* The starts of the range that follow a crash under a seal of the range.
CrashesUnderSeal == {i \in crashed : InRange(i) /\ \E s \in SealsIn : s.seq < i}
\* The shutdowns that are called unclean are crashes, for any range and any segment of the
\* ledger: cutting the record never makes a shutdown look like a crash.
OnlyCrashesAreCharged ==
  Continued => report.continuity.unclean <= Cardinality(CrashesUnderSeal)

\* Violated: every crash under a seal is reported, as an unclean shutdown or as one that the
\* record cannot decide ("an unclean one yields no duration but IS reported as unclean").
CrashesAreReported ==
  Continued => report.continuity.unclean + report.continuity.indeterminate
                 >= Cardinality(CrashesUnderSeal)

\* A stop of before the first seal of the range, which the loop still holds when a session under
\* the seal ends: the case of CrashesAreReported.
StaleStop ==
  \E i \in shown.from..shown.to : /\ book[i].ev = "GUARDIAN_STOPPED"
                                  /\ \A s \in SealsIn : i < s.seq
\* The time that one process is said to have watched the seal is the time it did, or less where a
\* bound is published; the time without a guardian is the time between shutdowns and starts; and
\* the clock is seen to go back where it did.
TimesAreTrue ==
  Continued /\ shown.flaw = "none" =>
    LET c == report.continuity
        s == CHOOSE t \in SealsIn : TRUE
        closed == {i \in shown.from..shown.to : book[i].ev = "DAY_CLOSED"}
        end == book[IF closed = {} THEN shown.to ELSE Min(closed)].ts
        watched == (IF s.until = Unknown THEN end ELSE Min({s.until, end})) - s.at
        gap(i) == IF book[i].ev = "GUARDIAN_STARTED" /\ \E t \in SealsIn : t.seq < i
                  THEN book[i].ts - book[i - 1].ts ELSE 0
    IN /\ Cardinality(SealsIn) = 1 /\ skew = 0 /\ ~StaleStop /\ c.coverage # Unknown
          => (IF c.isBound THEN c.coverage <= watched ELSE c.coverage = watched)
       /\ skew = 0 /\ ~StaleStop /\ c.unmonitored # Unknown
          => c.unmonitored = MapThenSumSet(gap, shown.from..shown.to)
       /\ (report.backwards # {}) = (\E i \in shown.from..(shown.to - 1) :
                                       book[i + 1].ts < book[i].ts)

\* A series without one of its inner days is contradicted, also when the next certificate declares
\* that day as a gap; one that has them all, in whatever order its certificates are given, changes
\* nothing of what is said of the one that is shown.
SeriesIsUnbroken ==
  IsShown /\ shown.later # {} =>
    /\ shown.lost # 0 => exit = 1
    /\ shown.lost = 0 /\ shown.flaw \notin Unreadable => exit = ExitCode(report)
=============================================================================
