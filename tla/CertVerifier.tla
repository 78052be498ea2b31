---------------------------- MODULE CertVerifier ----------------------------
(***************************************************************************)
(* deadman/verify_certificate.py: what the verifier of a session           *)
(* certificate answers, as operators.  A ledger is a sequence of entries,  *)
(* a hash is a token and an entry is `sound` when its hash recomputes; a   *)
(* report holds the codes of the findings and leaves their wording out.    *)
(* The module declares no state: CertSession plays guardian, issuer and    *)
(* accidents, and asks.                                                    *)
(***************************************************************************)
EXTENDS Integers, SequencesExt

Genesis == 0          \* `prev` of the first entry of a ledger
NoDay == 0            \* an entry or a certificate that names no day
NoId == 0             \* an entry that carries no orderId
Unknown == -1         \* None where a number is expected

Dialects == {"guardian-core-v1", "deadman-kit-v1"}
Boundary == {"FAIL_CLOSED_ENTERED", "FAIL_CLOSED_CLEARED"}
Human == {"HUMAN_ACK"}
Lifecycle == {"GUARDIAN_STARTED", "GUARDIAN_STOPPED", "SEAL_CREATED", "SEAL_EXPIRED"}
Material == {"LIMIT_BREACHED", "ORDER_REJECTED_LOCKED", "CONFIG_CHANGE_REJECTED",
             "FAIL_CLOSED_ENTERED", "CLOCK_ANOMALY", "CLOCK_SUSPECT"}
KnownEvents == Boundary \cup Human \cup Lifecycle \cup Material
                 \cup {"DAY_OPENED", "DAY_CLOSED", "PNL_CHECKPOINT"}

-----------------------------------------------------------------------------
(* The file *)

\* Some entry is not written in the dialect the certificate declares, or there is none.
DialectMismatch(file, dialect) ==
  file = <<>> \/ \E i \in DOMAIN file : file[i].dialect # dialect

\* The places of the entries of the range in the file.
Places(file, from, to) == {i \in DOMAIN file : file[i].seq \in from..to}

\* The members of S in an order: the k-th has k - 1 before it.
Ranked(S, Before(_, _)) ==
  [k \in 1..Cardinality(S) |-> CHOOSE x \in S : Cardinality({y \in S : Before(y, x)}) = k - 1]

\* The entries of the range, in the order of their numbers; equal ones stay as they are.
EventsInRange(file, from, to) ==
  LET before(i, j) == file[i].seq < file[j].seq \/ (file[i].seq = file[j].seq /\ i < j)
      sorted == Ranked(Places(file, from, to), before)
  IN [k \in DOMAIN sorted |-> file[sorted[k]]]

\* The first entry of the range, in the order of the file, whose hash or whose link to the one
\* before does not recompute; 0 when the chain is whole.
ChainBreak(file, from, to) ==
  LET rows == Places(file, from, to)
      earlier(i) == {j \in rows : j < i}
      loose(i) == IF file[i].seq = 1 THEN file[i].prev # Genesis
                  ELSE earlier(i) # {} /\ file[i].prev # file[Max(earlier(i))].hash
      wrong == {i \in rows : loose(i) \/ ~file[i].sound}
  IN IF rows = {} THEN from ELSE IF wrong = {} THEN 0 ELSE file[Min(wrong)].seq

\* Was this start preceded by a clean stop?  Unknown when nothing precedes it in the file.
PrecededByCleanStop(file, start) ==
  LET earlier == {e \in ToSet(file) : e.seq < start.seq}
      last == CHOOSE e \in earlier : \A d \in earlier : d.seq <= e.seq
  IN IF earlier = {} THEN "unknown"
     ELSE IF last.ev = "GUARDIAN_STOPPED" THEN "yes" ELSE "no"

AnySealBefore(file, entry) ==
  \E e \in ToSet(file) : e.ev = "SEAL_CREATED" /\ e.seq < entry.seq

\* Mutant: only what comes after the range can be hidden.
Hidden_AfterOnly(file, from, to) == {e \in ToSet(file) : e.seq > to /\ e.ev \in Material}
\* What a reader of the range does not see of what changes a certificate: material entries on
\* either side, and a start before the range that followed a session without a shutdown.
Hidden(file, from, to) ==
  {e \in ToSet(file) : \/ e.seq \notin from..to /\ e.ev \in Material
                       \/ /\ e.seq < from /\ e.ev = "GUARDIAN_STARTED"
                          /\ PrecededByCleanStop(file, e) = "no"}

\* _check_range_covers_its_day: the findings <<channel, code>> about the range and the day.
RangeCoversItsDay(day, file, from, to) ==
  LET marks(ev, S) == \E e \in ToSet(file) :
                        e.seq \in S /\ e.ev = ev /\ day \in {NoDay, e.day}
      before == 0..(from - 1)
      after == (to + 1)..(to + Len(file))
      edge == \/ marks("DAY_CLOSED", after)
              \/ day # NoDay /\ marks("DAY_OPENED", before)
      later == \E e \in ToSet(file) : e.seq > to /\ e.ev \in Material
  IN (IF day = NoDay THEN {<<"unverified", "SCOPE_MISSING">>} ELSE {})
       \cup (IF edge
             THEN IF Hidden(file, from, to) # {} THEN {<<"contradiction", "RANGE_TRUNCATED">>}
                  ELSE {<<"unverified", "SESSION_NOT_FULLY_COVERED">>}
             ELSE IF later THEN {<<"unverified", "POST_RANGE_MATERIAL_EVENTS">>} ELSE {})

-----------------------------------------------------------------------------
(* recompute_claims() *)

Count(rows, ev) == Cardinality({i \in DOMAIN rows : rows[i].ev = ev})

\* Mutant: an acknowledgement is one more event of the story.
Preceding_Anybody(rows, i) ==
  IF i = 1 \/ rows[Max({i - 1, 1})].ev \in Boundary THEN 0 ELSE i - 1
\* The entry before the episode that is not about a person, if it is not a boundary; 0: none.
Preceding(rows, i) ==
  LET told == {j \in 1..(i - 1) : rows[j].ev \notin Human}
  IN IF told = {} \/ (told # {} /\ rows[Max(told)].ev \in Boundary) THEN 0 ELSE Max(told)

NoEpisode == [seq |-> 0]
EpisodeFrom(rows, i) ==
  LET j == Preceding(rows, i)
  IN [seq |-> rows[i].seq, open |-> TRUE,
      precedingSeq |-> IF j = 0 THEN 0 ELSE rows[j].seq,
      precedingEvent |-> IF j = 0 THEN "none" ELSE rows[j].ev,
      reasons |-> IF j = 0 THEN EmptyBag ELSE SetToBag({rows[j].ev})]

\* The body of the loop over the events: `done` are the episodes that ended, `cur` the open one.
EpisodeStep(acc, rows, i) ==
  LET ev == rows[i].ev
  IN CASE ev = "FAIL_CLOSED_ENTERED" /\ acc.cur = NoEpisode ->
            [acc EXCEPT !.cur = EpisodeFrom(rows, i)]
       [] ev = "FAIL_CLOSED_CLEARED" /\ acc.cur # NoEpisode ->
            [done |-> Append(acc.done, [acc.cur EXCEPT !.open = FALSE]), cur |-> NoEpisode]
       [] acc.cur # NoEpisode /\ ev \notin Boundary \cup Human ->
            [acc EXCEPT !.cur.reasons = @ (+) SetToBag({ev})]
       [] OTHER -> acc
Episodes(rows) ==
  LET after[n \in 0..Len(rows)] == IF n = 0 THEN [done |-> <<>>, cur |-> NoEpisode]
                                   ELSE EpisodeStep(after[n - 1], rows, n)
      end == after[Len(rows)]
  IN IF end.cur = NoEpisode THEN end.done ELSE Append(end.done, end.cur)

LimitStatus(rows, chainOk) ==
  IF Count(rows, "LIMIT_BREACHED") > 0 THEN "breached"
  ELSE IF (\E e \in ToSet(Episodes(rows)) : e.open) \/ ~chainOk THEN "undetermined"
  ELSE "respected"

\* The claims that are numbers; a repeated order id counts once.
Counts(rows) ==
  [lockoutsTriggered |-> Count(rows, "LIMIT_BREACHED"),
   ordersRejectedWhileLocked |->
     Cardinality({e.oid : e \in {d \in ToSet(rows) : d.ev = "ORDER_REJECTED_LOCKED"}} \ {NoId}),
   clockAnomalies |-> <<Count(rows, "CLOCK_ANOMALY"), Count(rows, "CLOCK_SUSPECT")>>,
   changeAttemptsWhileSealed |-> Count(rows, "CONFIG_CHANGE_REJECTED")]

-----------------------------------------------------------------------------
(* recompute_continuity() *)

\* Mutant: a session that ended unseen is taken to have lasted up to the restart.
Start_UpToRestart(file, e, acc) ==
  IF ~acc.armed THEN [acc EXCEPT !.seen = e.ts]
  ELSE [acc EXCEPT !.restarts = @ + 1, !.seen = e.ts, !.stop = Unknown, !.since = Unknown,
          !.gaps = IF acc.stop = Unknown THEN @ ELSE Append(@, e.ts - acc.stop),
          !.unclean = @ + (IF acc.stop = Unknown THEN 1 ELSE 0),
          !.covered = @ + (IF acc.since = Unknown THEN 0 ELSE e.ts - acc.since)]
\* Mutant: a start is a restart even when no seal has been seen.
Start_BootCounts(file, e, acc) ==
  LET begun == [acc EXCEPT !.restarts = @ + 1, !.seen = e.ts]
  IN IF acc.stop # Unknown
     THEN [begun EXCEPT !.gaps = Append(@, e.ts - acc.stop), !.stop = Unknown]
     ELSE [begun EXCEPT
             !.unclean = @ + (IF PrecededByCleanStop(file, e) = "no" THEN 1 ELSE 0),
             !.covered = @ + (IF acc.since = Unknown THEN 0 ELSE acc.seen - acc.since),
             !.since = Unknown]
\* The verifier's loop, entry by entry.  `stop` is open_stop, `since` continuous_since and
\* `seen` last_seen; times are Unknown where the code holds None.
Start(file, e, acc) ==
  IF ~acc.armed
  THEN [acc EXCEPT !.indeterminate = @ + (IF /\ ~AnySealBefore(file, e)
                                             /\ PrecededByCleanStop(file, e) = "unknown"
                                             /\ ~e.fresh THEN 1 ELSE 0),
                   !.seen = e.ts]
  ELSE LET paired == PrecededByCleanStop(file, e)
           begun == [acc EXCEPT !.restarts = @ + 1, !.seen = e.ts]
       IN IF acc.stop # Unknown
          THEN [begun EXCEPT !.gaps = Append(@, e.ts - acc.stop), !.stop = Unknown]
          ELSE [begun EXCEPT
                  !.indeterminate = @ + (IF paired = "unknown" THEN 1 ELSE 0),
                  !.unclean = @ + (IF paired = "no" THEN 1 ELSE 0),
                  !.covered = @ + (IF acc.since = Unknown THEN 0 ELSE acc.seen - acc.since),
                  !.since = Unknown]
ContinuityStep(file, acc, e) ==
  CASE e.ev = "SEAL_CREATED" -> [acc EXCEPT !.since = e.ts, !.armed = TRUE, !.seen = e.ts]
    [] e.ev = "GUARDIAN_STOPPED" ->
         [acc EXCEPT !.stop = e.ts, !.since = Unknown, !.seen = e.ts,
                     !.covered = @ + (IF acc.since = Unknown THEN 0 ELSE e.ts - acc.since)]
    [] e.ev = "GUARDIAN_STARTED" -> Start(file, e, acc)
    [] OTHER -> [acc EXCEPT !.seen = e.ts]

\* What may be published of `covered` units out of `whole`: a bound under nine tenths does not
\* constrain and is left out.
Coverage(covered, whole, bound) ==
  LET capped == Max({0, Min({whole, covered})})
  IN IF whole <= 0 \/ (bound /\ 10 * capped < 9 * whole) THEN Unknown ELSE capped

NothingSeen ==
  [armed |-> FALSE, stop |-> Unknown, since |-> Unknown, seen |-> Unknown, restarts |-> 0,
   unclean |-> 0, indeterminate |-> 0, covered |-> 0, gaps |-> <<>>]
NoContinuity == [supported |-> FALSE]
Continuity(file, dialect, from, to) ==
  LET rows == EventsInRange(file, from, to)
      at(ev) == SelectInSeq(rows, LAMBDA e : e.ev = ev)
      after[n \in 0..Len(rows)] == IF n = 0 THEN NothingSeen
                                   ELSE ContinuityStep(file, after[n - 1], rows[n])
      end == after[Len(rows)]
      armedEnd == rows[IF at("DAY_CLOSED") = 0 THEN Len(rows) ELSE at("DAY_CLOSED")].ts
      whole == IF at("SEAL_CREATED") = 0 THEN 0 ELSE armedEnd - rows[at("SEAL_CREATED")].ts
      covered == end.covered + (IF end.since = Unknown THEN 0 ELSE armedEnd - end.since)
      bound == end.unclean + end.indeterminate > 0
      longest == IF end.gaps = <<>> THEN 0 ELSE Max(ToSet(end.gaps))
  IN IF dialect # "guardian-core-v1" \/ ~\E e \in ToSet(rows) : e.ev \in Lifecycle
     THEN NoContinuity
     ELSE [supported |-> TRUE, restarts |-> end.restarts, unclean |-> end.unclean,
           indeterminate |-> end.indeterminate, whole |-> whole, isBound |-> bound,
           coverage |-> Coverage(covered, whole, bound),
           unmonitored |-> IF end.unclean > 0 THEN Unknown ELSE FoldLeft(+, 0, end.gaps),
           longestGap |-> IF end.unclean > 0 THEN Unknown ELSE longest]

\* The neighbours in the range between which the clock goes back.
BackwardsTimestamps(file, from, to) ==
  LET rows == EventsInRange(file, from, to)
  IN {<<rows[i].seq, rows[i + 1].seq>> :
        i \in {j \in 1..(Len(rows) - 1) : rows[j + 1].ts < rows[j].ts}}

-----------------------------------------------------------------------------
(* The document alone *)

PersonSupplied == {"alias"}
CopiedFromEvidence == {"triggerEvent", "triggerSeq", "precedingEvent", "precedingSeq"}
\* The names the schema owns, and what each promises.
Promise == [version |-> "version", sealHash |-> "hash", issuedAtUtc |-> "utc", dayLoss |-> "money"]

\* Fields that look like evidence and are not: filler in a field that is the producer's own word,
\* a value whose shape belies the name of its field.
RuleFive(leaves) ==
  {"DECORATIVE_FIELD" :
     l \in {m \in leaves : m.shape = "filler" /\ m.key \notin PersonSupplied \cup CopiedFromEvidence}}
  \cup {"FIELD_BELIES_ITS_NAME" :
     l \in {m \in leaves : m.key \in DOMAIN Promise /\ m.shape \notin {Promise[m.key], "null"}}}

\* certHash is recomputed before anything about the ledger can make the verifier stop; a
\* certificate that is not an object at all has none to take.
HashCodes(cert) == CASE cert.hash \in {"matches", "not taken"} -> {}
                     [] cert.hash = "missing" -> {"CERTHASH_MISSING"}
                     [] OTHER -> {"CERTHASH_MISMATCH"}

\* Why the verifier stops before it reads the ledger; "none" when it goes on.
StopCode(cert, file) ==
  IF cert.dialect = "not an object" THEN "CERT_MALFORMED"
  ELSE IF cert.dialect = "none" THEN "DIALECT_MISSING"
  ELSE IF cert.dialect \notin Dialects THEN "DIALECT_UNKNOWN"
  ELSE IF DialectMismatch(file, cert.dialect) THEN "DIALECT_MISMATCH"
  ELSE IF cert.from > cert.to THEN "RANGE_MISSING"
  ELSE "none"

-----------------------------------------------------------------------------
(* verify_certificate() *)

\* Mutant: whatever is missing is a file that was cut short.
Truncated_AnyGap(absent, to, chainOk) == absent # {} /\ chainOk
\* The file ends early: what is missing is the end of the range, and the rest chains.
Truncated(absent, to, chainOk) == absent # {} /\ chainOk /\ absent = Min(absent)..to

\* Mutant: a limit that nobody could see is compared like one that was.
LimitCode_Compares(said, mine) ==
  LET meant == CASE said = "true" -> "respected" [] said = "false" -> "breached" [] OTHER -> said
  IN IF meant = mine THEN "none" ELSE "CLAIM_MISMATCH"
\* _compare_limit: the code of what the certificate says about the limit, or "none".
LimitCode(said, mine) ==
  LET meant == CASE said = "true" -> "respected" [] said = "false" -> "breached" [] OTHER -> said
  IN IF meant \notin {"respected", "breached", "undetermined"} THEN "CLAIM_MISMATCH"
     ELSE IF mine = "undetermined" THEN "LIMIT_UNDETERMINED"
     ELSE IF meant = mine THEN "none" ELSE "CLAIM_MISMATCH"

\* Mutant: what came before an episode is not compared.
EpisodesDiffer_NotPreceding(mine, theirs) ==
  \/ Len(mine) # Len(theirs)
  \/ \E i \in DOMAIN mine : \/ theirs[i].reasons # mine[i].reasons
                            \/ theirs[i].open # mine[i].open
\* The list of episodes is compared by length, reasons, open and what came before; the entries
\* that bound an episode are not.
EpisodesDiffer(mine, theirs) ==
  \/ Len(mine) # Len(theirs)
  \/ \E i \in DOMAIN mine : \/ theirs[i].reasons # mine[i].reasons
                            \/ theirs[i].open # mine[i].open
                            \/ theirs[i].precedingEvent # mine[i].precedingEvent
                            \/ theirs[i].precedingSeq # mine[i].precedingSeq

\* The claims against the events: <<channel, code>>.  A claim that is absent is not judged.
CompareClaims(claims, rows, chainOk) ==
  LET numbers == Counts(rows)
      limit == LimitCode(claims.limitRespected, LimitStatus(rows, chainOk))
      absent == {k \in DOMAIN numbers \cup {"limitRespected", "failClosedEpisodes"} :
                   k \notin DOMAIN claims}
      wrong == \/ \E k \in DOMAIN numbers \cap DOMAIN claims : claims[k] # numbers[k]
               \/ /\ "failClosedEpisodes" \in DOMAIN claims
                  /\ EpisodesDiffer(Episodes(rows), claims.failClosedEpisodes)
               \/ "limitRespected" \in DOMAIN claims /\ limit = "CLAIM_MISMATCH"
  IN (IF absent # {} THEN {<<"unverified", "CLAIM_ABSENT">>} ELSE {})
       \cup (IF wrong THEN {<<"contradiction", "CLAIM_MISMATCH">>} ELSE {})
       \cup (IF "limitRespected" \in DOMAIN claims /\ limit = "LIMIT_UNDETERMINED"
             THEN {<<"unverified", "LIMIT_UNDETERMINED">>} ELSE {})

\* The anchors that stand on an entry of the file.
Standing(file, anchors) == {a \in anchors : \E e \in ToSet(file) : e.seq = a.seq /\ e.hash = a.hash}

\* The signature: its status, with a key or without one.
SignatureStatus(cert, key) ==
  IF cert.signature = "none" THEN "ABSENT"
  ELSE IF ~key THEN "NOT_VERIFIED"
  ELSE IF cert.signature = "genuine" THEN "VALID" ELSE "INVALID"

Rank == [L1 |-> 1, L2 |-> 2, L3 |-> 3]
\* The layer that was reached.
Reached(cert, chainOk, standing, anchorsOk, status) ==
  IF ~chainOk \/ cert.hash # "matches" THEN "none"
  ELSE IF standing = {} \/ ~anchorsOk THEN "L1"
  ELSE IF status = "VALID" THEN "L3" ELSE "L2"
LevelCodes(declared, reached) ==
  IF declared \notin DOMAIN Rank THEN {"TRUST_LEVEL_INVALID"}
  ELSE IF reached # "none" /\ Rank[declared] > Rank[reached] THEN {"TRUST_LEVEL_OVERSTATED"}
  ELSE {}

Channel(findings, name) == {f[2] : f \in {g \in findings : g[1] = name}}

\* A report of a verifier that stopped before the ledger.
Stopped(cert, code) ==
  [contradictions |-> HashCodes(cert)
     \cup IF code \in {"DIALECT_MISSING", "RANGE_MISSING"} THEN {code} ELSE {},
   unevaluable |-> {code} \ {"DIALECT_MISSING", "RANGE_MISSING"},
   unverified |-> IF code = "DIALECT_MISMATCH" THEN {"NOTHING_ELSE_CHECKED"} ELSE {},
   reached |-> "none", effectiveTo |-> Unknown, continuity |-> NoContinuity, backwards |-> {}]

\* The checks that read the ledger.
Judged(cert, file, anchors, key) ==
  LET range == cert.from..cert.to
      absent == range \ {e.seq : e \in ToSet(file)}
      chainOk == ChainBreak(file, cert.from, cert.to) = 0
      short == Truncated(absent, cert.to, chainOk)
      effectiveTo == IF short THEN Min(absent) - 1 ELSE cert.to
      rows == EventsInRange(file, cert.from, effectiveTo)
      standing == Standing(file, anchors)
      status == SignatureStatus(cert, key)
      reached == Reached(cert, chainOk, standing, standing = anchors, status)
      findings == RangeCoversItsDay(cert.day, file, cert.from, cert.to)
        \cup IF short THEN {<<"unverified", "CLAIMS_NOT_COMPARABLE">>}
             ELSE CompareClaims(cert.claims, rows, chainOk)
      contradictions == Channel(findings, "contradiction")
        \cup HashCodes(cert) \cup RuleFive(cert.leaves) \cup LevelCodes(cert.level, reached)
        \cup (IF chainOk THEN {} ELSE {"CHAIN_BROKEN"})
        \cup (IF absent # {} /\ ~short THEN {"RANGE_INCOMPLETE"} ELSE {})
        \cup (IF cert.limitations THEN {} ELSE {"LIMITATIONS_ALTERED"})
        \cup (IF cert.trades THEN {"PRIVACY_LEAK"} ELSE {})
        \cup (IF standing = anchors THEN {} ELSE {"ANCHOR_MISMATCH"})
        \cup (IF status = "INVALID" THEN {"SIGNATURE_INVALID"} ELSE {})
      unverified == Channel(findings, "unverified")
        \cup (IF {e.ev : e \in ToSet(EventsInRange(file, cert.from, cert.to))} \subseteq KnownEvents
              THEN {} ELSE {"UNKNOWN_EVENT_KIND"})
        \cup (IF status = "NOT_VERIFIED" THEN {"SIGNATURE_UNCHECKED"} ELSE {})
        \cup (IF standing = {} THEN {"NO_EXTERNAL_ANCHOR"}
              ELSE IF Max({a.seq : a \in standing}) < cert.to THEN {"ANCHOR_COVERAGE_PARTIAL"}
              ELSE {})
  IN [contradictions |-> contradictions, unverified |-> unverified,
      unevaluable |-> IF short THEN {"LEDGER_TRUNCATED"} ELSE {},
      reached |-> reached, effectiveTo |-> effectiveTo,
      continuity |-> Continuity(file, cert.dialect, cert.from, effectiveTo),
      backwards |-> BackwardsTimestamps(file, cert.from, effectiveTo)]

VerifyCertificate(cert, file, anchors, key) ==
  LET code == StopCode(cert, file)
  IN IF code = "none" THEN Judged(cert, file, anchors, key) ELSE Stopped(cert, code)

\* Contradicted outranks unevaluable.
ExitCode(rep) == IF rep.contradictions # {} THEN 1 ELSE IF rep.unevaluable # {} THEN 2 ELSE 0

-----------------------------------------------------------------------------
(* verify_series() *)

\* The certificates in the order of their days; those of one day stay as they are.
InDays(certs) ==
  LET before(i, j) == certs[i].day < certs[j].day \/ (certs[i].day = certs[j].day /\ i < j)
      sorted == Ranked(DOMAIN certs, before)
  IN [k \in DOMAIN sorted |-> certs[sorted[k]]]

\* Mutant: a gap of any length is left to the hashes, and the hashes to the gaps.
SeriesCodes_DaysOnly(certs) ==
  LET c == InDays(certs)
      D == DOMAIN c
  IN UNION {IF \E i, j \in D : i < j /\ c[i].day = c[j].day THEN {"SERIES_DUPLICATE_DAY"} ELSE {},
            IF \E i \in D \ {1} : ~((c[i - 1].day + 1)..(c[i].day - 1) \subseteq c[i].gaps)
            THEN {"GAP_UNDECLARED"} ELSE {}}
\* The links between the certificates of a series, in the order of their days, and the days
\* between them that are neither certified nor declared.  Every one is an object that names its
\* day: for one that does not, verify_series() raises and main() ends with the traceback.
SeriesCodes(certs) ==
  LET c == InDays(certs)
      D == DOMAIN c
  IN UNION {IF \E i, j \in D : i < j /\ c[i].day = c[j].day THEN {"SERIES_DUPLICATE_DAY"} ELSE {},
            IF \E i \in D : c[i].previous = c[i].id THEN {"SERIES_SELF_REFERENCE"} ELSE {},
            IF \E i \in D \ {1} : c[i].previous # c[i - 1].id THEN {"SERIES_BROKEN"} ELSE {},
            IF \E i \in D \ {1} : ~((c[i - 1].day + 1)..(c[i].day - 1) \subseteq c[i].gaps)
            THEN {"GAP_UNDECLARED"} ELSE {},
            IF \E i \in D : c[i].unexplained # {} THEN {"GAP_WITHOUT_REASON"} ELSE {}}
VerifySeries(certs) ==
  [contradictions |-> SeriesCodes(certs),
   unevaluable |-> IF certs = <<>> THEN {"SERIES_EMPTY"} ELSE {}]

\* main(): the exit code of a run over a certificate, the rest of its series and the ledger file,
\* `none` when none was given and `unreadable` when a line is torn.
RunOf(cert, series, ledger, file, anchors, key) ==
  LET links == ExitCode(VerifySeries(<<cert>> \o series))
  IN IF series # <<>> /\ links # 0 THEN links
     ELSE IF ledger # "read" THEN 2
     ELSE ExitCode(VerifyCertificate(cert, file, anchors, key))
=============================================================================
