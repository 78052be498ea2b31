# deadman: a TLA+ verification project

deadman is a library of guards for trading bots: it decides whether an order may be sent, follows the
order until its end is known, and leaves a tamper-evident record of everything it decided. This directory
holds TLA+ models of its stateful parts, the TLC configurations that check them on small instances, and
proofs of what matters most. Every definition is translated from the code under `src/`; the table `map` of
`PROJECT.json` names the lines.

## 1. Inventory

| Part | Source | State it keeps | Operations | Talks to |
|---|---|---|---|---|
| HonestExecutor | `deadman/executor.py`, `deadman/broker.py` | index of client order ids and `_started` (memory); its ORDER_SENT, FILL, ... entries (ledger) | `startup()`, `execute(intent)` | ledger, entry halt, daily limits, broker |
| EntryHalt | `deadman/entry_halt.py` | `entry_halt.json`: active, reason, `auto_clear`, seal | `set`, `clear`, `active`, `startup_check` | StateFile, ledger |
| StateFile | `deadman/statefile.py` | one JSON file with a writer seal (pid, start, sequence) | `read`, `write(expected, force)`, `delete`, `foreign_live_writer` | disk; no lock |
| Ledger | `deadman/ledger.py` | `ledger.jsonl`, closed segments, `chain_state.json`, `anchors.jsonl`, `anchor_stale.flag`; failure count and times (memory) | `append`, `rotate`, `anchor`, `verify` | disk under `flock`; a publisher hook |
| DailyLimits | `deadman/daily_limits.py` | `daily_stats.json`: day, trades, P&L, fees, `fees_unverified` | `check`, `stats`, `record_fill`, `record_pnl`, rollover | StateFile, clock, ledger |
| KillSwitch | `deadman/kill_switch.py` | existence of one sentinel file | `check`, `engage`, `release` | disk, ledger |
| OrderSanity | `deadman/order_sanity.py` | none | `check`, `quantize` (pure) | |
| Intent | `deadman/intent.py`, `deadman/verdict.py` | none | validation, unit conversion (pure) | |
| CertificateVerifier | `deadman/verify_certificate.py` | none | `verify_certificate`, `verify_series`, `main` (pure): recomputes what certificates say from an exported ledger, and gives an exit code | files given to it |
| FreqtradeGate | `examples/freqtrade/deadman_freqtrade.py` | one object per bot; the clock of the last callback | `bot_start`, `confirm_trade_entry`, `confirm_trade_exit`, `order_filled` | every guard above |
| GitAnchorPublisher | `examples/git_anchor_publisher.py`, `verify_against_anchors.py` | a git repository | publish hook, outside check | ledger |
| Foundations | `clock.py`, `paths.py`, `errors.py` | none | | |
| Demos, fixtures, release scripts | `examples/freqtrade/demo.py`, ..., `scripts/` | none | | |

How they interact. Everything is a direct call inside one process; processes meet on the disk only. The
executor asks the gates (kill switch, halt, limits, sanity) in order, writes ORDER_SENT ahead, calls the
broker, and feeds what it learns back into the ledger, the statistics and the halt. EntryHalt and
DailyLimits share StateFile, which has no lock and compares seals instead. The ledger has a lock for
append, rotate and anchor, and none for `verify()`, which an auditor runs from outside at any time. The
publisher hook is called with the lock released. The gate is the same guards once more, without the
executor: freqtrade asks it in one callback, places the order itself, and reports the fill in another. The
verifier is run by a third party on a copy of the ledger, long after.

What is hard: the process can die between any two of these steps, and what is on disk then is all there
is; broker calls can raise after they took effect; the broker goes on filling while the executor thinks;
durable writes fail half-way; two processes use the same state files; the clock moves over midnight and
back; `verify()` reads files that are being renamed; freqtrade takes an exception out of a callback for a
yes; what the gate counts are fills, and what it lets in are orders; a certificate is about a range of a
ledger that goes on, and the one who shows it chooses the range and the copy.

What makes each part correct:

- executor: an order that may exist has a record that leads to it; what is recorded as final is final; an
  attempt that is not resolved is not repeated; a halt is lifted only when it is known to be safe;
- entry halt: a halt that needs a human is never weakened by the program, and `set()` ends with a record;
- ledger: one chain; nothing lost; anchors that date real entries; alarms that are dated or reported;
  `verify()` that accuses nobody and calls complete only what it saw whole;
- daily limits: no fill is lost; the day does not go back; a limit once reached stays reached; no reset
  leaves the ledger without the old day;
- order checks and admission: an order is no larger than what was asked, and an exit only takes exposure off;
- gate: no order gets past a stop; wrong numbers halt entries; a bounded number of entries; exits get out;
- certificate verifier: what is honest verifies; what is hidden, damaged or false is found and called by its
  name; nobody is charged with what the record cannot tell.

`PROJECT.json` lists under `hazards` the forty places where these are most in danger and a property holds the
line, or a run shows that it breaks. Places where the code does not keep what the documents say are in the
table at the end of section 3.

## 2. Modules

| Module | What it is | Used by |
|---|---|---|
| `HonestExecutor` | `execute()`, `startup()`, the broker of G1..G9, crashes, failing writes | `MCHonestExecutor`, `HonestExecutorProofs` |
| `OrderCustody` | abstract: what the executor promises about an intent | refined by `HonestExecutor` (`KeepsCustody`) |
| `OrderChecks` | no state: units, the two exit predicates, `OrderSanity.check`, `quantize` | `OrderAdmission`, `FreqtradeGate` |
| `OrderAdmission` | steps 1 to 7 of `execute()` with sizes, and a venue with long and short positions | `MCOrderAdmission`, `OrderAdmissionProofs` |
| `StateFile` | what a state file may hold, seals, the test before a replace | `EntryHalt`, `DailyLimits` |
| `EntryHalt` | `set`, `clear`, `startup_check` by several processes | `MCEntryHalt`, `EntryHaltProofs` |
| `DailyStats` | no state: the numbers of a day, what a fill and a P&L make of them, the limits reached | `DailyLimits`, `FreqtradeGate` |
| `DailyLimits` | `check`, `stats`, the recorders and the rollover by several processes | `MCDailyLimits`, `DailyLimitsProofs` |
| `FreqtradeGate` | the callbacks of the bot over all guards, with freqtrade, humans, crashes and failing files | `MCFreqtradeGate`, `FreqtradeGateProofs` |
| `Ledger` | `append`, `rotate`, `anchor`, the stale flag, by several processes under the lock | `LedgerAudit`, `MCLedger`, `LedgerProofs` |
| `LedgerAudit` | `verify()` beside a running `Ledger`, accidents to the files, archived segments | `MCLedgerAudit`, `LedgerProofs` |
| `CertVerifier` | no state: `verify_certificate`, `verify_series`, the exit code | `CertSession` |
| `CertSession` | a guardian that writes a ledger, an issuer, accidents to the copy, and the question | `MCCertSession`, `CertSessionProofs` |
| `CustodyProofs` | theorems about `HonestExecutor` and `OrderCustody` | |

### HonestExecutor

Durable variables: `ledger` (entries with a client order id), `disk` (whether the ledger file can be
appended to and read), `halt`, `counted` (what `record_fill` added), and the broker's `book`. Memory: `started`, `index`, `pc`, and the locals `op` (one order) and
`run` (one `startup()`). `outcome` is history: what `execute()` last answered for each intent; so is
`crashes`, how long the ledger was at each.

One action stands for one network call, one durable write, or the code up to the next of these:
`Admit` (gates 1 to 7), `WriteAhead`, `CreateAcked | CreateRejected | CreateUncertain`, `SentNoAck`,
`LookupFound | LookupNone | LookupUncertain`, `Ack`, then `_settle` (`Poll`, `Timeout`, `Cancel`,
`Reread`) and `_finalize_if_terminal` (`RecordFill`, `CountFill`, `RecordNoFill`, `OutsideTheMachine`), and
`_unknown` (`RecordUnknown`, `ReadHalt`, `HaltOnUnknown`). `Startup`, `Reconcile*`, `ScanOpenOrders`,
`StrayOrder`, `Summary` and `HaltPolicy` are `startup()`. `LedgerRaises`, `WriteAheadFails`, `CountFillRaises`,
`LeftOpenRaises`, `StrayRaises` and `PolicyRaises` are the places where an exception leaves the code. `Crash`
keeps disk and book only. `BrokerFill` and `BrokerExpire` move orders at any time; of a stranger's order the code
asks only whether it rests: it does, until it ends.

The ledger file may break (`disk`). A process that is killed within an append, an append that raises, or
another process's append (`LedgerBreaks`) may leave a line that `chain_state.json` does not know, after which
every append raises (`frozen`), or a line cut short, after which `_rebuild_index` raises too (`torn`). Nothing
heals either.

The halt is shared with other processes. The executor reads it in one step (`ReadHalt`, `Summary`) and writes
it in a later one (`HaltOnUnknown`, `HaltPolicy`); whoever wrote in between is overwritten, or met as a conflict
that ends in a forced manual halt (`HaltWritten`). What this may do to a manual halt is the matter of
`EntryHalt`, which has each access to the file as a step (`LostOnlyToRaces`); `HonestExecutor` states nothing of
its own about it.

Abstractions. A client order id is its intent. All symbols are one symbol. The verdicts of kill switch,
limits and sanity are free; a refused call changes nothing and is no step. `OrderAdmission` has the gates
with their sizes. The entry about an exit that
is left open is not kept (`_rebuild_index` draws nothing from it), but that its append may raise, or break the
file, is.

### OrderChecks, OrderAdmission

`OrderChecks` translates `intent.py` and `order_sanity.py` into operators on whole units: `Resolved`,
`SpotExit`, `NetExit`, `Sane`, `Quantized`. A denial is a denial, whatever its code. `OrderAdmission` is what
`execute()` makes of them, in its order, for a caller who passes `net_position_is_exit`: `Execute` is steps 1
to 7, `Fill` and `End` the venue, `Gates` what humans and the day do to kill switch, halt and limits. The
constant `Margin` says whether a venue lets an exit dispose of more than the position. One order is at the venue
at a time, whereas `execute()` refuses only a second one of the same client id (`executor.py` 282-287): with orders
that overlap, the position handed over is not the one the order meets. The feed is good, and
the snapshot of the position is right: what is wrong is wrong without their help.

### StateFile, EntryHalt

`file` is what `StateFile.read` would answer now: ABSENT, UNREADABLE, or OK with a seal and data. A call
of `set` is `SetRead` (the seal), `SetActive` (the second read, and the strength to write), `Write` (the
comparison of seals; a conflict leads to `Escalate`, the forced write), `Replace` (`os.replace`). A call
of `clear` is `ClearRead`, `ClearActive`, `Delete`, `Remove`. `Fails` is an `OSError` of the temporary write, of
`os.replace` or of `os.remove`, which leaves the call. Between any two of them another process, a
crash, damage or a human's deletion may come. A process started again keeps its pid and gets a new start
time, as in a container. Damage happens only while nobody has the file in hand.

### DailyStats, DailyLimits

A call is `Load` (the file, the clock, `NeedsRollover`, and whether the file is of a day to come, which `check`
holds against an entry later), for a rollover `Compare`, `Replace`, `Reset`, then
`Check`, `Stop` or `Record`, and for a recorder `Compare` and `Replace` again. Money is counted in units.
`fills`, `reached`, `ignored`, `rolled` and `known` of a call are history; `raced` says whether the file
changed under a call in the two ways that the comparison of seals cannot see, and `spoiled` whether such a
call then wrote. A property that allows `spoiled` is about everything else. The file and the clock are read in
one step: a midnight between the two reads leads to the same conflict as a write that comes first.
The limit of one order's notional and the exits, which pass without a look at the file, are left out. A
missing key is treated as an unreadable file, as the code does everywhere but in the wording.

### FreqtradeGate

Files: `kill` (the sentinel), `halt`, `stats`, and `blind`, a state directory that cannot be read or written.
The bot is in one callback (`pc`, `call`) at a time, as freqtrade's loop is. A callback begins with the time
freqtrade hands over (`Begin`), and every look at a file or at the quotes is a step: `KillCheck`, `HaltCheck`,
`LimitsCheck`, `QuotesCheck`, `Place`; `RecordFill`, `RecordPnl`, `RecordRaises`; `Break` is the `except
Exception` around each callback with `_deadman_break`. `AskEntry`, `AskExit`, `OrderEnds` and `Ungated` are
freqtrade: `order` holds what is in flight, `held` what was bought. `Ungated` are the orders the example says it does
not see before they are placed: position adjustments, partial and forced exits. Humans, midnights, crashes
and damage come between any two steps.

`truth` is history: the numbers the day would have if every fill and every round trip had been recorded.
`entered` counts the entries the gate let in that were filled that day. `excused` are the days whose numbers
are wrong in a way the gate cannot know (it died in `order_filled`, or the halt could not be written) or a
human has accepted; deleting the statistics starts them anew. `call.stops` are the stops that stood when the
callback began and have stood since.

Entries to the ledger, `engage` on a break of the ledger and the wording are left out, for they decide
nothing; the conflict of writers is an exception of the recorders here and a mechanism in `DailyLimits`.

### Ledger, LedgerAudit

`disk` is the files: `active`, `closed` segments, `tip` (`chain_state.json`), `anchors`, `flag`. A hash is a
number that is used once, an entry holds its number, its predecessor's and a kind. A call of `append`,
`rotate` or `anchor` enters the lock (`Enter`), and every write is a step: `Rename`, `WriteLine` or
`WriteLineFails`, `WriteTip`, then `AnchorRead` under the lock, `PublishDone | PublishFails` without it,
`Record`, `Flag`, `Unflag`. `LedgerAudit` adds `verify()`: `AuditOpen` reads one file at a time in the order
of the code, `AuditReports` judges what was read with the operator `Verify`; `Accident` damages a file,
`Archive` moves a closed segment elsewhere, `Restore` puts an old copy back.

Abstractions. Time since the last anchor is a choice. A crash in the middle of a line is `WriteLineFails`
and then a crash. Signatures, hooks other than the publisher, the content of payloads, malformed lines, a
file that disappears between `exists` and `open`, and lines that are visible in part are left out. Threads
of one process are not distinguished from its one caller: they share the lock the same way processes do.

### CertVerifier, CertSession

`CertVerifier` has one operator for each function of `verify_certificate.py` that decides something: the
chain (`ChainBreak`), the range and its day (`RangeCoversItsDay`), the claims (`Episodes`, `LimitStatus`,
`Counts`, `CompareClaims`), continuity (`Start`, `ContinuityStep`, `Coverage`), anchors, signature and layer
(`Standing`, `Reached`, `LevelCodes`), rule five about the leaves of the document, series (`SeriesCodes`) and
the exit code (`RunOf`). A report is a set of codes in the verifier's channels. A hash is a token and an entry
is `sound` when its hash recomputes; a signature is genuine, not genuine or absent.

The verifier is pure, so what surrounds it is the model. In `CertSession` a guardian (a program outside this
repository) starts, stops, crashes, seals, opens and closes days and records what it sees; at any time a
certificate over some range is shown with a copy of the ledger, with at most one thing wrong: one of the
`Statements` is false, or one of the `Accidents` happened to the copy. The issuer counts by definitions of
its own (`ReferenceEpisodes`, `ReferenceLimit`, `ClaimsOf`), written as sets where the verifier loops: an honest
certificate that verifies shows that the two agree. `crashed`, `died` and `seals` are what truly happened.
With a statement, or with an honest document, may also go a ledger that cannot be parsed (`Unreadable`).
Left out: how hashes and canonical forms are computed, the statement that is rendered for a reader, malformed
anchors, and the keys other than one. A series has objects only, and each names its day: for one that does
not, `verify_series` raises (`_days_between` catches a ValueError, and gets a TypeError, 1838-1840) and `main()`
ends with the traceback.

## 3. Runs

Every bound is a constant that ends in a guard; its name starts with `Max`, but for these: the guard `Apart`
of `LedgerAudit` keeps a crash or a failed write and an accident to the files out of the same behaviour, and
the themes of `CertSession` bound what one ledger is about: its kinds of entries, their number, the
pauses between them, the flaws, ranges, anchors and series that are asked of it.

| Run | Expect | Instance | Asks |
|---|---|---|---|
| `ExecFaults` | pass, 2.0M states | an entry and an exit of 2 units, 1 poll, 1 send, 1 stranger's order, 1 crash, 1 failing write; either may break the ledger | write-ahead, answers, statistics, finality, halts, nothing over a broken ledger |
| `ExecRetry` | pass, 0.46M | `FairSpec`, one entry of 1 unit, 3 sends, 1 poll, 1 crash that may break the ledger, `Dedups` | ownership, where an attempt is repeated, `HonestExecutor` implements `OrderCustody`; calls end, pending entries are resolved |
| `HaltWriters` | pass, 0.30M | `FairSpec`, 2 processes, 4 calls, 1 crash, 1 damage, deletions, writes that raise | how a manual halt can be lost; every `set()` is written |
| `LedgerChain` | pass, 1.7M | 2 processes (symmetric), 3 calls, 1 crash, 1 fault | one chain, nothing lost, anchors are entries, a disagreement stays |
| `LedgerLive` | pass, 0.22M | `FairSpec`, 2 processes, 3 calls | alarms are anchored or reported |
| `LedgerAudit` | pass, 2.1M | 1 process, 3 calls; 1 crash and 1 fault, or 1 accident and 1 archived segment; `verify()` throughout | nobody is accused, complete means seen, damage is detected |
| `DailyWriters` | pass, 2.1M | 2 processes (symmetric), 2 days, 3 calls, and one each of clock set back, crash, fault, damage, deletion | fills are lost to two races only, no count reopened, true resets, the day never goes back |
| `GateCallbacks` | pass, 0.70M | `FairSpec`, 2 pairs, 3 quotes, 3 entries asked for, a limit of 1 trade, and any 2 of midnight, human action, crash, failing write, damage, order without a question | stops stop, wrong numbers halt, entries of a day, exits get out |
| `CertVerdicts` | pass, 0.45M | 9 themes, ledgers of up to 6 entries, every range, every flaw | what verifies, what is found, who is charged |
| `NetFlip` | violation | a venue with margin, amounts up to 3 | an exit reduces the position |
| `LedgerGenesisAgain` | violation | 1 process, 3 calls, 2 crashes | one chain, whatever crashes |
| `CertUnclean` | violation | the theme `Sealed` | every crash under a seal is reported |

The three runs whose violation is expected check one sentence of the repository each, quoted under
`findings`. `NetFlip`: `execute()` asks `net_position_is_exit` about the side alone, so that a sale of 3 out of a
position of 1 is an exit, passes a halt, and leaves a short position of 2. `OrderSanity` compares the size
of an exit with what is available, and so catches it on a venue that makes no more available than the
position; that condition is the hypothesis of `ExitsReduceWithoutMargin`. `LedgerGenesisAgain`: a crash before the
first `chain_state.json` and one inside the next rotation leave neither tip nor active file, and the next
append starts a second genesis. `CertUnclean`: a clean stop of before the first seal is still held open when
a session under the seal dies; a gap is measured from that old stop and the crash is told nowhere.

Why the bounds are enough. Each property speaks of one order, one halt, one entry, one day or one
certificate and of what happened to it before. Two sends are what a retry needs, and three what a retry needs
that a crash cuts off and that is then repeated: the case that `UnresolvedNeverResent` has to except. The
properties of `ExecRetry` are about one intent each, so it has one; exits and two intents are in `ExecFaults`, and
the proofs cover a broker that does not refuse a repeated client id, and any number of all these. Three calls of the ledger
let a rotation, an append and an anchor interleave in any order. Two midnights and a clock set back once are
a rollover, and a day that comes again after it. One crash and one fault at any point, together with
everything else, covers each pair of steps. In the gate one pair's callback meets the other pair's order in
flight, and two interruptions are the one that makes something wrong and the one that hides it; with three
interruptions and a worst-case fee the run passes too (1.4M states). A ledger of six entries holds a start, a
seal, a stop, another start and the end of a day, or two episodes and what they are described by. Each
passing run has mutants in `PROJECT.json`, one per property at least, that turn a plausible mistake into a
violation under the same bounds.

Two processes are not enough for everything that can happen to the halt file. With three, a replace that was
itself overtaken puts an earlier sequence number back, and a later call may meet its seal a second time:
`EntryHalt` counts this as a rewound sequence. What two processes cannot show, the theorem
`HaltsAreLostToRacesOnly` covers: it holds for any number of them.

`CHECK_DEADLOCK FALSE` stands in the configurations of the modules whose calls are bounded: when the
calls are used up and nobody is in one, nothing more happens; so it is after a certificate was shown, and when
freqtrade has asked for all its entries. The executor's runs and the one of `OrderAdmission` check deadlock.

### Sentences of the documents that the code does not keep

The last section of each module states more of what the documents say. No configuration is kept for these;
TLC refutes each within seconds on the instance named here, with every bound that is not named at zero, and
where nothing else is said with `Requested` 2, `AnchorEvery` 2, `StaleAfter` 1, `MaxTrades` 2, `MaxLoss` 2, a
`WorstCase` fee and one day.

| Definition | Sentence | Instance | What happens |
|---|---|---|---|
| `HonestExecutor!NoDoubleExposure` | a retry without a confirmed end is double exposure (`executor.py` 15-17) | 2 sends, 1 poll | UNKNOWN_STATE is an end to the duplicate gate; with `Dedups` the property holds |
| `HonestExecutor!RetryIsIdempotent` | a retry after a crash is idempotent (`executor.py` 106-107) | 2 sends, 1 poll, 1 crash | the fill is on record and the intent is sent again |
| `HonestExecutor!OrderAccountedOnce` | fills are counted once (`executor.py` 28-29) | 2 sends, 1 poll | a lookup finds the earlier order of the same id |
| `HonestExecutor!StatsAreTheFills` | the numbers are true (`daily_limits.py` 24-25) | 1 send, 1 poll, 1 crash | a crash between FILL and `record_fill` |
| `HonestExecutor!RetryAfterConfirmedEnd` | the same sentence, of the ledger (`executor.py` 15-17) | an exit, 3 sends, 1 crash | an id that ever had a final entry is rebuilt as terminal, and the attempt a crash interrupted is repeated without an end on record |
| `HonestExecutor!BookEmptyWhenCleared` | cleared by a reconciliation that sees an empty book (`entry_halt.py` 2-3, `docs/SPEC.md` 400-401) | 1 send, 1 stranger's order | an order that an earlier `startup()` recorded as unknown counts as known (`executor.py` 460) |
| `EntryHalt!ManualHaltKept` | a halt too few is not acceptable (`entry_halt.py` 61-62) | 2 processes, 3 calls | a write between comparison and replace is lost; one process keeps it (section 5) |
| `EntryHalt!LostOnlyInTheWindow` | a different seal means another writer (`statefile.py` 5-7) | 2 processes, 4 calls | `write_seq` starts again after a removal |
| `Ledger!FlagTellsStale` | the flag exists iff ANCHOR_STALE is not recovered (`docs/SPEC.md` 387) | 1 process, 3 calls, 1 crash | a crash between the two |
| `Ledger!SustainedFailureIsFlagged` | anchoring that keeps failing is declared stale (`docs/SPEC.md` 145-149) | 1 process, 2 calls, 1 crash, `AnchorEvery` 1, `StaleAfter` 2 | the count is in memory |
| `LedgerAudit!DeletionIsDetected` | a deleted line is detected (`docs/SPEC.md` 112) | 1 process, 1 call, 1 accident | not the last lines |
| `LedgerAudit!CompleteMeansGenesis` | complete means that genesis was reached (`ledger.py` 437-438) | 1 process, 2 calls, 1 fault | not for an empty active file |
| `LedgerAudit!MissingIsNotBroken` | a missing segment is not a broken one (`docs/SPEC.md` 440-442) | 1 process, 4 calls, 1 archived segment | its number is given out again |
| `DailyLimits!FillsCounted` | a fill is never lost (`daily_limits.py` 183) | 2 processes, 2 calls | two recorders compare seals at the same time |
| `DailyLimits!NeverSilentReset` | never a silent reset (`daily_limits.py` 11-12) | 1 process, 2 days, 3 calls, 1 crash | a crash between the fresh day and its entry |
| `DailyLimits!UnverifiedUntilHuman` | denied until a human resets the file (`daily_limits.py` 22-23) | 1 process, 2 days, 3 calls, no `WorstCase` | denied until midnight |
| `DailyLimits!ReachedIsFinal` | every later entry that day is denied (`daily_limits.py` 17-18) | 1 process, 3 calls, `MaxLoss` 1 | until a gain |
| `FreqtradeGate!KillErrorBlocks` | any error while checking also blocks (`kill_switch.py` 3-4, `docs/SPEC.md` 208 and 485) | 1 pair, 1 entry, 1 interruption | `os.path.exists` answers False over an OSError |
| `FreqtradeGate!DayEntriesWithinLimit` | `max_trades_per_day` | `GateCallbacks` | two entries in flight pass the same count; `DayEntriesBounded` says how many can |

Read while modelling and not stated in a module: `docs/SPEC.md` 460-467 says that a conflict of writers on
`daily_stats.json` sets a manual halt and that every state file is checked for a foreign writer at the
start; `daily_limits.py` puts the conflict into the ledger and raises, and only `entry_halt` has a
`startup_check`. `quantize` comes after the sanity check (`executor.py` 274-280) and may send less than the
`min_notional_usd` that was just checked (`order_sanity.py` 108). Of the certificate verifier, each with the hypothesis
of `CertSession` that sets it aside:

- a copy that was cut short is to be *cannot evaluate* and never *contradicted* (`CERT_SPEC.md` A.2), and is
  contradicted when an anchor lies beyond the cut, or the certificate declares the layer such an anchor would
  support (`shown.anchor <= shown.at` in `DamageIsNamed`); it is contradicted too when the cut comes before the
  range, for `_verify_chain` answers of an empty range what it answers of a broken chain
  (`verify_certificate.py` 696-697; the last case of the second part of `DamageIsNamed`);
- `certHash` is to be recomputed on any path that reaches a verdict (`CERT_SPEC.md` A.2), an edited document to be
  contradicted also where the ledger cannot be evaluated (A.5), and "handing over an unreadable ledger would be a
  way to escape the check" (`verify_certificate.py` 562-564). This is kept over a ledger of another dialect
  (`FalseStatementIsFound`); over one with a line that cannot be parsed `main()` answers 2 before it looks at the
  document (2043-2047), and so it is with a false statement (`Unreadable`, the third part of `DamageIsNamed`);
- `RANGE_TRUNCATED` counts material entries outside the range whatever day they are of
  (`verify_certificate.py` 787), so an export from the middle of a day is contradicted once the day is closed
  and another day has something material (`WholeSession` in `HonestIsVerified`);
- a certificate that names no day is contradicted once any later day closes after something material
  (822-833, `WholeSession`), while one whose range leaves out the front of its day is not (`shown.named` in
  `HiddenIsFound`), against "so the harm is established first" (786);
- `docs/ledger-extension-rule.md` 1242-1245 has `HUMAN_*` entries touch nothing that is recomputed,
  continuity included; the loop of `recompute_continuity` and `_preceded_by_clean_stop` see them like any entry
  (the themes with a seal have no `HUMAN_ACK`).

## 4. Fairness

- `HonestExecutor!FairSpec`: weak fairness of `ProcessStep` and of `Startup` while not started. One thread
  runs the call, every network call of an adapter returns or raises, sleeps are bounded, and a supervisor
  restarts the process, whose first call is `startup()`. Nothing is assumed of the broker: it need not
  fill, expire or answer the truth.
- `EntryHalt!FairSpec`: weak fairness of each process's next step in its call. `set()` has no wait.
- `Ledger!FairSpec`: weak fairness of the steps of a call, and strong fairness of `Enter` and `AnchorRead`,
  which need the lock. `flock` is held for a few writes, and a waiter is not passed over for ever.
- `FreqtradeGate!FairSpec`: weak fairness of `Gate`, the statements of a callback, which wait for nothing but a
  quote; and strong fairness of `AskExit`, since freqtrade asks again, in every turn of its loop, about a trade
  it wants to close. Nothing is assumed of fills, of `BotStart` or of humans.

## 5. Proofs

Everything here holds for every value of the constants; each component's assumption on them is a named
`ASSUME` (for `OrderAdmission`, the hypothesis `Parameters` of the theorems). The last column names the inductive
invariant; `Spec => []TypeOK` is proved for each of them too.

| Module | Theorem | Of the run's property | From |
|---|---|---|---|
| `HonestExecutorProofs` | `WriteAheadBeforeExposure`, `LedgerTellsTheTruth`, `NoTradeOverABrokenLedger`, `TypeCorrect` | `WriteAheadDurable`, `FinalEntriesAreTrue`, `BrokenLedgerStaysShut`, `TypeOK` | `IInv` |
| `CustodyProofs` | `NothingUnresolvedIsResent`, `LiveOrdersAreOwned`, `CustodyIsKept` | `UnresolvedNeverResent`, `LiveOrderHasOwner`, `KeepsCustody` | `Accounted` |
| | `AnswersAreOnRecord`, `HaltIsClearedQuietly`, `StatisticsFollow` | `ResultMatchesLedger`, `QuietClear`, `StatsFollowLedger` | `Answered`, `Quiet`, `StatsInv` |
| `EntryHaltProofs` | `HaltsAreLostToRacesOnly`, `OneWriterKeepsManualHalts` | `LostOnlyToRaces` | `SInv` |
| `DailyLimitsProofs` | `SealsKeepFills`, `ExhaustedStaysExhausted`, `ResetsTellTheDay`, `DayForward` | the four of `DailyWriters` | `Recording` |
| `LedgerProofs` | `Chain`, `WrittenStays`, `DisagreementIsNotHealed`, `AnchorsDateEntries` | the four of `LedgerChain` | `Held`, `Growing`, `Dating` |
| | `VerifyNeverAccuses` | `AuditNeverAccuses` | `Kept`, `Untouched` |
| | `CompleteSeesAll`, `MissingIsSaid`, `DatedStays` | `OkSeesAll`, `MissingIsNeverOk`, `DatedIsUnchanged` | `Kept` |
| | `DamageIsFound`, for `MaxDamages <= 1` | `DamageIsDetected` | `Kept`, `OnceHurt` |
| `FreqtradeGateProofs` | `AStopStops`, `WrongNumbersHalt`, `EntriesBounded` | the three safety properties of `GateCallbacks` | `Stopping`, `Answering`, `Entering` |
| `CertSessionProofs` | `LedgerIsTold` | | `Guarded`, `Judgement` |
| | `WhatIsHiddenIsFound`, `WhatIsDamagedIsNamed`, `SeriesHasItsDays`, `ChargedIsCrashed` | `HiddenIsFound`, `DamageIsNamed`, `SeriesIsUnbroken`, `OnlyCrashesAreCharged` | both |
| | `HonestIsHeard`, `FalseIsFound`, `BlindIsHeard` | `HonestIsVerified`, `FalseStatementIsFound`, `BlindIsNotCharged` | both |
| | `TimesAreMeant` | `TimesAreTrue` | both and `Timed` (`TimesAreTold`) |
| `OrderAdmissionProofs` | `OrdersWithin`, `ExitsReduceWithoutMargin`, `ShutGatesNeverGrow` | `ExitsReduce`, under `~Margin` | `Within` |

None of the properties is inductive alone. Why the strengthenings are needed:

**Answers (`IInv`).** That a final entry is true needs that the answer in hand at that step is true; that
needs that an answer which is final is never contradicted later (an order that is no longer open does not
move), that the order in hand belongs to the intent in hand, and that index and ledger name orders of their
intents only, since `startup()` takes the order to look at from there. `IInv` is the conjunction of `TypeOK`,
`OrdersInHand`, `OwnOrdersNamed`, `WriteAheadDurable` and `FinalEntriesAreTrue`, with what ties `pc` to the locals.

**Custody (`Accounted`).** A failing append may leave its line on disk while the index does not know of it, and then
the ledger that is continued no longer says what the process believes; so the parts of `Accounted` hold while
`faults = 0`, over any number of crashes. Nothing is recorded of an intent before its write-ahead
(`SentFirst`); one attempt has one order, dead once the ledger has its end (`OneOrder`); of two attempts the
earlier has ended in between, or a crash has cut it off behind an older end (`Repeats`). A crash inside an append may
break the ledger, and then no process is ever started (`Shut`); as long as it has not (`disk = "ok"`), what the index
says is what the ledger says, but for the steps between an UNKNOWN_STATE and its halt (`IndexFollows`); whatever
the process works on is in flight, and `startup()` has each intent on its list once (`AtWork`).
`Repeats` is kept by the step that sends because an attempt that is not in flight is settled: it has
ended, or it was cut off and an older end hides it from `startup()` (`Resolved`); and because all that a new
process finds was cut off by the crash before it (`CutOff`). The first proof step sorts the actions by what they do to
ledger, book and index (`StepEffect`); each part of the invariant, and the refinement (`CustodyStep`), is then shown
for these few effects. `UnresolvedNeverResent` says "while `faults = 0`" itself, so its theorem is of `Spec`;
`LiveOrdersAreOwned` and `CustodyIsKept` assume `MaxFaults = 0`, with crashes. `AnswersAreOnRecord`,
`HaltIsClearedQuietly` and `StatisticsFollow` hold with failing writes and crashes as they are.

**What is said of an order (`Answered`, `Quiet`, `StatsInv`).** `execute()` answers a fill only in the step that
counts it, and by then its entry is written (`Recorded`, which appending keeps); from the gate to `create_order` the
book has not grown since the call began, so a refusal there has created nothing. As long as `startup()` has found
nothing, its list is what the ledger has in flight, and every resting order is yet to be looked at or is known
(`Quiet`); a human may set and clear in between, and the broker may only close orders. The sums over the
fills on record are not expanded by the provers: that one entry more adds its amount is proved of any sum over a
finite set of numbers, by taking the sum as a function on all subsets (`IsSum`).

**Seals (`SInv`).** Of every call that was not raced: the sequence number on file is not below the one it read
(`Ordered`), its decision suits the file it read or a later one (`Informed`), and after the comparison it suits the
file there is (`Compared`). Sequence numbers only grow, except at a rewind; so a seal that is met unchanged,
with no rewind since it was read, is on the same file. `OneWriterKeepsManualHalts` assumes that `Procs` has one
member and has no exception: no other process can have written, and a human only deletes.

**Numbers (`Recording`).** The numbers a call is about to write come from the numbers it read, by one fill or by
one rollover (`Drafted`); no call knows of a file newer than the one there is, and equal seals are equal
files (`Aware`), so that a call that compared and was not raced replaces what it read (`Sole`). All this holds
until a raced call writes (`spoiled`), which is what the properties except.

**The chain (`Held`, `Growing`, `Dating`).** The lock is held from the tip that was read to the tip that is written
and the tail stays whole in between; whoever is about to write a line has the newest entry of all segments in
hand, and where there is no tip file there is no closed segment. The last fails exactly after the crash of
`LedgerGenesisAgain` (`bare`). `Dating` follows an anchor from the tip that was read, through the time without the
lock, to the record.

**The walk of verify() (`Kept`).** `Walk` is a recursive function from the active file to older and older
segments; what holds at its end is shown for every number of steps (`NatSetInduction`). `Files` says that
entries of the active file have larger hashes than those of closed segments, that the entry of a
rotation names a segment, and that whoever is to rename the active file has its tail in hand. `Cuts` says that every
closed segment, and one that was moved elsewhere, has hashes `lo..hi` that nothing jumps over: an entry is
below `lo`, or it is above `hi` and its predecessor is not below `lo`. A walk that comes to the beginning must
therefore have passed through every segment (`WalkMeets`); so no segment moved away can be missed and no entry on disk
left out. Accidents keep both, since they take lines away or change bodies and make no new hashes, and an old copy that is
put back was there before. All of it fails after the crash of `LedgerGenesisAgain`, and the theorems except `bare`.

**An untouched ledger (`Untouched`).** Until the first accident, every file is `Sound` (linked within), every first line
goes on from an older segment that fits, and so will the line that somebody under the lock is about to write
(`Linked`); the file the auditor read a while ago is the beginning of one that is still there, under its name or
as a closed segment (`ViewHolds`). From that, each step of the walk is in order.

**One accident (`OnceHurt`).** After an accident that altered, lost or swapped lines, a file is not in order or does not
fit the entry that speaks of it, and no step puts that right: writers only append, a rotation
closes the file as it is, and no new entry speaks of an old segment (`Refs`). Of two accidents this is not true, and the
theorem says `MaxDamages <= 1`, the bound of the run: to swap the same two lines twice heals them, a
limit of what a hash chain can tell and not of the code.

**The gate (`Stopping`, `Answering`, `Entering`).** A stop that has stood since a callback began is still there to
be seen by the check that is yet to come, and a callback past that check has none. Numbers are right, or
answered for, except while an exception of `order_filled` is on its way to `_deadman_break`. For the number of
entries: each pair that an entry is under way for, be it past the limits, in flight or filled and not yet
recorded, has room of its own in the bound (`Room`), and an entry gets past the limits only when fewer than
`MaxTrades` are recorded and the numbers are right, or the callback would have met the halt.

**Sizes (`Within`).** On a venue that makes no more available to an exit than the position, an order that was
let in as an exit is on the other side of the position and not larger. This is the sanity check's work, not the
predicate's: without it `NetFlip` is what happens.

**A told ledger (`Guarded`, `Judgement`).** The theorems about certificates are of any ledger a guardian may
write: a whole chain, with hashes and numbers that count its entries (`Chained`), in which a start that follows no clean
stop is the first of all or follows a crash (`StartsTold`), days have one opening each and in order (`DaysCounted`), and
every seal is in the history (`SealsTold`). `Judgement` says that what is shown is the verifier's answer to what was
asked of this ledger. From there on the theorems are about operators: a copy is a segment of the ledger (`Segment`), and
the range, its holes and its breaks are computed from that; an order of finitely many things is their
enumeration by rank (`Ordered`), which is how the days of a series and the rows of a range are put in order.

**The loops of the verifier (`Found`, `Knows`).** `Continuity` and `Episodes` fold a step over the rows of the range.
For the first it is enough that every session it has called unclean so far belongs to a different crash under a seal
(`Found`). For the second the issuer's definition, which says for each place whether an episode begins there and where it
ends, has to be met exactly: after n rows the loop is either between two episodes, and has listed all that began, or
within one, and holds the draft of it (`Knows`). The entries about persons, which the issuer leaves out beforehand
and the loop passes over, are taken out by an enumeration of the rows that are kept (`Kept`). So an honest claim
equals what is recomputed and one that was changed does not (`HonestClaims`, `FalseClaims`).

**The times of the verifier (`Timed`, `Tracked`, `Covering`).** The history says of a seal until when one process
watched it, the loop of `Continuity` adds durations; they meet in the ledger. `Timed` says of the ledger that its clock
goes forward, up to now, unless it was set back; that a shutdown is followed by a start; and of each seal that it is
watched still, or until the shutdown that follows it quietly (`Quiet`: no start or stop in between), or at least
until the last entry before a crash (`Over`), all that can be known of a crash. In the loop, as long as no session was
called unclean, the gaps listed so far add up to those of the entries that were read, a shutdown is remembered exactly
at the entry after it (`Tracked`, which needs `~StaleStop`), and of a range with one seal the time covered is that up
to the first shutdown after it or, once unclean, up to the last entry before the start (`Covering`). The sum over the gaps
in `TimesAreTrue` picks its entries in another order than the loop; that both are the same is again proved of any sum
over a finite set of numbers (`SumTakes`, `SumAgree`).

Model-checked only: the liveness properties `CallsEnd`, `PendingEntriesResolve`, `SetIsWritten`,
`AlarmsAreAnchored`, `ExitsGetOut` (outside the prover's reach). Every invariant and action property of a
passing run is a theorem, with the hypotheses named above. Where a definition is a recursive function, as the
walk of `verify()` and these loops are, or a sum, induction over a set of numbers is within reach.

## 6. Not modelled

- GitAnchorPublisher: the hook is a call of `Ledger` that succeeds or fails; git is another system.
- Foundations: clock, paths and exceptions have no behaviour of their own. The day is a variable where it counts.
- The demo, the fixtures' generator and the release scripts decide nothing at run time.
- Of the modelled parts: canonical forms, hashes and signatures as algorithms; malformed lines; the text of
  verdicts, reports and statements; the validation of an intent's fields, which is the precondition of the
  models; the limit of one order's notional in `DailyLimits`.

What a next step could take: continuity with `HUMAN_*` entries between a stop and a start; `LedgerAudit` with an
accident and a crash in one behaviour (the guard `Apart`, which the theorems of
`LedgerProofs` share).
