-------------------------- MODULE CertSessionProofs --------------------------
(***************************************************************************)
(* Theorems about CertSession, for every ledger a guardian may write and   *)
(* every range of it: what is hidden from the range is found, a series has *)
(* its days, damage to the copy is named by its code and charged to        *)
(* nobody, only crashes are called unclean, and the times that are         *)
(* published are those the guardian lived.                                 *)
(*                                                                         *)
(* The invariant is about the ledger and about what was answered: the      *)
(* ledger is a whole chain whose starts, days, seals and times are told,   *)
(* and the answer that is shown is the verifier's to what was asked.  The  *)
(* rest is about the verifier's operators, applied to such a ledger.       *)
(***************************************************************************)
EXTENDS CertSession, FiniteSetTheorems, SequenceTheorems, WellFoundedInduction, TLAPS

-----------------------------------------------------------------------------
(* The guardian's ledger *)

Kinds == Material \cup Boundary \cup Human \cup
           {"GUARDIAN_STARTED", "GUARDIAN_STOPPED", "SEAL_CREATED", "DAY_OPENED", "DAY_CLOSED",
            "PNL_CHECKPOINT", "NEW_KIND"}
Records ==
  [seq : Nat, ev : Kinds, ts : Int, day : Nat, oid : Nat, fresh : BOOLEAN, prev : Nat,
   hash : Nat, sound : BOOLEAN, dialect : Dialects]

\* A whole chain: numbers and hashes count the entries, and each is linked to the one before.
Chained(b) ==
  /\ b \in Seq(Records)
  /\ \A i \in DOMAIN b : /\ b[i].seq = i /\ b[i].hash = i /\ b[i].prev = i - 1
                         /\ b[i].sound /\ b[i].dialect = "guardian-core-v1"

\* A start that follows no clean stop is the first of all or follows a crash; the process that
\* runs, or died, has written last.
StartsTold(b, mode, after) ==
  /\ mode \in {"up", "died", "stopped"} /\ after \subseteq DOMAIN b
  /\ \A i \in DOMAIN b :
       i \in after <=> i > 1 /\ b[i].ev = "GUARDIAN_STARTED" /\ b[i - 1].ev # "GUARDIAN_STOPPED"
  /\ mode # "stopped" => b # <<>>
  /\ b # <<>> => (b[Len(b)].ev = "GUARDIAN_STOPPED" <=> mode = "stopped")
ModeOf(running, dead) == IF running THEN "up" ELSE IF dead THEN "died" ELSE "stopped"

\* The days that were opened have different names.
DaysCounted(b) ==
  /\ \A i \in DOMAIN b : b[i].ev = "DAY_OPENED" => b[i].day \in 1..Count(b, "DAY_OPENED")
  /\ \A i, j \in DOMAIN b : b[i].ev = "DAY_OPENED" /\ b[j].ev = "DAY_OPENED" /\ i < j
                              => b[i].day < b[j].day

\* Every seal of the ledger is in the history.
SealsTold(b, S) == \A i \in DOMAIN b : b[i].ev = "SEAL_CREATED" => \E s \in S : s.seq = i

Guarded ==
  /\ theme \in Themes /\ now \in Nat /\ skew \in {0, -2} /\ day \in Nat
  /\ Chained(book) /\ StartsTold(book, ModeOf(up, died), crashed) /\ DaysCounted(book)
  /\ up \in BOOLEAN /\ died \in BOOLEAN /\ ~(up /\ died)
  /\ SealsTold(book, seals)

\* What a certificate may be asked with.
Asked(p) ==
  /\ p.from \in DOMAIN book /\ p.to \in p.from..Len(book)
  /\ p.flaw \in Flaws /\ p.named \in BOOLEAN
  /\ p.at \in IF p.flaw \in Accidents THEN DOMAIN book ELSE {0}
  /\ p.limit \in IF p.flaw = "limit" THEN LimitValues ELSE {"-"}
  /\ p.anchor \in 0..Len(book)
  /\ p.later \subseteq Nat \ {0, 1} /\ IsFiniteSet(p.later)
  /\ p.lost \in {0} \cup (p.later \ {Max(p.later \cup {0})})
  /\ p.later # {} => p.named /\ DayAt(p.to) = 1
  /\ ~Inapplicable(p.flaw, p.from, p.to)

Answer(p) ==
  RunOf(Certificate(p), Rest(p), IF p.flaw \in Unreadable THEN "unreadable" ELSE "read",
        Copy(p), Anchors(p), TRUE)
Told(p) == VerifyCertificate(Certificate(p), Copy(p), Anchors(p), TRUE)

\* What was shown was answered.
Judgement == IsShown => Asked(shown) /\ exit = Answer(shown) /\ report = Told(shown)

-----------------------------------------------------------------------------
(* One more entry *)

\* Appending to a sequence.
LEMMA Appended ==
  ASSUME NEW S, NEW b \in Seq(S), NEW e \in S
  PROVE  /\ Append(b, e) \in Seq(S) /\ Len(Append(b, e)) = Len(b) + 1 /\ Len(b) \in Nat
         /\ DOMAIN Append(b, e) = 1..(Len(b) + 1) /\ DOMAIN b = 1..Len(b)
         /\ \A i \in 1..Len(b) : Append(b, e)[i] = b[i]
         /\ Append(b, e)[Len(b) + 1] = e
         /\ Append(b, e) # <<>>
         /\ b # <<>> => Len(b) >= 1 /\ Last(b) = b[Len(b)]
         /\ b = <<>> => Len(b) = 0
BY DEF Last

\* The entries of a kind are finitely many.
LEMMA CountType ==
  ASSUME NEW S, NEW b \in Seq(S), NEW ev
  PROVE  Count(b, ev) \in Nat /\ IsFiniteSet({i \in DOMAIN b : b[i].ev = ev})
<1>1. DOMAIN b = 1..Len(b) /\ Len(b) \in Nat
  OBVIOUS
<1>2. IsFiniteSet(1..Len(b))
  BY <1>1, FS_Interval
<1>3. IsFiniteSet({i \in DOMAIN b : b[i].ev = ev})
  BY <1>1, <1>2, FS_Subset
<1> QED BY <1>3, FS_CardinalityType DEF Count

\* One more entry counts once.
LEMMA CountAppended ==
  ASSUME NEW S, NEW b \in Seq(S), NEW e \in S, NEW ev
  PROVE  Count(Append(b, e), ev) = Count(b, ev) + (IF e.ev = ev THEN 1 ELSE 0)
<1> DEFINE A == {i \in DOMAIN b : b[i].ev = ev}
           B == {i \in DOMAIN Append(b, e) : Append(b, e)[i].ev = ev}
<1>1. IsFiniteSet(A) /\ Cardinality(A) \in Nat
  BY CountType DEF Count
<1>2. Len(b) + 1 \notin A
  BY Appended
<1>3. CASE e.ev = ev
  <2>1. B = A \cup {Len(b) + 1}
    BY <1>3, Appended
  <2> QED BY <1>1, <1>2, <1>3, <2>1, FS_AddElement DEF Count
<1>4. CASE e.ev # ev
  <2>1. B = A
    BY <1>4, Appended
  <2>2. Count(Append(b, e), ev) = Count(b, ev) /\ Count(b, ev) \in Nat
    BY <1>1, <2>1 DEF Count
  <2> QED BY <1>4, <2>2
<1> QED BY <1>3, <1>4

\* What an entry says.
LEMMA EntrySays ==
  ASSUME Guarded, NEW ev \in Kinds, NEW oid \in Nat, NEW d \in Nat, NEW pause \in Nat
  PROVE  \E e \in Records :
           /\ e = Entry(ev, oid, d, pause) /\ e.seq = Len(book) + 1 /\ e.hash = Len(book) + 1
           /\ e.prev = Len(book) /\ e.sound /\ e.dialect = "guardian-core-v1" /\ e.ev = ev
           /\ e.day = d
<1>1. book \in Seq(Records) /\ Len(book) \in Nat
  BY DEF Guarded, Chained
<1>2. (IF book = <<>> THEN Genesis ELSE Last(book).hash) = Len(book)
  <2>1. CASE book = <<>>
    BY <1>1, <2>1 DEF Genesis
  <2>2. CASE book # <<>>
    <3>1. Len(book) \in DOMAIN book /\ Last(book) = book[Len(book)]
      BY <1>1, <2>2 DEF Last
    <3> QED BY <2>2, <3>1 DEF Guarded, Chained
  <2> QED BY <2>1, <2>2
<1>3. now + pause + skew \in Int
  BY DEF Guarded
<1> DEFINE e == Entry(ev, oid, d, pause)
<1>4. /\ e = [seq |-> Len(book) + 1, ev |-> ev, ts |-> now + pause + skew, day |-> d, oid |-> oid,
              fresh |-> book = <<>>, prev |-> Len(book), hash |-> Len(book) + 1, sound |-> TRUE,
              dialect |-> "guardian-core-v1"]
  BY <1>2 DEF Entry
<1>5. e \in Records
  <2>1. PICK f \in BOOLEAN : f = (book = <<>>)
    OBVIOUS
  <2>2. PICK t \in Int : t = now + pause + skew
    BY <1>3
  <2>3. PICK k \in Nat : k = Len(book)
    BY <1>1
  <2>4. e = [seq |-> k + 1, ev |-> ev, ts |-> t, day |-> d, oid |-> oid, fresh |-> f, prev |-> k,
             hash |-> k + 1, sound |-> TRUE, dialect |-> "guardian-core-v1"]
    BY <1>4, <2>1, <2>2, <2>3
  <2> HIDE DEF e
  <2>5. k + 1 \in Nat
    OBVIOUS
  <2>6. "guardian-core-v1" \in Dialects /\ TRUE \in BOOLEAN
    BY DEF Dialects
  <2> QED BY <2>4, <2>5, <2>6, Zenon DEF Records
<1> QED BY <1>4, <1>5

\* An entry keeps the chain.
LEMMA ChainedAppended ==
  ASSUME NEW b, Chained(b), NEW e \in Records, e.seq = Len(b) + 1, e.hash = Len(b) + 1,
         e.prev = Len(b), e.sound, e.dialect = "guardian-core-v1"
  PROVE  Chained(Append(b, e))
BY Appended DEF Chained

\* An entry, of a running process or a start, keeps the starts told.
LEMMA StartsAppended ==
  ASSUME NEW b, Chained(b), NEW mode, NEW after, StartsTold(b, mode, after),
         NEW e \in Records, mode = "up", e.ev # "GUARDIAN_STARTED"
  PROVE  /\ e.ev = "GUARDIAN_STOPPED" => StartsTold(Append(b, e), "stopped", after)
         /\ e.ev # "GUARDIAN_STOPPED" => StartsTold(Append(b, e), "up", after)
<1>1. b \in Seq(Records) /\ b # <<>>
  BY DEF Chained, StartsTold
<1>2. \A i \in DOMAIN b : i > 1 => i - 1 \in DOMAIN b
  BY <1>1
<1> QED BY <1>1, <1>2, Appended DEF StartsTold

\* What is told of the starts, after one more entry.
LEMMA StartAppended ==
  ASSUME NEW b, Chained(b), NEW mode, NEW after, StartsTold(b, mode, after),
         NEW e \in Records, mode # "up", e.ev = "GUARDIAN_STARTED"
  PROVE  /\ mode = "died" => StartsTold(Append(b, e), "up", after \cup {Len(b) + 1})
         /\ mode # "died" => StartsTold(Append(b, e), "up", after)
<1>1. b \in Seq(Records)
  BY DEF Chained
<1>2. \A i \in DOMAIN b : i > 1 => i - 1 \in DOMAIN b
  BY <1>1
<1> QED BY <1>1, <1>2, Appended DEF StartsTold

\* An entry keeps the days apart: a day that is opened is a new one.
LEMMA DaysAppended ==
  ASSUME NEW b, Chained(b), DaysCounted(b), NEW e \in Records,
         e.ev = "DAY_OPENED" => e.day = Count(b, "DAY_OPENED") + 1
  PROVE  DaysCounted(Append(b, e))
<1>1. b \in Seq(Records) /\ Count(b, "DAY_OPENED") \in Nat
  BY CountType DEF Chained
<1>2. \A i \in DOMAIN b : b[i].day \in Nat
  <2>1. \A i \in DOMAIN b : b[i] \in Records
    BY <1>1
  <2> QED BY <2>1 DEF Records
<1>3. Count(Append(b, e), "DAY_OPENED") = Count(b, "DAY_OPENED") + (IF e.ev = "DAY_OPENED" THEN 1 ELSE 0)
  BY <1>1, CountAppended
<1> HIDE DEF Count
<1> QED BY <1>1, <1>2, <1>3, Appended DEF DaysCounted

-----------------------------------------------------------------------------
(* The steps of the guardian *)

\* A step that writes an entry of a kind keeps the chain and the days.
LEMMA WriteKeeps ==
  ASSUME Guarded, NEW ev \in Kinds, NEW oid \in Nat, NEW d \in Nat, Write(ev, oid, d),
         ev = "DAY_OPENED" => d = Count(book, "DAY_OPENED") + 1
  PROVE  \E e \in Records :
           /\ book' = Append(book, e) /\ e.ev = ev /\ e.seq = Len(book) + 1
           /\ Chained(book') /\ DaysCounted(book') /\ now' \in Nat
           /\ theme' = theme /\ skew' = skew /\ shown' = shown /\ shown = Nothing
<1>1. PICK p \in theme.pauses : book' = Append(book, Entry(ev, oid, d, p)) /\ now' = now + p
  BY DEF Write
<1>2. p \in Nat /\ now' \in Nat
  BY <1>1, CertSessionAssumption DEF Guarded
<1>3. PICK e \in Records : /\ e = Entry(ev, oid, d, p) /\ e.seq = Len(book) + 1 /\ e.hash = Len(book) + 1
                          /\ e.prev = Len(book) /\ e.sound /\ e.dialect = "guardian-core-v1"
                          /\ e.ev = ev /\ e.day = d
  BY <1>2, EntrySays
<1>4. Chained(book) /\ DaysCounted(book)
  BY DEF Guarded
<1>5. Chained(Append(book, e)) /\ DaysCounted(Append(book, e))
  BY <1>3, <1>4, ChainedAppended, DaysAppended
<1> QED BY <1>1, <1>2, <1>3, <1>5 DEF Write

\* The seals stay told when another entry is written, or the process that watched them ends.
LEMMA SealsStay ==
  ASSUME NEW b, Chained(b), NEW S, SealsTold(b, S), NEW e \in Records, NEW T,
         \A s \in S : \E t \in T : t.seq = s.seq,
         e.ev = "SEAL_CREATED" => \E t \in T : t.seq = Len(b) + 1
  PROVE  SealsTold(Append(b, e), T)
BY Appended DEF SealsTold, Chained

\* A seal that is there is watched by everyone who looks later.
LEMMA WatchedStay == \A until : \A s \in seals : \E t \in Watched(until) : t.seq = s.seq
<1> SUFFICES ASSUME NEW until, NEW s \in seals PROVE \E t \in Watched(until) : t.seq = s.seq
  OBVIOUS
<1>1. (IF s.until = Unknown THEN [s EXCEPT !.until = until] ELSE s).seq = s.seq
  OBVIOUS
<1> QED BY <1>1 DEF Watched

\* Another program writes the ledger: its steps.
GuardianNext ==
  \/ GuardianStarts \/ GuardianStops \/ GuardianCrashes \/ SealCreated
  \/ DayOpened \/ DayClosed \/ ClockBack
  \/ \E ev \in theme.kinds \cap Observed :
       \E oid \in IF ev = "ORDER_REJECTED_LOCKED" THEN {NoId, 1, 2} ELSE {NoId} :
         Observes(ev, oid)

\* Every step of the guardian keeps what is known of the ledger, and is taken before anything
\* is shown.
LEMMA GuardianStep ==
  ASSUME Guarded, GuardianNext
  PROVE  Guarded' /\ shown = Nothing /\ shown' = Nothing
<1> USE DEF NoId
<1>0. /\ Chained(book) /\ StartsTold(book, ModeOf(up, died), crashed) /\ DaysCounted(book)
      /\ up \in BOOLEAN /\ died \in BOOLEAN /\ ~(up /\ died) /\ SealsTold(book, seals) /\ now \in Nat /\ day \in Nat /\ theme \in Themes /\ skew \in {0, -2}
      /\ Count(book, "DAY_OPENED") \in Nat
  BY CountType DEF Guarded, Chained
<1> HIDE DEF Count
<1>1. CASE GuardianStarts
  <2>1. PICK e \in Records :
           /\ book' = Append(book, e) /\ e.ev = "GUARDIAN_STARTED" /\ e.seq = Len(book) + 1
           /\ Chained(book') /\ DaysCounted(book') /\ now' \in Nat
           /\ theme' = theme /\ skew' = skew /\ shown' = shown /\ shown = Nothing
    BY <1>0, <1>1, WriteKeeps DEF GuardianStarts, Kinds
  <2>2. Len(book') = Len(book) + 1
    BY <1>0, <2>1, Appended DEF Chained
  <2>3. StartsTold(book', ModeOf(up', died'), crashed')
    <3>1. /\ ModeOf(up', died') = "up" /\ ModeOf(up, died) # "up"
          /\ crashed' = IF ModeOf(up, died) = "died" THEN crashed \cup {Len(book) + 1} ELSE crashed
      BY <1>1, <2>2 DEF GuardianStarts, ModeOf
    <3> QED BY <1>0, <2>1, <3>1, StartAppended
  <2>4. SealsTold(book', seals')
    BY <1>0, <1>1, <2>1, SealsStay DEF GuardianStarts
  <2> QED BY <1>0, <1>1, <2>1, <2>3, <2>4 DEF GuardianStarts, Guarded
<1>2. CASE GuardianStops
  <2>1. PICK e \in Records :
           /\ book' = Append(book, e) /\ e.ev = "GUARDIAN_STOPPED" /\ e.seq = Len(book) + 1
           /\ Chained(book') /\ DaysCounted(book') /\ now' \in Nat
           /\ theme' = theme /\ skew' = skew /\ shown' = shown /\ shown = Nothing
    BY <1>0, <1>2, WriteKeeps DEF GuardianStops, Kinds
  <2>2. StartsTold(book', ModeOf(up', died'), crashed')
    <3>1. /\ ModeOf(up, died) = "up" /\ crashed' = crashed
          /\ ModeOf(up', died') = IF e.ev = "GUARDIAN_STOPPED" THEN "stopped" ELSE "up"
      BY <1>0, <1>2, <2>1 DEF GuardianStops, ModeOf
    <3> QED BY <1>0, <2>1, <3>1, StartsAppended
  <2>3. SealsTold(book', seals')
    BY <1>0, <1>2, <2>1, SealsStay, WatchedStay DEF GuardianStops
  <2> QED BY <1>0, <1>2, <2>1, <2>2, <2>3 DEF GuardianStops, Guarded
<1>3. CASE GuardianCrashes
  <2>1. StartsTold(book, ModeOf(up', died'), crashed)
    BY <1>0, <1>3 DEF GuardianCrashes, StartsTold, ModeOf
  <2>2. SealsTold(book, seals')
    BY <1>0, <1>3, WatchedStay DEF GuardianCrashes, SealsTold
  <2>3. up' \in BOOLEAN /\ died' \in BOOLEAN /\ ~(up' /\ died')
    BY <1>3, Zenon DEF GuardianCrashes
  <2>3a. now' \in Nat
    BY <1>0, <1>3 DEF GuardianCrashes
  <2>4. Chained(book') /\ DaysCounted(book') /\ UNCHANGED <<theme, book, day, skew, crashed, shown>>
    BY <1>0, <1>3 DEF GuardianCrashes
  <2>5. shown = Nothing
    BY <1>3 DEF GuardianCrashes
  <2> QED BY <1>0, <2>1, <2>2, <2>3, <2>3a, <2>4, <2>5 DEF Guarded
<1>4. CASE SealCreated
  <2>1. PICK e \in Records :
           /\ book' = Append(book, e) /\ e.ev = "SEAL_CREATED" /\ e.seq = Len(book) + 1
           /\ Chained(book') /\ DaysCounted(book') /\ now' \in Nat
           /\ theme' = theme /\ skew' = skew /\ shown' = shown /\ shown = Nothing
    BY <1>0, <1>4, WriteKeeps DEF SealCreated, Kinds
  <2>2. Len(book') = Len(book) + 1
    BY <1>0, <2>1, Appended DEF Chained
  <2>3. StartsTold(book', ModeOf(up', died'), crashed')
    <3>1. /\ ModeOf(up, died) = "up" /\ crashed' = crashed
          /\ ModeOf(up', died') = IF e.ev = "GUARDIAN_STOPPED" THEN "stopped" ELSE "up"
      BY <1>0, <1>4, <2>1 DEF SealCreated, ModeOf
    <3> QED BY <1>0, <2>1, <3>1, StartsAppended
  <2>4. SealsTold(book', seals')
    <3>1. PICK t : t = [seq |-> Len(book'), at |-> now', until |-> Unknown]
      OBVIOUS
    <3>1a. t \in seals' /\ t.seq = Len(book) + 1
      BY <1>4, <2>2, <3>1 DEF SealCreated
    <3>2. seals \subseteq seals'
      BY <1>4 DEF SealCreated
    <3> QED BY <1>0, <2>1, <3>1a, <3>2, SealsStay
  <2> QED BY <1>0, <1>4, <2>1, <2>3, <2>4 DEF SealCreated, Guarded
<1>5. CASE DayOpened
  <2>0. day' = Count(book, "DAY_OPENED") + 1 /\ day' \in Nat
    BY <1>0, <1>5 DEF DayOpened
  <2>1. PICK e \in Records :
           /\ book' = Append(book, e) /\ e.ev = "DAY_OPENED" /\ e.seq = Len(book) + 1
           /\ Chained(book') /\ DaysCounted(book') /\ now' \in Nat
           /\ theme' = theme /\ skew' = skew /\ shown' = shown /\ shown = Nothing
    <3>1. PICK d \in Nat : d = day'
      BY <2>0
    <3>2. Write("DAY_OPENED", NoId, d) /\ "DAY_OPENED" \in Kinds
      BY <1>5, <3>1 DEF DayOpened, Kinds
    <3> QED BY <2>0, <3>1, <3>2, WriteKeeps
  <2>3. StartsTold(book', ModeOf(up', died'), crashed')
    <3>1. /\ ModeOf(up, died) = "up" /\ crashed' = crashed
          /\ ModeOf(up', died') = IF e.ev = "GUARDIAN_STOPPED" THEN "stopped" ELSE "up"
      BY <1>0, <1>5, <2>1 DEF DayOpened, ModeOf
    <3> QED BY <1>0, <2>1, <3>1, StartsAppended
  <2>4. SealsTold(book', seals')
    BY <1>0, <1>5, <2>1, SealsStay DEF DayOpened
  <2> QED BY <1>0, <1>5, <2>0, <2>1, <2>3, <2>4 DEF DayOpened, Guarded
<1>6. CASE DayClosed
  <2>1. PICK e \in Records :
           /\ book' = Append(book, e) /\ e.ev = "DAY_CLOSED" /\ e.seq = Len(book) + 1
           /\ Chained(book') /\ DaysCounted(book') /\ now' \in Nat
           /\ theme' = theme /\ skew' = skew /\ shown' = shown /\ shown = Nothing
    BY <1>0, <1>6, WriteKeeps DEF DayClosed, Kinds
  <2>3. StartsTold(book', ModeOf(up', died'), crashed')
    <3>1. /\ ModeOf(up, died) = "up" /\ crashed' = crashed
          /\ ModeOf(up', died') = IF e.ev = "GUARDIAN_STOPPED" THEN "stopped" ELSE "up"
      BY <1>0, <1>6, <2>1 DEF DayClosed, ModeOf
    <3> QED BY <1>0, <2>1, <3>1, StartsAppended
  <2>4. SealsTold(book', seals')
    BY <1>0, <1>6, <2>1, SealsStay DEF DayClosed
  <2> QED BY <1>0, <1>6, <2>1, <2>3, <2>4 DEF DayClosed, Guarded, NoDay
<1>7. CASE ClockBack
  BY <1>0, <1>7 DEF ClockBack, Guarded
<1>8. ASSUME NEW ev \in theme.kinds \cap Observed,
             NEW oid \in IF ev = "ORDER_REJECTED_LOCKED" THEN {NoId, 1, 2} ELSE {NoId},
             Observes(ev, oid)
      PROVE  Guarded' /\ shown = Nothing /\ shown' = Nothing
  <2>0. /\ ev \in Kinds /\ oid \in Nat /\ ev # "DAY_OPENED"
        /\ ev \notin {"GUARDIAN_STARTED", "GUARDIAN_STOPPED", "SEAL_CREATED"}
    BY DEF Observed, Kinds, Material, Boundary, Human
  <2>1. PICK e \in Records :
           /\ book' = Append(book, e) /\ e.ev = ev /\ e.seq = Len(book) + 1
           /\ Chained(book') /\ DaysCounted(book') /\ now' \in Nat
           /\ theme' = theme /\ skew' = skew /\ shown' = shown /\ shown = Nothing
    BY <1>0, <1>8, <2>0, WriteKeeps DEF Observes
  <2>3. StartsTold(book', ModeOf(up', died'), crashed')
    <3>1. /\ ModeOf(up, died) = "up" /\ crashed' = crashed
          /\ ModeOf(up', died') = IF e.ev = "GUARDIAN_STOPPED" THEN "stopped" ELSE "up"
      BY <1>0, <1>8, <2>0, <2>1 DEF Observes, ModeOf
    <3> QED BY <1>0, <2>0, <2>1, <3>1, StartsAppended
  <2>4. SealsTold(book', seals')
    BY <1>0, <1>8, <2>0, <2>1, SealsStay DEF Observes
  <2> QED BY <1>0, <1>8, <2>1, <2>3, <2>4 DEF Observes, Guarded
<1> QED BY <1>1, <1>2, <1>3, <1>4, <1>5, <1>6, <1>7, <1>8 DEF GuardianNext

-----------------------------------------------------------------------------
(* What is shown *)

\* What is made of a book is the same as long as the book is.
LEMMA SameBook ==
  ASSUME book' = book, NEW p
  PROVE  /\ Answer(p)' = Answer(p) /\ Told(p)' = Told(p) /\ (Asked(p)' <=> Asked(p))
<1>1. CertRows(p)' = CertRows(p) /\ Copy(p)' = Copy(p) /\ Anchors(p)' = Anchors(p)
  BY DEF CertRows, Copy, Anchors
<1>2. \A n : DayAt(n)' = DayAt(n)
  BY DEF DayAt
<1>3. ClaimsOf(p)' = ClaimsOf(p)
  BY <1>1 DEF ClaimsOf
<1>4. Certificate(p)' = Certificate(p)
  BY <1>2, <1>3 DEF Certificate
<1>5. \A flaw, from, to : Inapplicable(flaw, from, to)' <=> Inapplicable(flaw, from, to)
  BY DEF Inapplicable
<1> QED BY <1>1, <1>2, <1>4, <1>5 DEF Answer, Told, Asked

\* The disjunct of Next in which a certificate is shown.
ShowNext ==
  shown = Nothing /\ \E from \in DOMAIN book, flaw \in theme.flaws, named \in theme.named :
    \E to \in IF theme.ranges = "all" THEN from..Len(book) ELSE {Len(book)},
       at \in IF flaw \in Accidents THEN DOMAIN book ELSE {0},
       limit \in IF flaw = "limit" THEN LimitValues ELSE {"-"},
       anchor \in IF theme.anchors THEN 0..Len(book) ELSE {0} :
    \E later \in IF named /\ DayAt(to) = 1 THEN theme.series ELSE {{}} :
      \E lost \in {0} \cup (later \ {Max(later \cup {0})}),
         order \in IF later = {} THEN {"as is"} ELSE {"as is", "reversed", "excused"} :
        /\ ~Inapplicable(flaw, from, to)
        /\ Show([from |-> from, to |-> to, named |-> named, flaw |-> flaw, at |-> at,
                 limit |-> limit, anchor |-> anchor, later |-> later, lost |-> lost,
                 order |-> order])

\* A step is one of the guardian or one that shows a certificate.
LEMMA NextIs == Next <=> GuardianNext \/ ShowNext
BY DEF Next, GuardianNext, ShowNext

\* The end of a file is in it, and so is its beginning.
LEMMA Spans ==
  \A n \in Nat : \A from \in 1..n : \A to, anchor :
    (to = n \/ to \in from..n) /\ (anchor = 0 \/ anchor \in 0..n)
      => to \in from..n /\ anchor \in 0..n
OBVIOUS

\* What is shown is a certificate over a range of the book, with at most one flaw.
LEMMA ShowAsks ==
  ASSUME Guarded, ShowNext
  PROVE  \E p : Asked(p) /\ Show(p)
<1>0. Len(book) \in Nat /\ DOMAIN book = 1..Len(book)
  BY DEF Guarded, Chained
<1>1. PICK from \in DOMAIN book, flaw \in theme.flaws, named \in theme.named :
    \E to \in IF theme.ranges = "all" THEN from..Len(book) ELSE {Len(book)},
       at \in IF flaw \in Accidents THEN DOMAIN book ELSE {0},
       limit \in IF flaw = "limit" THEN LimitValues ELSE {"-"},
       anchor \in IF theme.anchors THEN 0..Len(book) ELSE {0} :
    \E later \in IF named /\ DayAt(to) = 1 THEN theme.series ELSE {{}} :
      \E lost \in {0} \cup (later \ {Max(later \cup {0})}),
         order \in IF later = {} THEN {"as is"} ELSE {"as is", "reversed", "excused"} :
        /\ ~Inapplicable(flaw, from, to)
        /\ Show([from |-> from, to |-> to, named |-> named, flaw |-> flaw, at |-> at,
                 limit |-> limit, anchor |-> anchor, later |-> later, lost |-> lost,
                 order |-> order])
  BY DEF ShowNext
<1>2a. PICK to \in IF theme.ranges = "all" THEN from..Len(book) ELSE {Len(book)},
            at \in IF flaw \in Accidents THEN DOMAIN book ELSE {0},
            limit \in IF flaw = "limit" THEN LimitValues ELSE {"-"},
            anchor \in IF theme.anchors THEN 0..Len(book) ELSE {0} :
    \E later \in IF named /\ DayAt(to) = 1 THEN theme.series ELSE {{}} :
      \E lost \in {0} \cup (later \ {Max(later \cup {0})}),
         order \in IF later = {} THEN {"as is"} ELSE {"as is", "reversed", "excused"} :
        /\ ~Inapplicable(flaw, from, to)
        /\ Show([from |-> from, to |-> to, named |-> named, flaw |-> flaw, at |-> at,
                 limit |-> limit, anchor |-> anchor, later |-> later, lost |-> lost,
                 order |-> order])
  BY <1>1
<1>2. PICK later \in IF named /\ DayAt(to) = 1 THEN theme.series ELSE {{}} :
      \E lost \in {0} \cup (later \ {Max(later \cup {0})}),
         order \in IF later = {} THEN {"as is"} ELSE {"as is", "reversed", "excused"} :
        /\ ~Inapplicable(flaw, from, to)
        /\ Show([from |-> from, to |-> to, named |-> named, flaw |-> flaw, at |-> at,
                 limit |-> limit, anchor |-> anchor, later |-> later, lost |-> lost,
                 order |-> order])
  BY <1>2a
<1>3. PICK lost \in {0} \cup (later \ {Max(later \cup {0})}),
           order \in IF later = {} THEN {"as is"} ELSE {"as is", "reversed", "excused"} :
        \E p : /\ p = [from |-> from, to |-> to, named |-> named, flaw |-> flaw, at |-> at,
                       limit |-> limit, anchor |-> anchor, later |-> later, lost |-> lost,
                       order |-> order]
               /\ ~Inapplicable(flaw, from, to) /\ Show(p)
  BY <1>2
<1>3a. PICK p : /\ p = [from |-> from, to |-> to, named |-> named, flaw |-> flaw, at |-> at,
                        limit |-> limit, anchor |-> anchor, later |-> later, lost |-> lost,
                        order |-> order]
                /\ ~Inapplicable(flaw, from, to) /\ Show(p)
  BY <1>3
<1>4. /\ p.from = from /\ p.to = to /\ p.named = named /\ p.flaw = flaw /\ p.at = at
      /\ p.limit = limit /\ p.anchor = anchor /\ p.later = later /\ p.lost = lost
  BY <1>3, <1>3a
<1>5. book \in Seq(Records) /\ theme \in Themes
  BY DEF Guarded, Chained
<1>6. to \in from..Len(book) /\ anchor \in 0..Len(book)
  <2>1. Len(book) \in Nat /\ DOMAIN book = 1..Len(book)
    BY <1>0
  <2>2. from \in 1..Len(book)
    BY <2>1
  <2>3. PICK n \in Nat : n = Len(book)
    BY <2>1
  <2>4. to = n \/ to \in from..n
    BY <2>3, Zenon
  <2>5. anchor = 0 \/ anchor \in 0..n
    BY <2>3, Zenon
  <2>6. from \in 1..n
    BY <2>2, <2>3
  <2>7. to \in from..n /\ anchor \in 0..n
    BY <2>4, <2>5, <2>6, Spans, Zenon
  <2> QED BY <2>3, <2>7
<1>7. flaw \in Flaws /\ named \in BOOLEAN
  BY <1>5, CertSessionAssumption
<1>8. /\ later \subseteq Nat \ {0, 1} /\ IsFiniteSet(later)
      /\ later # {} => named /\ DayAt(to) = 1
  <2>1. CASE named /\ DayAt(to) = 1
    BY <1>5, <2>1, CertSessionAssumption
  <2>2. CASE ~(named /\ DayAt(to) = 1)
    BY <2>2, FS_EmptySet
  <2> QED BY <2>1, <2>2
<1>9. Asked(p)
  BY <1>3, <1>3a, <1>4, <1>6, <1>7, <1>8 DEF Asked
<1> QED BY <1>3, <1>3a, <1>9

\* At first there is no ledger and nothing is shown.
LEMMA GuardedInit == Init => Guarded /\ Judgement
<1> SUFFICES ASSUME Init PROVE Guarded /\ Judgement
  OBVIOUS
<1>1. book = <<>> /\ Len(book) = 0 /\ DOMAIN book = {} /\ book \in Seq(Records)
  BY DEF Init
<1>2. Guarded
  BY <1>1 DEF Init, Guarded, Chained, StartsTold, ModeOf, DaysCounted, SealsTold, NoDay
<1>3. Judgement
  BY DEF Init, Judgement, IsShown
<1> QED BY <1>2, <1>3

\* Every step keeps what is known of the guardian's ledger.
LEMMA GuardedStep ==
  ASSUME Guarded, Judgement, [Next]_vars
  PROVE  Guarded' /\ Judgement'
<1>1. CASE GuardianNext
  BY <1>1, GuardianStep DEF Judgement, IsShown
<1>2. CASE ShowNext
  <2>1. PICK p : Asked(p) /\ Show(p)
    BY <1>2, ShowAsks
  <2>2. UNCHANGED <<theme, book, up, sealed, day, now, skew, died, crashed, seals>>
    BY <2>1 DEF Show, guardianVars
  <2>3. Guarded'
    BY <2>2 DEF Guarded
  <2>4. shown' = p /\ exit' = Answer(p) /\ report' = Told(p)
    BY <2>1 DEF Show, Answer, Told
  <2>5. book' = book
    BY <2>2
  <2>6. Answer(p)' = Answer(p) /\ Told(p)' = Told(p) /\ (Asked(p)' <=> Asked(p))
    BY <2>5, SameBook
  <2>7. Judgement'
    BY <2>1, <2>4, <2>6 DEF Judgement
  <2> QED BY <2>3, <2>7
<1>3. CASE UNCHANGED vars
  <2>1. UNCHANGED <<theme, book, up, sealed, day, now, skew, died, crashed, seals, shown, exit, report>>
    BY <1>3 DEF vars
  <2>2. Guarded'
    BY <2>1 DEF Guarded
  <2>3. PICK p : p = shown
    OBVIOUS
  <2>4. book' = book
    BY <2>1
  <2>5. Answer(p)' = Answer(p) /\ Told(p)' = Told(p) /\ (Asked(p)' <=> Asked(p))
    BY <2>4, SameBook
  <2>6. Judgement'
    BY <2>1, <2>3, <2>5 DEF Judgement, IsShown, Nothing
  <2> QED BY <2>2, <2>6
<1> QED BY <1>1, <1>2, <1>3, NextIs

\* The ledger is a chain, tells every start that follows a crash and names its days apart; and
\* what was shown was answered as main() does.
THEOREM LedgerIsTold == Spec => [](Guarded /\ Judgement)
<1>1. Guarded /\ Judgement /\ [Next]_vars => (Guarded /\ Judgement)'
  BY GuardedStep
<1> QED BY <1>1, GuardedInit, PTL DEF Spec

-----------------------------------------------------------------------------
(* main() *)

\* A set of numbers that has 0, and with every number the next, has them all.
LEMMA NatSetInduction ==
  ASSUME NEW S, 0 \in S, \A n \in Nat : n \in S => n + 1 \in S
  PROVE  Nat \subseteq S
<1> DEFINE T == Nat \ S
<1>1. SUFFICES ASSUME T # {} PROVE FALSE
  OBVIOUS
<1>2. T \subseteq Nat
  OBVIOUS
<1>3. PICK x \in T : \A y \in T : ~ (<<y, x>> \in OpToRel(<, Nat))
  BY <1>1, <1>2, WFMin, NatLessThanWellFounded, Zenon
<1>4. x \in Nat /\ x # 0 /\ x \notin S
  OBVIOUS
<1>5. x - 1 \in Nat /\ x - 1 + 1 = x
  BY <1>4
<1>6. x - 1 \notin S
  BY <1>4, <1>5
<1>7. <<x - 1, x>> \in OpToRel(<, Nat)
  <2>1. <<x - 1, x>> \in Nat \X Nat
    BY <1>4, <1>5
  <2>2. x - 1 < x
    BY <1>4
  <2> QED BY <2>1, <2>2 DEF OpToRel
<1> QED BY <1>3, <1>5, <1>6, <1>7

\* A finite set of numbers that is not empty has a largest member.
LEMMA FiniteMax ==
  ASSUME NEW U, IsFiniteSet(U), U \subseteq Nat, U # {}
  PROVE  \E m \in U : \A x \in U : m >= x
<1> DEFINE Has(S) == S # {} => \E m \in S : \A x \in S : m >= x
           P == {n \in Nat : \A S \in SUBSET U : Cardinality(S) = n => Has(S)}
<1>0. \A S \in SUBSET U : IsFiniteSet(S) /\ Cardinality(S) \in Nat
  BY FS_Subset, FS_CardinalityType
<1>1. 0 \in P
  BY <1>0, FS_EmptySet
<1>2. ASSUME NEW n \in Nat, n \in P PROVE n + 1 \in P
  <2>1. SUFFICES ASSUME NEW S \in SUBSET U, Cardinality(S) = n + 1 PROVE Has(S)
    OBVIOUS
  <2>2. SUFFICES ASSUME S # {} PROVE \E m \in S : \A x \in S : m >= x
    OBVIOUS
  <2>3. PICK x \in S : TRUE
    BY <2>2
  <2>4. Cardinality(S \ {x}) = n /\ S \ {x} \in SUBSET U
    BY <1>0, <2>1, FS_RemoveElement
  <2>5. Has(S \ {x})
    BY <1>2, <2>4
  <2>6. CASE S \ {x} = {}
    BY <2>6
  <2>7. CASE S \ {x} # {}
    <3>1. PICK m \in S \ {x} : \A y \in S \ {x} : m >= y
      BY <2>5, <2>7
    <3>2. CASE m >= x
      BY <3>1, <3>2
    <3>3. CASE ~(m >= x)
      <4>1. \A y \in S : x >= y
        BY <3>1, <3>3
      <4> QED BY <4>1
    <3> QED BY <3>2, <3>3
  <2> QED BY <2>6, <2>7
<1>3. Nat \subseteq P
  <2> HIDE DEF P
  <2> QED BY <1>1, <1>2, NatSetInduction
<1>4. Cardinality(U) \in P
  BY <1>0, <1>3
<1> QED BY <1>4

\* A function on the first numbers is a sequence.
LEMMA IsSeq ==
  \A n \in Nat : \A f, S : f \in [1..n -> S] =>
    /\ f \in Seq(S) /\ Len(f) = n /\ DOMAIN f = 1..n
    /\ (n = 0 => f = <<>>) /\ (f = <<>> => n = 0)
OBVIOUS

\* A field that says whether something is a member, when it is not.
LEMMA NotAMember == ASSUME NEW f, NEW S, NEW t, f \notin S, t = (f \in S) PROVE t = FALSE
<1>1. (f \in S) = FALSE
  OBVIOUS
<1> QED BY <1>1, Zenon

LEMMA NothingAdded == \A m, n \in Nat : n + m <= n => m = 0
OBVIOUS

\* The later certificates are a sequence, and there are none of no day.
LEMMA RestIs ==
  ASSUME NEW p, IsFiniteSet(p.later)
  PROVE  /\ \E n \in Nat : \E S : Rest(p) \in [1..n -> S] /\ n = Cardinality(p.later \ {p.lost})
         /\ p.later = {} => Rest(p) = <<>>
<1> DEFINE n == Cardinality(p.later \ {p.lost})
           kept == Ranked(p.later \ {p.lost}, <)
<1>1. n \in Nat
  BY FS_Subset, FS_CardinalityType
<1>2. DOMAIN kept = 1..n /\ kept \in [1..n -> {kept[k] : k \in 1..n}]
  BY DEF Ranked
<1>3. Len(kept) = n
  <2> HIDE DEF kept, n
  <2> QED BY <1>1, <1>2, IsSeq
<1> DEFINE c(i) == DayCertificate(p, kept[IF p.order = "reversed" THEN n + 1 - i ELSE i])
<1>4. Rest(p) = [i \in 1..n |-> c(i)]
  BY <1>3 DEF Rest
<1> HIDE DEF c
<1>5. Rest(p) \in [1..n -> {c(i) : i \in 1..n}]
  BY <1>4
<1>6. p.later = {} => n = 0
  BY FS_EmptySet
<1>7. p.later = {} => Rest(p) = <<>>
  <2> HIDE DEF n
  <2> QED BY <1>1, <1>5, <1>6, IsSeq
<1> QED BY <1>1, <1>5, <1>7

\* A run over a series that holds the certificate shown ends with 0 or 1 for its links.
LEMMA LinksAnswer ==
  ASSUME NEW cert, NEW n \in Nat, NEW S, NEW series \in [1..n -> S]
  PROVE  /\ ExitCode(VerifySeries(<<cert>> \o series)) \in {0, 1}
         /\ ExitCode(VerifySeries(<<cert>> \o series)) = 0 <=> SeriesCodes(<<cert>> \o series) = {}
<1>1. series \in Seq(S \cup {cert}) /\ <<cert>> \in Seq(S \cup {cert})
  BY IsSeq
<1>2. <<cert>> \o series # <<>>
  BY <1>1
<1>3. VerifySeries(<<cert>> \o series)
        = [contradictions |-> SeriesCodes(<<cert>> \o series), unevaluable |-> {}]
  BY <1>2 DEF VerifySeries
<1> QED BY <1>3 DEF ExitCode

\* What main() answers about what was shown.
LEMMA Answers ==
  ASSUME NEW p, Asked(p)
  PROVE  /\ p.later = {} => Answer(p) = IF p.flaw \in Unreadable THEN 2 ELSE ExitCode(Told(p))
         /\ p.flaw \notin Unreadable /\ Told(p).contradictions # {} => Answer(p) = 1
         /\ LET links == SeriesCodes(<<Certificate(p)>> \o Rest(p))
            IN p.later # {} => /\ links # {} => Answer(p) = 1
                               /\ links = {} => Answer(p) = IF p.flaw \in Unreadable THEN 2
                                                            ELSE ExitCode(Told(p))
<1>1. PICK n, S : n \in Nat /\ Rest(p) \in [1..n -> S] /\ n = Cardinality(p.later \ {p.lost})
  BY RestIs DEF Asked
<1> DEFINE links == SeriesCodes(<<Certificate(p)>> \o Rest(p))
           code == ExitCode(VerifySeries(<<Certificate(p)>> \o Rest(p)))
<1>2. code \in {0, 1} /\ (code = 0 <=> links = {})
  BY <1>1, LinksAnswer
<1>3. Answer(p) = IF Rest(p) # <<>> /\ code # 0 THEN code
                  ELSE IF p.flaw \in Unreadable THEN 2 ELSE ExitCode(Told(p))
  <2>1. (IF p.flaw \in Unreadable THEN "unreadable" ELSE "read") # "read" <=> p.flaw \in Unreadable
    OBVIOUS
  <2> QED BY <2>1 DEF Answer, RunOf, Told
<1>4. p.later = {} => Rest(p) = <<>>
  BY RestIs DEF Asked
<1>5. Told(p).contradictions # {} => ExitCode(Told(p)) = 1
  BY DEF ExitCode
<1>6. p.later # {} => Rest(p) # <<>>
  <2>1. SUFFICES ASSUME p.later # {} PROVE n # 0
    BY <1>1, IsSeq
  <2>2. p.later \ {p.lost} # {}
    <3>1. IsFiniteSet(p.later) /\ p.later \subseteq Nat /\ 0 \notin p.later
      BY DEF Asked
    <3>2. PICK m \in p.later : \A x \in p.later : m >= x
      BY <2>1, <3>1, FiniteMax
    <3>3. Max(p.later \cup {0}) \in p.later
      <4>1. m \in p.later \cup {0} /\ \A x \in p.later \cup {0} : m >= x
        BY <3>1, <3>2
      <4>2. Max(p.later \cup {0}) \in p.later \cup {0} /\ \A x \in p.later \cup {0} : Max(p.later \cup {0}) >= x
        BY <4>1 DEF Max
      <4> QED BY <3>1, <3>2, <4>2
    <3> QED BY <3>3 DEF Asked
  <2> QED BY <1>1, <2>2, FS_EmptySet, FS_Subset DEF Asked
<1> HIDE DEF links, code
<1>7. p.later = {} => Answer(p) = IF p.flaw \in Unreadable THEN 2 ELSE ExitCode(Told(p))
  BY <1>3, <1>4
<1>8. p.flaw \notin Unreadable /\ Told(p).contradictions # {} => Answer(p) = 1
  BY <1>2, <1>3, <1>5
<1>9. p.later # {} => /\ links # {} => Answer(p) = 1
                      /\ links = {} => Answer(p) = IF p.flaw \in Unreadable THEN 2 ELSE ExitCode(Told(p))
  BY <1>2, <1>3, <1>6
<1> QED BY <1>7, <1>8, <1>9 DEF links

-----------------------------------------------------------------------------
(* What a report holds *)

Missing(cert, file) == (cert.from..cert.to) \ {e.seq : e \in ToSet(file)}
Intact(cert, file) == ChainBreak(file, cert.from, cert.to) = 0
Ends(cert, file) == Truncated(Missing(cert, file), cert.to, Intact(cert, file))
Effective(cert, file) == IF Ends(cert, file) THEN Min(Missing(cert, file)) - 1 ELSE cert.to
Compared(cert, file) ==
  RangeCoversItsDay(cert.day, file, cert.from, cert.to)
    \cup IF Ends(cert, file) THEN {<<"unverified", "CLAIMS_NOT_COMPARABLE">>}
         ELSE CompareClaims(cert.claims, EventsInRange(file, cert.from, Effective(cert, file)), Intact(cert, file))
Layer(cert, file, anchors) ==
  Reached(cert, Intact(cert, file), Standing(file, anchors), Standing(file, anchors) = anchors,
          SignatureStatus(cert, TRUE))

Against(cert, file, anchors) ==
  Channel(Compared(cert, file), "contradiction")
    \cup HashCodes(cert) \cup RuleFive(cert.leaves) \cup LevelCodes(cert.level, Layer(cert, file, anchors))
    \cup (IF Intact(cert, file) THEN {} ELSE {"CHAIN_BROKEN"})
    \cup (IF Missing(cert, file) # {} /\ ~Ends(cert, file) THEN {"RANGE_INCOMPLETE"} ELSE {})
    \cup (IF cert.limitations THEN {} ELSE {"LIMITATIONS_ALTERED"})
    \cup (IF cert.trades THEN {"PRIVACY_LEAK"} ELSE {})
    \cup (IF Standing(file, anchors) = anchors THEN {} ELSE {"ANCHOR_MISMATCH"})
    \cup (IF SignatureStatus(cert, TRUE) = "INVALID" THEN {"SIGNATURE_INVALID"} ELSE {})

\* The parts of a report, with a key, on a ledger that was read.
LEMMA Reports ==
  ASSUME NEW cert, NEW file, NEW anchors, StopCode(cert, file) = "none"
  PROVE  LET r == VerifyCertificate(cert, file, anchors, TRUE)
         IN /\ r.contradictions = Against(cert, file, anchors)
            /\ r.unevaluable = (IF Ends(cert, file) THEN {"LEDGER_TRUNCATED"} ELSE {})
            /\ r.reached = Layer(cert, file, anchors)
            /\ r.effectiveTo = Effective(cert, file)
            /\ r.continuity = Continuity(file, cert.dialect, cert.from, Effective(cert, file))
            /\ r.backwards = BackwardsTimestamps(file, cert.from, Effective(cert, file))
<1>1. VerifyCertificate(cert, file, anchors, TRUE) = Judged(cert, file, anchors, TRUE)
  BY DEF VerifyCertificate
<1> DEFINE j == Judged(cert, file, anchors, TRUE)
<1>2. j.unevaluable = (IF Ends(cert, file) THEN {"LEDGER_TRUNCATED"} ELSE {})
  BY DEF Judged, Missing, Intact, Ends
<1>3. j.effectiveTo = Effective(cert, file)
  BY DEF Judged, Missing, Intact, Ends, Effective
<1>4. j.reached = Layer(cert, file, anchors)
  BY DEF Judged, Missing, Intact, Layer
<1>5. j.continuity = Continuity(file, cert.dialect, cert.from, Effective(cert, file))
  BY DEF Judged, Missing, Intact, Ends, Effective
<1>6. j.backwards = BackwardsTimestamps(file, cert.from, Effective(cert, file))
  BY DEF Judged, Missing, Intact, Ends, Effective
<1>7. j.contradictions = Against(cert, file, anchors)
  BY DEF Judged, Missing, Intact, Ends, Effective, Compared, Layer, Against
<1> HIDE DEF j
<1> QED BY <1>1, <1>2, <1>3, <1>4, <1>5, <1>6, <1>7 DEF j

\* What makes a report contradict a certificate.
LEMMA Contradicts ==
  ASSUME NEW cert, NEW file, NEW anchors, StopCode(cert, file) = "none",
         \/ Channel(Compared(cert, file), "contradiction") # {}
         \/ HashCodes(cert) # {}
         \/ RuleFive(cert.leaves) # {}
         \/ LevelCodes(cert.level, Layer(cert, file, anchors)) # {}
         \/ ~Intact(cert, file)
         \/ Missing(cert, file) # {} /\ ~Ends(cert, file)
         \/ ~cert.limitations
         \/ cert.trades
         \/ SignatureStatus(cert, TRUE) = "INVALID"
  PROVE  VerifyCertificate(cert, file, anchors, TRUE).contradictions # {}
<1>1. Against(cert, file, anchors) # {}
  BY DEF Against
<1>2. VerifyCertificate(cert, file, anchors, TRUE).contradictions = Against(cert, file, anchors)
  BY Reports
<1> QED BY <1>1, <1>2

\* A report of a verifier that stopped.
LEMMA Stops ==
  ASSUME NEW cert, NEW file, NEW anchors, NEW code, code = StopCode(cert, file), code # "none"
  PROVE  LET r == VerifyCertificate(cert, file, anchors, TRUE)
         IN /\ r.contradictions = HashCodes(cert) \cup (IF code \in {"DIALECT_MISSING", "RANGE_MISSING"} THEN {code} ELSE {})
            /\ r.unevaluable = {code} \ {"DIALECT_MISSING", "RANGE_MISSING"}
            /\ r.continuity = NoContinuity
BY DEF VerifyCertificate, Stopped

-----------------------------------------------------------------------------
(* What is left out is found *)

\* The fields of the certificate.
LEMMA CertificateFields ==
  ASSUME NEW p
  PROVE  LET c == Certificate(p)
         IN /\ c.hash = (CASE p.flaw \in {"edited", "edited over alien", "edited over unreadable"} -> "differs"
                           [] p.flaw = "no hash" -> "missing" [] p.flaw = "not an object" -> "not taken"
                           [] OTHER -> "matches")
            /\ c.dialect = (CASE p.flaw = "no dialect" -> "none" [] p.flaw = "future dialect" -> "v9"
                              [] p.flaw = "not an object" -> p.flaw [] OTHER -> "guardian-core-v1")
            /\ c.from = (IF p.flaw = "no range" THEN p.to + 1 ELSE p.from)
            /\ c.to = p.to
            /\ c.day = (IF p.named THEN DayAt(p.to) ELSE NoDay)
            /\ c.claims = (IF p.flaw = "silent" THEN <<>> ELSE ClaimsOf(p))
            /\ c.leaves = HonestLeaves
                 \cup (IF p.flaw = "filler" THEN {[key |-> "tool", shape |-> "filler"]} ELSE {})
                 \cup (IF p.flaw = "belied" THEN {[key |-> "sealHash", shape |-> "text"]} ELSE {})
            /\ c.limitations = (p.flaw # "reworded") /\ c.trades = (p.flaw \in {"trades", "trades over unreadable"})
            /\ c.signature = (IF p.flaw = "forged" THEN "not genuine" ELSE "none")
            /\ c.id = 1 /\ c.previous = 0 /\ c.gaps = {} /\ c.unexplained = {}
            /\ c.level = (CASE p.flaw = "overstated" -> "L3" [] p.flaw = "bad level" -> "L9"
                            [] OTHER -> IF p.anchor > 0 THEN "L2" ELSE "L1")
BY DEF Certificate

\* The book, with its range.
LEMMA BookSays ==
  ASSUME Guarded
  PROVE  /\ book \in Seq(Records) /\ Len(book) \in Nat /\ DOMAIN book = 1..Len(book)
         /\ ToSet(book) = {book[i] : i \in 1..Len(book)}
         /\ \A i \in 1..Len(book) : /\ book[i] \in Records /\ book[i].seq = i /\ book[i].hash = i
                                    /\ book[i].prev = i - 1 /\ book[i].sound
                                    /\ book[i].dialect = "guardian-core-v1"
<1>1. book \in Seq(Records) /\ Len(book) \in Nat /\ DOMAIN book = 1..Len(book)
  BY DEF Guarded, Chained
<1>2. \A i \in 1..Len(book) : book[i] \in Records
  BY <1>1
<1> QED BY <1>1, <1>2 DEF Guarded, Chained, ToSet

\* A member of a finite set of numbers that none is above is its Max.
LEMMA MaxOf ==
  ASSUME NEW S, IsFiniteSet(S), S \subseteq Nat, S # {}
  PROVE  Max(S) \in S /\ \A x \in S : Max(S) >= x
<1>1. PICK m \in S : \A x \in S : m >= x
  BY FiniteMax
<1> QED BY <1>1 DEF Max

\* The day of a range is that of an entry that opened it.
LEMMA OpenedOn ==
  ASSUME Guarded, NEW n \in 0..Len(book), DayAt(n) # NoDay
  PROVE  /\ \E i \in 1..n : book[i].ev = "DAY_OPENED" /\ book[i].day = DayAt(n)
         /\ /\ Opening(DayAt(n)) \in 1..Len(book)
            /\ book[Opening(DayAt(n))].ev = "DAY_OPENED" /\ book[Opening(DayAt(n))].day = DayAt(n)
<1> DEFINE opened == {i \in 1..n : book[i].ev = "DAY_OPENED"}
<1>1. Len(book) \in Nat /\ DOMAIN book = 1..Len(book)
  BY BookSays
<1>2. opened # {}
  BY DEF DayAt
<1>3. DayAt(n) = book[Max(opened)].day
  BY <1>2 DEF DayAt
<1>4. IsFiniteSet(opened) /\ opened \subseteq Nat
  <2>1. n \in Nat
    BY <1>1
  <2>2. IsFiniteSet(1..n) /\ opened \subseteq 1..n
    BY <2>1, FS_Interval
  <2> QED BY <2>1, <2>2, FS_Subset
<1>5. Max(opened) \in opened
  BY <1>2, <1>4, MaxOf
<1>6. PICK i \in 1..n : book[i].ev = "DAY_OPENED" /\ book[i].day = DayAt(n)
  BY <1>3, <1>5
<1>7. i \in DOMAIN book
  BY <1>1, <1>6
<1>8. LET o == Opening(DayAt(n)) IN o \in DOMAIN book /\ book[o].ev = "DAY_OPENED" /\ book[o].day = DayAt(n)
  BY <1>6, <1>7 DEF Opening
<1> QED BY <1>1, <1>6, <1>8

\* A start that follows a crash follows no clean stop, for who reads the whole book.
LEMMA CrashIsNoStop ==
  ASSUME Guarded, NEW i \in crashed
  PROVE  /\ i \in 1..Len(book) /\ book[i].ev = "GUARDIAN_STARTED"
         /\ PrecededByCleanStop(book, book[i]) = "no"
<1>0. /\ book \in Seq(Records) /\ Len(book) \in Nat /\ DOMAIN book = 1..Len(book)
      /\ ToSet(book) = {book[k] : k \in 1..Len(book)}
      /\ \A k \in 1..Len(book) : book[k].seq = k
  BY BookSays
<1>1. /\ i \in 1..Len(book) /\ i > 1 /\ book[i].ev = "GUARDIAN_STARTED"
      /\ book[i - 1].ev # "GUARDIAN_STOPPED"
  BY <1>0 DEF Guarded, StartsTold
<1> DEFINE earlier == {e \in ToSet(book) : e.seq < book[i].seq}
           last == CHOOSE e \in earlier : \A d \in earlier : d.seq <= e.seq
<1>2. i - 1 \in 1..Len(book) /\ book[i - 1] \in earlier
  BY <1>0, <1>1
<1>3. \A d \in earlier : d.seq <= book[i - 1].seq
  BY <1>0, <1>1, <1>2
<1>4. last \in earlier /\ book[i - 1].seq <= last.seq
  BY <1>2, <1>3
<1>5. last = book[i - 1]
  <2>1. PICK k \in 1..Len(book) : last = book[k] /\ k < i
    BY <1>0, <1>1, <1>4
  <2>2. i - 1 <= k
    BY <1>0, <1>2, <1>4, <2>1
  <2>3. k = i - 1
    BY <1>1, <2>1, <2>2
  <2> QED BY <2>1, <2>3
<1> QED BY <1>1, <1>2, <1>5 DEF PrecededByCleanStop

\* The finding that a range is truncated.
LEMMA TruncatedFound ==
  ASSUME NEW cert, NEW file,
         LET marks(ev, S) == \E e \in ToSet(file) : e.seq \in S /\ e.ev = ev /\ cert.day \in {NoDay, e.day}
         IN \/ marks("DAY_CLOSED", (cert.to + 1)..(cert.to + Len(file)))
            \/ cert.day # NoDay /\ marks("DAY_OPENED", 0..(cert.from - 1)),
         Hidden(file, cert.from, cert.to) # {}
  PROVE  "RANGE_TRUNCATED" \in Channel(Compared(cert, file), "contradiction")
<1>1. <<"contradiction", "RANGE_TRUNCATED">> \in RangeCoversItsDay(cert.day, file, cert.from, cert.to)
  BY DEF RangeCoversItsDay
<1>2. <<"contradiction", "RANGE_TRUNCATED">> \in Compared(cert, file)
  BY <1>1 DEF Compared
<1> QED BY <1>2 DEF Channel

\* A certificate that leaves something material of its day out is contradicted, for every ledger a
\* guardian may write and every range of it.
THEOREM WhatIsHiddenIsFound == Spec => []HiddenIsFound
<1>1. Guarded /\ Judgement => HiddenIsFound
  <2> SUFFICES ASSUME Guarded, Judgement, IsShown, shown.flaw = "none", shown.named,
                      DayAt(shown.to) # NoDay,
                      NEW i \in DOMAIN book, i > Opening(DayAt(shown.to)),
                      \A c \in Closings(DayAt(shown.to)) : i < c, ~InRange(i),
                      \/ book[i].ev \in Material /\ (i < shown.from \/ Closings(DayAt(shown.to)) # {})
                      \/ i \in crashed /\ i < shown.from
               PROVE  exit = 1
    BY DEF HiddenIsFound
  <2>0. PICK p : p = shown
    OBVIOUS
  <2>1. Asked(p) /\ exit = Answer(p)
    BY <2>0 DEF Judgement
  <2>2. p.from \in 1..Len(book) /\ p.to \in p.from..Len(book)
    BY <2>1, BookSays DEF Asked
  <2>3. PICK cert : cert = Certificate(p)
    OBVIOUS
  <2>4. /\ cert.dialect = "guardian-core-v1" /\ cert.from = p.from /\ cert.to = p.to
        /\ cert.day = DayAt(p.to) /\ Copy(p) = book
    BY <2>0, <2>3, CertificateFields DEF Copy
  <2>5. StopCode(cert, book) = "none"
    BY <2>2, <2>4, BookSays DEF StopCode, DialectMismatch, Dialects
  <2>6. PICK d : d = DayAt(p.to)
    OBVIOUS
  <2>7. PICK o \in 1..Len(book) : book[o].ev = "DAY_OPENED" /\ book[o].day = d /\ i > o
    <3>1. PICK n \in 0..Len(book) : n = p.to
      BY <2>2, BookSays
    <3>2. d = DayAt(n) /\ d # NoDay /\ i > Opening(d)
      BY <2>0, <2>6, <3>1
    <3>3. Opening(d) \in 1..Len(book) /\ book[Opening(d)].ev = "DAY_OPENED" /\ book[Opening(d)].day = d
      BY <3>2, OpenedOn
    <3> QED BY <3>2, <3>3
  <2>8. i \in 1..Len(book) /\ (i < p.from \/ i > p.to)
    BY <2>0, <2>2, BookSays DEF InRange
  <2>9. book[i] \in Hidden(book, p.from, p.to)
    <3>1. book[i] \in ToSet(book) /\ book[i].seq = i
      BY <2>8, BookSays
    <3>2. CASE book[i].ev \in Material
      BY <2>2, <2>8, <3>1, <3>2 DEF Hidden
    <3>3. CASE i \in crashed /\ i < p.from
      BY <3>1, <3>3, CrashIsNoStop DEF Hidden
    <3> QED BY <2>0, <3>2, <3>3
  <2>10. \/ \E e \in ToSet(book) : e.seq \in (p.to + 1)..(p.to + Len(book)) /\ e.ev = "DAY_CLOSED" /\ e.day = d
         \/ \E e \in ToSet(book) : e.seq \in 0..(p.from - 1) /\ e.ev = "DAY_OPENED" /\ e.day = d
    <3>1. CASE i < p.from
      <4>1. book[o] \in ToSet(book) /\ book[o].seq = o /\ o \in 0..(p.from - 1)
        BY <2>2, <2>7, <2>8, <3>1, BookSays
      <4> QED BY <2>7, <4>1
    <3>2. CASE ~(i < p.from)
      <4>1. PICK c \in Closings(d) : i < c
        BY <2>0, <2>6, <3>2
      <4>2. c \in 1..Len(book) /\ book[c].ev = "DAY_CLOSED" /\ book[c].day = d /\ book[c].seq = c
        BY <4>1, BookSays DEF Closings
      <4>3. c \in (p.to + 1)..(p.to + Len(book)) /\ book[c] \in ToSet(book)
        BY <2>2, <2>8, <3>2, <4>1, <4>2, BookSays
      <4> QED BY <4>2, <4>3
    <3> QED BY <3>1, <3>2
  <2>11. "RANGE_TRUNCATED" \in Channel(Compared(cert, book), "contradiction")
    <3>1. cert.day = d /\ cert.day # NoDay
      BY <2>0, <2>4, <2>6
    <3>2. Hidden(book, cert.from, cert.to) # {}
      BY <2>4, <2>9
    <3> QED BY <2>4, <2>10, <3>1, <3>2, TruncatedFound
  <2>12. Told(p).contradictions # {}
    <3>1. PICK anchors, file : anchors = Anchors(p) /\ file = book
      OBVIOUS
    <3>2. VerifyCertificate(cert, file, anchors, TRUE).contradictions # {}
      BY <2>5, <2>11, <3>1, Contradicts
    <3> QED BY <2>3, <2>4, <3>1, <3>2 DEF Told
  <2>13. p.flaw \notin Unreadable
    BY <2>0 DEF Unreadable
  <2> QED BY <2>0, <2>1, <2>12, <2>13, Answers
<1> QED BY <1>1, LedgerIsTold, PTL

-----------------------------------------------------------------------------
(* Ranks *)

\* The members of S below x, by the key f.
Below(S, f, x) == {y \in S : f[y] < f[x]}

Keyed(S, f) == IsFiniteSet(S) /\ f \in [S -> Nat] /\ \A x, y \in S : f[x] = f[y] => x = y
Ranking(S, f, r) ==
  /\ r \in [1..Cardinality(S) -> S]
  /\ \A k \in 1..Cardinality(S) : Cardinality(Below(S, f, r[k])) = k - 1
Rising(n, f, r) == \A k, l \in 1..n : k < l => f[r[k]] < f[r[l]]
Covers(n, S, r) == \A x \in S : \E k \in 1..n : r[k] = x
\* A finite set whose members have different keys is counted by the members below.
LEMMA Ranks ==
  ASSUME NEW S, NEW f, Keyed(S, f)
  PROVE  /\ Cardinality(S) \in Nat
         /\ \A x, y \in S : f[x] < f[y] => Cardinality(Below(S, f, x)) < Cardinality(Below(S, f, y))
         /\ \A x \in S : Cardinality(Below(S, f, x)) \in 0..(Cardinality(S) - 1)
         /\ \A k \in 1..Cardinality(S) : \E x \in S : Cardinality(Below(S, f, x)) = k - 1
<1> USE DEF Keyed
<1> DEFINE n == Cardinality(S)
           c == [x \in S |-> Cardinality(Below(S, f, x))]
<1>1. n \in Nat
  BY FS_CardinalityType
<1>2. \A x \in S : IsFiniteSet(Below(S, f, x)) /\ Cardinality(Below(S, f, x)) \in Nat
  BY FS_Subset, FS_CardinalityType DEF Below
<1>3. ASSUME NEW x \in S, NEW y \in S, f[x] < f[y]
      PROVE  Cardinality(Below(S, f, x)) < Cardinality(Below(S, f, y))
  <2>1. f[x] \in Nat /\ f[y] \in Nat /\ \A z \in S : f[z] \in Nat
    OBVIOUS
  <2>2. Below(S, f, x) \subseteq Below(S, f, y)
    BY <1>3, <2>1 DEF Below
  <2>3. x \in Below(S, f, y) /\ x \notin Below(S, f, x)
    BY <1>3, <2>1 DEF Below
  <2>4. Cardinality(Below(S, f, x)) <= Cardinality(Below(S, f, y))
        /\ Cardinality(Below(S, f, y)) # Cardinality(Below(S, f, x))
    BY <1>2, <2>2, <2>3, FS_Subset
  <2> QED BY <1>2, <2>4
<1>4. ASSUME NEW x \in S PROVE Cardinality(Below(S, f, x)) \in 0..(n - 1)
  <2>1. Below(S, f, x) \subseteq S \ {x} /\ f[x] \in Nat
    BY DEF Below
  <2>2. IsFiniteSet(S \ {x}) /\ Cardinality(S \ {x}) = n - 1
    BY FS_RemoveElement
  <2>3. Cardinality(Below(S, f, x)) <= n - 1
    BY <2>1, <2>2, FS_Subset
  <2> QED BY <1>1, <1>2, <2>3
<1>5. c \in Injection(S, 0..(n - 1))
  <2>1. c \in [S -> 0..(n - 1)]
    BY <1>4
  <2>2. ASSUME NEW x \in S, NEW y \in S, c[x] = c[y] PROVE x = y
    <3>1. f[x] \in Nat /\ f[y] \in Nat
      OBVIOUS
    <3>2. ~(f[x] < f[y])
      BY <1>2, <1>3, <2>2
    <3>3. ~(f[y] < f[x])
      BY <1>2, <1>3, <2>2
    <3> QED BY <3>1, <3>2, <3>3
  <2> HIDE DEF c
  <2> QED BY <2>1, <2>2 DEF Injection, IsInjective
<1>6. IsFiniteSet(0..(n - 1)) /\ Cardinality(0..(n - 1)) = n
  <2>1. 0 \in Int /\ n - 1 \in Int
    BY <1>1
  <2> QED BY <1>1, <2>1, FS_Interval
<1>7. c \in Surjection(S, 0..(n - 1))
  <2> HIDE DEF c
  <2> QED BY <1>5, <1>6, FS_Injection
<1>8. ASSUME NEW k \in 1..n PROVE \E x \in S : Cardinality(Below(S, f, x)) = k - 1
  <2>1. k - 1 \in 0..(n - 1)
    BY <1>1
  <2>2. PICK x \in S : c[x] = k - 1
    <3> HIDE DEF c
    <3> QED BY <1>7, <2>1 DEF Surjection
  <2> QED BY <2>2
<1> QED BY <1>1, <1>3, <1>4, <1>8

\* In the order of their keys they are all there, one after another.
LEMMA Ordered ==
  ASSUME NEW S, NEW f, Keyed(S, f), NEW r, Ranking(S, f, r)
  PROVE  Rising(Cardinality(S), f, r) /\ Covers(Cardinality(S), S, r)
<1> USE DEF Keyed, Ranking
<1> DEFINE n == Cardinality(S)
<1>1. n \in Nat
  BY FS_CardinalityType
<1>2. ASSUME NEW k \in 1..n PROVE r[k] \in S /\ Cardinality(Below(S, f, r[k])) = k - 1
  OBVIOUS
<1>4. ASSUME NEW k \in 1..n, NEW l \in 1..n, k < l PROVE f[r[k]] < f[r[l]]
  <2>1. PICK x, y \in S : x = r[k] /\ y = r[l]
    BY <1>2
  <2>2. Cardinality(Below(S, f, x)) = k - 1 /\ Cardinality(Below(S, f, y)) = l - 1
    BY <1>2, <2>1
  <2>3. f[x] \in Nat /\ f[y] \in Nat
    OBVIOUS
  <2>4. CASE f[x] = f[y]
    BY <1>1, <1>4, <2>2, <2>4
  <2>5. CASE f[y] < f[x]
    <3>1. Cardinality(Below(S, f, y)) < Cardinality(Below(S, f, x))
      BY <2>5, Ranks
    <3> QED BY <1>1, <1>4, <2>2, <3>1
  <2> QED BY <2>1, <2>3, <2>4, <2>5
<1>5. ASSUME NEW x \in S PROVE \E k \in 1..n : r[k] = x
  <2>1. PICK k : k = Cardinality(Below(S, f, x)) + 1
    OBVIOUS
  <2>2. Cardinality(Below(S, f, x)) \in 0..(n - 1)
    BY Ranks
  <2>3. k \in 1..n /\ Cardinality(Below(S, f, x)) = k - 1
    BY <1>1, <2>1, <2>2
  <2>4. PICK y \in S : y = r[k] /\ Cardinality(Below(S, f, y)) = k - 1
    BY <1>2, <2>3
  <2>5. f[x] \in Nat /\ f[y] \in Nat
    OBVIOUS
  <2>6. CASE f[x] < f[y]
    <3>1. Cardinality(Below(S, f, x)) < Cardinality(Below(S, f, y))
      BY <2>6, Ranks
    <3> QED BY <2>3, <2>4, <3>1
  <2>7. CASE f[y] < f[x]
    <3>1. Cardinality(Below(S, f, y)) < Cardinality(Below(S, f, x))
      BY <2>7, Ranks
    <3> QED BY <2>3, <2>4, <3>1
  <2> QED BY <2>3, <2>4, <2>5, <2>6, <2>7
<1> QED BY <1>4, <1>5 DEF Rising, Covers

Enumerates(S, r) ==
  /\ Cardinality(S) \in Nat /\ r \in [1..Cardinality(S) -> S] /\ Len(r) = Cardinality(S)
  /\ \A k, l \in 1..Cardinality(S) : k < l => r[k] < r[l]
  /\ \A x \in S : \E k \in 1..Cardinality(S) : r[k] = x
\* Numbers that are ranked by their size.
LEMMA RankedNumbers ==
  ASSUME NEW S, IsFiniteSet(S), S \subseteq Nat, NEW r,
         r = [k \in 1..Cardinality(S) |-> CHOOSE x \in S : Cardinality({y \in S : y < x}) = k - 1]
  PROVE  Enumerates(S, r)
<1> DEFINE n == Cardinality(S)
<1>1. n \in Nat
  BY FS_CardinalityType
<1>2. PICK f \in [S -> Nat] : \A x \in S : f[x] = x
  <2>1. [x \in S |-> x] \in [S -> Nat] /\ \A x \in S : [y \in S |-> y][x] = x
    OBVIOUS
  <2> QED BY <2>1
<1>2a. Keyed(S, f)
  BY <1>2 DEF Keyed
<1>3. \A x \in S : Below(S, f, x) = {y \in S : y < x}
  BY <1>2 DEF Below
<1>4. ASSUME NEW k \in 1..n PROVE r[k] \in S /\ Cardinality(Below(S, f, r[k])) = k - 1
  <2>1. PICK x \in S : Cardinality(Below(S, f, x)) = k - 1
    BY <1>2a, Ranks, Zenon
  <2>2. r[k] = CHOOSE y \in S : Cardinality({z \in S : z < y}) = k - 1
    OBVIOUS
  <2>3. Cardinality({z \in S : z < x}) = k - 1
    BY <1>3, <2>1
  <2>4. r[k] \in S /\ Cardinality({z \in S : z < r[k]}) = k - 1
    BY <2>2, <2>3
  <2> QED BY <1>3, <2>4
<1>5. r \in [1..n -> S]
  BY <1>4
<1>6. Len(r) = n
  <2> HIDE DEF n
  <2> QED BY <1>1, <1>5, IsSeq
<1>7. Rising(n, f, r) /\ Covers(n, S, r)
  <2>1. Ranking(S, f, r)
    BY <1>4, <1>5 DEF Ranking
  <2> QED BY <1>2a, <2>1, Ordered, Zenon
<1>8. ASSUME NEW k \in 1..n, NEW l \in 1..n, k < l PROVE r[k] < r[l]
  <2>1. f[r[k]] < f[r[l]]
    BY <1>7, <1>8 DEF Rising
  <2> QED BY <1>2, <1>4, <2>1
<1> QED BY <1>1, <1>5, <1>6, <1>7, <1>8 DEF Covers, Enumerates

\* Certificates of different days, and the same in the order of their days.
OneADay(n, certs) ==
  /\ DOMAIN certs = 1..n /\ \A i \in 1..n : certs[i].day \in Nat
  /\ \A i, j \in 1..n : certs[i].day = certs[j].day => i = j
DayByDay(n, certs, c) ==
  /\ DOMAIN c = 1..n
  /\ \A k \in 1..n : \E i \in 1..n : c[k] = certs[i]
  /\ \A i \in 1..n : \E k \in 1..n : c[k] = certs[i]
  /\ \A k, l \in 1..n : k < l => c[k].day < c[l].day
\* Certificates of different days are given in the order of their days.
LEMMA CertificatesInDays ==
  ASSUME NEW n \in Nat, NEW certs, OneADay(n, certs), NEW c, c = InDays(certs)
  PROVE  DayByDay(n, certs, c)
<1> USE DEF OneADay
<1> DEFINE S == 1..n
           before(i, j) == certs[i].day < certs[j].day \/ (certs[i].day = certs[j].day /\ i < j)
           rank == [k \in 1..n |-> CHOOSE x \in S : Cardinality({y \in S : before(y, x)}) = k - 1]
<1>1. IsFiniteSet(S) /\ Cardinality(S) = n
  BY FS_Interval
<1>2. PICK f \in [S -> Nat] : \A i \in S : f[i] = certs[i].day
  <2>1. [i \in S |-> certs[i].day] \in [S -> Nat] /\ \A i \in S : [j \in S |-> certs[j].day][i] = certs[i].day
    OBVIOUS
  <2> QED BY <2>1
<1>3. \A x \in S : Below(S, f, x) = {y \in S : before(y, x)}
  BY <1>2 DEF Below
<1>4. Keyed(S, f)
  BY <1>1, <1>2 DEF Keyed
<1>5. PICK r : r = rank
  OBVIOUS
<1>5a. c = [k \in 1..n |-> certs[r[k]]]
  BY <1>1, <1>5 DEF InDays, Ranked
<1> HIDE DEF before
<1>6. ASSUME NEW k \in 1..n PROVE r[k] \in S /\ Cardinality(Below(S, f, r[k])) = k - 1
  <2>1. PICK x \in S : Cardinality(Below(S, f, x)) = k - 1
    <3>1. k \in 1..Cardinality(S)
      BY <1>1
    <3> QED BY <1>4, <3>1, Ranks, Zenon
  <2>2. Cardinality({z \in S : before(z, x)}) = k - 1
    BY <1>3, <2>1
  <2>3. r[k] \in S /\ Cardinality({z \in S : before(z, r[k])}) = k - 1
    BY <1>5, <2>2
  <2> QED BY <1>3, <2>3
<1>7. r \in [1..n -> S]
  BY <1>5, <1>6
<1>8. Rising(n, f, r) /\ Covers(n, S, r)
  <2>1. Ranking(S, f, r)
    BY <1>1, <1>6, <1>7 DEF Ranking
  <2>2. Rising(Cardinality(S), f, r) /\ Covers(Cardinality(S), S, r)
    BY <1>4, <2>1, Ordered, Zenon
  <2> QED BY <1>1, <2>2
<1>10. \A k \in 1..n : r[k] \in 1..n /\ c[k] = certs[r[k]]
  BY <1>5a, <1>7
<1>11. DOMAIN c = 1..n
  BY <1>5a
<1>12. ASSUME NEW i \in 1..n PROVE \E k \in 1..n : c[k] = certs[i]
  <2>1. PICK k \in 1..n : r[k] = i
    BY <1>8 DEF Covers
  <2> QED BY <1>10, <2>1
<1>13. ASSUME NEW k \in 1..n, NEW l \in 1..n, k < l PROVE c[k].day < c[l].day
  <2>1. f[r[k]] < f[r[l]]
    BY <1>8, <1>13 DEF Rising
  <2> QED BY <1>2, <1>10, <2>1
<1> QED BY <1>10, <1>11, <1>12, <1>13 DEF DayByDay

-----------------------------------------------------------------------------
(* The series *)

\* The last certified or lost day before d.
LastDay(p, d) == Max({1} \cup {e \in p.later : e < d})

\* Nothing comes between the last day and d.
LEMMA LastDayIs ==
  ASSUME NEW p, Asked(p), NEW d \in p.later
  PROVE  /\ LastDay(p, d) \in {1} \cup p.later /\ LastDay(p, d) < d /\ LastDay(p, d) \in Nat /\ d \in Nat
         /\ \A e \in p.later : e < d => e <= LastDay(p, d)
<1> DEFINE S == {1} \cup {e \in p.later : e < d}
<1>1. p.later \subseteq Nat \ {0, 1} /\ IsFiniteSet(p.later)
  BY DEF Asked
<1>2. IsFiniteSet({1} \cup p.later)
  BY <1>1, FS_Singleton, FS_Union
<1>3. IsFiniteSet(S) /\ S \subseteq Nat /\ S # {}
  BY <1>1, <1>2, FS_Subset
<1>4. Max(S) \in S /\ \A x \in S : Max(S) >= x
  <2> HIDE DEF S
  <2> QED BY <1>3, MaxOf
<1>5. LastDay(p, d) = Max(S)
  BY DEF LastDay
<1> QED BY <1>1, <1>4, <1>5

\* The certificate of a day of the series.
LEMMA DayCertificateIs ==
  ASSUME NEW p, NEW d, NEW x, x = DayCertificate(p, d)
  PROVE  /\ x.day = d /\ x.id = d /\ x.previous = LastDay(p, d) /\ x.unexplained = {}
         /\ (LastDay(p, d) + 1)..(d - 1) \subseteq x.gaps
BY DEF DayCertificate, LastDay

\* A certificate of a series: the one that is shown or that of a later day that was kept.
InSeries(p, cert, x) ==
  \/ x = cert
  \/ \E d \in p.later \ {p.lost} : x = DayCertificate(p, d)

\* The series holds the certificate that is shown and those of the later days that were kept, one
\* of each.
Held(p, cert, n, certs) ==
  /\ certs = <<cert>> \o Rest(p) /\ DOMAIN certs = 1..n /\ n > 0
  /\ cert.day = 1 /\ cert.id = 1 /\ cert.previous = 0 /\ cert.unexplained = {}
  /\ \A i \in 1..n : InSeries(p, cert, certs[i]) /\ certs[i].day \in Nat
  /\ \A d \in p.later \ {p.lost} : \E i \in 1..n : certs[i] = DayCertificate(p, d)
  /\ \A i, j \in 1..n : certs[i].day = certs[j].day => i = j
\* The series that is judged: the certificates of the days that are held, in their order.
LEMMA SeriesIs ==
  ASSUME NEW p, Asked(p), p.later # {}, NEW cert, cert = Certificate(p)
  PROVE  \E n \in Nat : \E certs : Held(p, cert, n, certs)
<1> DEFINE K == p.later \ {p.lost}
           m == Cardinality(K)
           r == [k \in 1..m |-> CHOOSE x \in K : Cardinality({y \in K : y < x}) = k - 1]
           at(i) == IF p.order = "reversed" THEN m + 1 - i ELSE i
<1>1. K \subseteq Nat /\ IsFiniteSet(K) /\ 0 \notin K /\ 1 \notin K
  BY FS_Subset DEF Asked
<1>2. /\ m \in Nat /\ r \in [1..m -> K] /\ Len(r) = m
      /\ \A k, l \in 1..m : k < l => r[k] < r[l]
      /\ \A x \in K : \E k \in 1..m : r[k] = x
  <2>1. Enumerates(K, r)
    <3> HIDE DEF K
    <3> QED BY <1>1, RankedNumbers
  <2> HIDE DEF K, r
  <2> QED BY <2>1 DEF Enumerates
<1>3. Rest(p) = [i \in 1..m |-> DayCertificate(p, r[at(i)])]
  <2>1. Rest(p) = [i \in 1..Len(r) |->
                     DayCertificate(p, r[IF p.order = "reversed" THEN Len(r) + 1 - i ELSE i])]
    BY DEF Rest, Ranked
  <2> HIDE DEF r, m
  <2> QED BY <1>2, <2>1
<1>4. PICK R, q : R = Rest(p) /\ q = r
  <2> HIDE DEF r
  <2> QED OBVIOUS
<1>5. PICK M \in Nat : M = m
  BY <1>2
<1> DEFINE place(i) == IF p.order = "reversed" THEN M + 1 - i ELSE i
<1>6. /\ q \in [1..M -> K] /\ \A k, l \in 1..M : k < l => q[k] < q[l]
      /\ \A x \in K : \E k \in 1..M : q[k] = x
      /\ R = [i \in 1..M |-> DayCertificate(p, q[place(i)])]
  <2> HIDE DEF r, m, K
  <2> QED BY <1>2, <1>3, <1>4, <1>5
<1>7. \A i \in 1..M : place(i) \in 1..M /\ place(place(i)) = i
  OBVIOUS
<1> HIDE DEF m, r, at
<1>8. \A k, l \in 1..M : q[k] = q[l] => k = l
  <2>1. SUFFICES ASSUME NEW k \in 1..M, NEW l \in 1..M, q[k] = q[l], k # l PROVE FALSE
    OBVIOUS
  <2>2. q[k] \in Nat
    BY <1>1, <1>6
  <2>3. k < l \/ l < k
    BY <2>1
  <2>4. q[k] < q[l] \/ q[l] < q[k]
    BY <1>6, <2>3
  <2> QED BY <2>1, <2>2, <2>4
<1> HIDE DEF place
<1>9. PICK certs : certs = <<cert>> \o R
  OBVIOUS
<1>10. /\ DOMAIN certs = 1..(M + 1) /\ certs[1] = cert
       /\ \A i \in 1..M : certs[i + 1] = R[i]
  <2>1. R \in [1..M -> {R[i] : i \in 1..M}]
    BY <1>6
  <2>2. R \in Seq({R[i] : i \in 1..M} \cup {cert}) /\ Len(R) = M /\ <<cert>> \in Seq({R[i] : i \in 1..M} \cup {cert})
    BY <2>1, IsSeq
  <2> QED BY <1>9, <2>2
<1>11. \A i \in 1..M : q[place(i)] \in K /\ certs[i + 1] = DayCertificate(p, q[place(i)])
  BY <1>6, <1>7, <1>10
<1>12. \A i \in 1..M : certs[i + 1].day = q[place(i)]
  BY <1>11, DayCertificateIs
<1>13. cert.day = 1 /\ cert.id = 1 /\ cert.previous = 0 /\ cert.unexplained = {}
  BY CertificateFields DEF Asked
<1>14. \A i \in 1..(M + 1) : i = 1 \/ \E j \in 1..M : i = j + 1
  <2> TAKE i \in 1..(M + 1)
  <2>1. i = 1 \/ (i - 1 \in 1..M /\ i = (i - 1) + 1)
    OBVIOUS
  <2> QED BY <2>1
<1>15. ASSUME NEW i \in 1..(M + 1) PROVE InSeries(p, cert, certs[i]) /\ certs[i].day \in Nat
  <2>1. CASE i = 1
    BY <1>10, <1>13, <2>1 DEF InSeries
  <2>2. ASSUME NEW j \in 1..M, i = j + 1 PROVE InSeries(p, cert, certs[i]) /\ certs[i].day \in Nat
    BY <1>1, <1>11, <1>12, <2>2 DEF InSeries
  <2> QED BY <1>14, <2>1, <2>2
<1>16. ASSUME NEW d \in K PROVE \E i \in 1..(M + 1) : certs[i] = DayCertificate(p, d)
  <2>1. PICK k \in 1..M : q[k] = d
    BY <1>6
  <2>2. place(k) \in 1..M /\ place(place(k)) = k
    BY <1>7
  <2>3. certs[place(k) + 1] = DayCertificate(p, d) /\ place(k) + 1 \in 1..(M + 1)
    BY <1>11, <2>1, <2>2
  <2> QED BY <2>3
<1>17. ASSUME NEW i \in 1..(M + 1), NEW j \in 1..(M + 1), certs[i].day = certs[j].day PROVE i = j
  <2>1. CASE i = 1 /\ j = 1
    BY <2>1
  <2>2. ASSUME NEW k \in 1..M, NEW l \in 1..M, i = k + 1, j = l + 1 PROVE i = j
    <3>1. place(k) = place(l)
      BY <1>7, <1>8, <1>12, <1>17, <2>2
    <3>2. k = l
      BY <1>7, <3>1
    <3> QED BY <2>2, <3>2
  <2>2a. \A k \in 1..M : certs[k + 1].day # certs[1].day
    <3> TAKE k \in 1..M
    <3>1. certs[k + 1].day \in K
      BY <1>11, <1>12
    <3>2. certs[1].day = 1
      BY <1>10, <1>13
    <3> QED BY <1>1, <3>1, <3>2
  <2>3. ASSUME NEW k \in 1..M, i = 1, j = k + 1 PROVE FALSE
    BY <1>17, <2>2a, <2>3
  <2>4. ASSUME NEW k \in 1..M, j = 1, i = k + 1 PROVE FALSE
    BY <1>17, <2>2a, <2>4
  <2> QED BY <1>14, <2>1, <2>2, <2>3, <2>4
<1>18. PICK n \in Nat : n = M + 1 /\ n > 0
  OBVIOUS
<1>19. certs = <<cert>> \o Rest(p) /\ DOMAIN certs = 1..n
  BY <1>4, <1>9, <1>10, <1>18
<1> HIDE DEF K
<1>20. /\ \A i \in 1..n : InSeries(p, cert, certs[i]) /\ certs[i].day \in Nat
       /\ \A i, j \in 1..n : certs[i].day = certs[j].day => i = j
  BY <1>15, <1>17, <1>18
<1>21. \A d \in p.later \ {p.lost} : \E i \in 1..n : certs[i] = DayCertificate(p, d)
  BY <1>16, <1>18 DEF K
<1>22. Held(p, cert, n, certs)
  BY <1>13, <1>18, <1>19, <1>20, <1>21 DEF Held
<1> QED BY <1>22

-----------------------------------------------------------------------------
(* The links of a series *)

\* A finite set of numbers that is not empty has a smallest member.
LEMMA FiniteMin ==
  ASSUME NEW U, U \subseteq Nat, U # {}
  PROVE  \E m \in U : \A x \in U : m <= x
<1>1. PICK m \in U : \A y \in U : ~ (<<y, m>> \in OpToRel(<, Nat))
  BY WFMin, NatLessThanWellFounded, Zenon
<1>2. ASSUME NEW x \in U PROVE m <= x
  <2>1. x \in Nat /\ m \in Nat
    OBVIOUS
  <2>2. CASE x < m
    <3>1. <<x, m>> \in OpToRel(<, Nat)
      BY <2>1, <2>2 DEF OpToRel
    <3> QED BY <1>1, <3>1
  <2> QED BY <2>1, <2>2
<1> QED BY <1>2

\* What holds of each certificate of a series.
Linked(p, x) ==
  /\ x.day \in Nat /\ x.day >= 1 /\ x.id = x.day /\ x.unexplained = {}
  /\ x.day = 1 => x.previous = 0
  /\ x.day # 1 => /\ x.day \in p.later \ {p.lost}
                  /\ x.previous = LastDay(p, x.day)
                  /\ (LastDay(p, x.day) + 1)..(x.day - 1) \subseteq x.gaps

InLine(p, n, c) ==
         /\ DOMAIN c = 1..n
         /\ \A i \in 1..n : Linked(p, c[i])
         /\ \A i, j \in 1..n : i < j => c[i].day < c[j].day
         /\ \A d \in {1} \cup (p.later \ {p.lost}) : \E i \in 1..n : c[i].day = d

\* A certificate of a series in the order of the days, and the one before it.
LEMMA Neighbours ==
  ASSUME NEW p, Asked(p), p.later # {}, NEW cert, cert = Certificate(p),
         NEW n \in Nat, NEW certs, Held(p, cert, n, certs), NEW c, c = InDays(certs)
  PROVE  InLine(p, n, c)
<1>1. /\ DOMAIN certs = 1..n
      /\ cert.day = 1 /\ cert.id = 1 /\ cert.previous = 0 /\ cert.unexplained = {}
      /\ \A i \in 1..n : InSeries(p, cert, certs[i]) /\ certs[i].day \in Nat
      /\ \A d \in p.later \ {p.lost} : \E i \in 1..n : certs[i] = DayCertificate(p, d)
      /\ \A i, j \in 1..n : certs[i].day = certs[j].day => i = j
  BY DEF Held
<1>2. /\ DOMAIN c = 1..n
      /\ \A k \in 1..n : \E i \in 1..n : c[k] = certs[i]
      /\ \A i \in 1..n : \E k \in 1..n : c[k] = certs[i]
      /\ \A k, l \in 1..n : k < l => c[k].day < c[l].day
  <2>1. OneADay(n, certs)
    BY <1>1 DEF OneADay
  <2>2. DayByDay(n, certs, c)
    BY <2>1, CertificatesInDays, Zenon
  <2> QED BY <2>2 DEF DayByDay
<1>3. ASSUME NEW i \in 1..n
      PROVE  Linked(p, c[i])
  <2>1. InSeries(p, cert, c[i])
    BY <1>1, <1>2
  <2>2. CASE c[i] = cert
    BY <1>1, <2>2 DEF Linked
  <2>3. ASSUME NEW d \in p.later \ {p.lost}, c[i] = DayCertificate(p, d)
        PROVE  Linked(p, c[i])
    <3>1. d \in Nat /\ d > 1
      BY DEF Asked
    <3>2. PICK x : x = c[i]
      OBVIOUS
    <3>3. /\ x.day = d /\ x.id = d /\ x.previous = LastDay(p, d) /\ x.unexplained = {}
          /\ (LastDay(p, d) + 1)..(d - 1) \subseteq x.gaps
      BY <2>3, <3>2, DayCertificateIs
    <3>4. Linked(p, x)
      BY <3>1, <3>3 DEF Linked
    <3> QED BY <3>2, <3>4
  <2> QED BY <2>1, <2>2, <2>3 DEF InSeries
<1>4. \E i \in 1..n : c[i] = cert
  <2>1. PICK i \in 1..n : certs[i].day = cert.day /\ certs[i] = cert
    <3>1. certs = <<cert>> \o Rest(p) /\ n > 0
      BY DEF Held
    <3>2. PICK m, S : m \in Nat /\ Rest(p) \in [1..m -> S]
      BY RestIs DEF Asked
    <3>3. PICK R : R = Rest(p)
      OBVIOUS
    <3>4. R \in Seq(S \cup {cert}) /\ <<cert>> \in Seq(S \cup {cert})
      BY <3>2, <3>3, IsSeq
    <3>5. (<<cert>> \o R)[1] = cert
      BY <3>4
    <3> QED BY <3>1, <3>3, <3>5
  <2> QED BY <1>2, <2>1
<1>5. ASSUME NEW d \in {1} \cup (p.later \ {p.lost}) PROVE \E i \in 1..n : c[i].day = d
  <2>1. CASE d = 1
    BY <1>1, <1>4, <2>1
  <2>2. CASE d \in p.later \ {p.lost}
    <3>1. PICK i \in 1..n : certs[i] = DayCertificate(p, d)
      BY <1>1, <2>2
    <3>2a. PICK k \in 1..n : c[k] = certs[i]
      BY <1>2, <3>1
    <3>2. PICK x : c[k] = x /\ x = DayCertificate(p, d)
      BY <3>1, <3>2a
    <3> QED BY <3>2, DayCertificateIs
  <2> QED BY <2>1, <2>2
<1> QED BY <1>2, <1>3, <1>5 DEF InLine

\* A series has no code when its certificates, in the order of their days, are chained.
Unbroken(n, c) ==
  /\ \A i, j \in 1..n : ~(i < j /\ c[i].day = c[j].day)
  /\ \A i \in 1..n : c[i].previous # c[i].id
  /\ \A i \in (1..n) \ {1} : c[i].previous = c[i - 1].id
  /\ \A i \in (1..n) \ {1} : (c[i - 1].day + 1)..(c[i].day - 1) \subseteq c[i].gaps
  /\ \A i \in 1..n : c[i].unexplained = {}
\* What a series of different certificates is accused of.
LEMMA SeriesSays ==
  ASSUME NEW certs, NEW c, c = InDays(certs), NEW n \in Nat, DOMAIN c = 1..n
  PROVE  SeriesCodes(certs) = {} <=> Unbroken(n, c)
BY DEF SeriesCodes, Unbroken

\* The links hold if no later day is lost, and if an inner one is they do not, whatever the order
\* in which the certificates are given and also when the day is declared a gap.
LEMMA LinksSay ==
  ASSUME NEW p, Asked(p), p.later # {}
  PROVE  SeriesCodes(<<Certificate(p)>> \o Rest(p)) = {} <=> p.lost = 0
<1>1. PICK cert : cert = Certificate(p)
  OBVIOUS
<1>2a. PICK n \in Nat : \E certs : Held(p, cert, n, certs)
  BY <1>1, SeriesIs
<1>2. PICK certs : Held(p, cert, n, certs)
  BY <1>2a
<1>3. certs = <<cert>> \o Rest(p)
  BY <1>2 DEF Held
<1>4. PICK c : c = InDays(certs)
  OBVIOUS
<1>5. /\ DOMAIN c = 1..n
      /\ \A i \in 1..n : Linked(p, c[i])
      /\ \A i, j \in 1..n : i < j => c[i].day < c[j].day
      /\ \A d \in {1} \cup (p.later \ {p.lost}) : \E i \in 1..n : c[i].day = d
  <2>1. InLine(p, n, c)
    BY <1>1, <1>2, <1>4, Neighbours, Zenon
  <2> QED BY <2>1 DEF InLine
<1>5a. \A i \in 1..n : c[i].day \in Nat /\ c[i].day >= 1 /\ c[i].id = c[i].day /\ c[i].unexplained = {}
  BY <1>5 DEF Linked
<1>5b. \A i \in 1..n : c[i].day = 1 => c[i].previous = 0
  BY <1>5 DEF Linked
<1>5c. \A i \in 1..n : c[i].day # 1 => /\ c[i].day \in p.later \ {p.lost}
                                     /\ c[i].previous = LastDay(p, c[i].day)
  BY <1>5 DEF Linked
<1>5d. \A i \in 1..n : c[i].day # 1 => (LastDay(p, c[i].day) + 1)..(c[i].day - 1) \subseteq c[i].gaps
  BY <1>5 DEF Linked
<1>5e. \A i, j \in 1..n : i < j => c[i].day < c[j].day
  BY <1>5
<1>5f. \A d \in {1} \cup (p.later \ {p.lost}) : \E i \in 1..n : c[i].day = d
  BY <1>5
<1>6. /\ p.later \subseteq Nat \ {0, 1} /\ p.lost \in {0} \cup p.later
      /\ p.lost # 0 => p.lost # Max(p.later \cup {0})
  BY DEF Asked
<1>7. \A i \in (1..n) \ {1} : i - 1 \in 1..n /\ c[i - 1].day < c[i].day /\ c[i].day # 1
  <2> TAKE i \in (1..n) \ {1}
  <2>1. i - 1 \in 1..n /\ i - 1 < i
    OBVIOUS
  <2>2. c[i - 1].day < c[i].day
    BY <1>5a, <1>5b, <1>5c, <1>5d, <1>5e, <1>5f, <2>1
  <2>3. c[i - 1].day \in Nat /\ c[i].day \in Nat /\ c[i - 1].day >= 1
    BY <1>5a, <1>5b, <1>5c, <1>5d, <1>5e, <1>5f, <2>1
  <2> QED BY <2>1, <2>2, <2>3
<1>8. ASSUME NEW i \in (1..n) \ {1}, NEW d \in {1} \cup (p.later \ {p.lost}), d < c[i].day
      PROVE  d <= c[i - 1].day
  <2>1. PICK j \in 1..n : c[j].day = d
    BY <1>5a, <1>5b, <1>5c, <1>5d, <1>5e, <1>5f
  <2>2. i - 1 \in 1..n
    BY <1>7
  <2>3. c[j].day \in Nat /\ c[i].day \in Nat /\ c[i - 1].day \in Nat
    BY <1>5a, <1>5b, <1>5c, <1>5d, <1>5e, <1>5f, <2>2
  <2>4. CASE j > i - 1
    <3>1. j = i \/ i < j
      BY <2>4
    <3>2. c[i].day <= c[j].day
      BY <1>5a, <1>5b, <1>5c, <1>5d, <1>5e, <1>5f, <2>3, <3>1
    <3> QED BY <1>8, <2>1, <2>3, <3>2
  <2>5. CASE j = i - 1
    BY <2>1, <2>3, <2>5
  <2>6. CASE j < i - 1
    <3>1. c[j].day < c[i - 1].day
      BY <1>5a, <1>5b, <1>5c, <1>5d, <1>5e, <1>5f, <2>2, <2>6
    <3> QED BY <2>1, <2>3, <3>1
  <2> QED BY <2>4, <2>5, <2>6
<1>9. SeriesCodes(certs) = {} <=> Unbroken(n, c)
  BY <1>4, <1>5, SeriesSays, Zenon
<1>10. ASSUME p.lost = 0 PROVE SeriesCodes(certs) = {}
  <2>1. ASSUME NEW i \in (1..n) \ {1} PROVE LastDay(p, c[i].day) = c[i - 1].day
    <3>1. PICK d \in p.later : d = c[i].day
      BY <1>5a, <1>5b, <1>5c, <1>5d, <1>5e, <1>5f, <1>7
    <3>2. /\ LastDay(p, d) \in {1} \cup p.later /\ LastDay(p, d) < d /\ LastDay(p, d) \in Nat
          /\ \A e \in p.later : e < d => e <= LastDay(p, d)
      BY LastDayIs
    <3>3. p.later \ {p.lost} = p.later
      BY <1>6, <1>10
    <3>4. LastDay(p, d) <= c[i - 1].day
      BY <1>8, <3>1, <3>2, <3>3
    <3>5. c[i - 1].day \in {1} \cup p.later /\ c[i - 1].day < d /\ c[i - 1].day \in Nat
      BY <1>5a, <1>5b, <1>5c, <1>5d, <1>5e, <1>5f, <1>7, <3>1
    <3>6. c[i - 1].day <= LastDay(p, d)
      <4>1. CASE c[i - 1].day = 1
        BY <1>6, <3>2, <4>1
      <4>2. CASE c[i - 1].day \in p.later
        BY <3>2, <3>5, <4>2
      <4> QED BY <3>5, <4>1, <4>2
    <3> QED BY <3>1, <3>2, <3>4, <3>5, <3>6
  <2>2. \A i \in (1..n) \ {1} : c[i].previous = c[i - 1].id
                                /\ (c[i - 1].day + 1)..(c[i].day - 1) \subseteq c[i].gaps
    BY <1>5a, <1>5b, <1>5c, <1>5d, <1>5e, <1>5f, <1>7, <2>1
  <2>3. ASSUME NEW i \in 1..n PROVE c[i].previous # c[i].id
    <3>1. CASE c[i].day = 1
      BY <1>5a, <1>5b, <1>5c, <1>5d, <1>5e, <1>5f, <3>1
    <3>2. CASE c[i].day # 1
      <4>1. PICK d \in p.later : d = c[i].day
        BY <1>5a, <1>5b, <1>5c, <1>5d, <1>5e, <1>5f, <3>2
      <4>2. LastDay(p, d) < d /\ LastDay(p, d) \in Nat /\ d \in Nat
        BY LastDayIs
      <4> QED BY <1>5a, <1>5b, <1>5c, <1>5d, <1>5e, <1>5f, <3>2, <4>1, <4>2
    <3> QED BY <3>1, <3>2
  <2>4. \A i, j \in 1..n : ~(i < j /\ c[i].day = c[j].day)
    BY <1>5a, <1>5b, <1>5c, <1>5d, <1>5e, <1>5f
  <2> QED BY <1>5a, <1>5b, <1>5c, <1>5d, <1>5e, <1>5f, <1>9, <2>2, <2>3, <2>4 DEF Unbroken
<1>11. ASSUME p.lost # 0 PROVE SeriesCodes(certs) # {}
  <2>1. p.lost \in p.later /\ p.lost \in Nat /\ p.lost > 1
    BY <1>6, <1>11
  <2>2. PICK m \in p.later : m > p.lost
    <3>1. IsFiniteSet(p.later) /\ p.later \subseteq Nat
      BY DEF Asked
    <3>2. PICK m \in p.later : \A x \in p.later : m >= x
      BY <2>1, <3>1, FiniteMax
    <3>3. CASE m = p.lost
      <4>1. m \in p.later \cup {0} /\ \A x \in p.later \cup {0} : m >= x
        BY <3>1, <3>2
      <4>2. /\ Max(p.later \cup {0}) \in p.later \cup {0}
            /\ \A x \in p.later \cup {0} : Max(p.later \cup {0}) >= x
        BY <4>1 DEF Max
      <4>3. Max(p.later \cup {0}) = m
        BY <3>1, <3>2, <4>1, <4>2
      <4> QED BY <1>6, <1>11, <3>3, <4>3
    <3>4. CASE m # p.lost
      BY <2>1, <3>1, <3>2, <3>4
    <3> QED BY <3>3, <3>4
  <2> DEFINE U == {e \in p.later : e > p.lost}
  <2>3. PICK d \in U : \A x \in U : d <= x
    <3>1. U \subseteq Nat /\ U # {}
      BY <1>6, <2>2
    <3> HIDE DEF U
    <3> QED BY <3>1, FiniteMin
  <2>4. d \in p.later \ {p.lost} /\ d \in Nat /\ d > p.lost /\ d # 1
    BY <1>6, <2>1, <2>3
  <2>5. PICK i \in 1..n : c[i].day = d
    BY <1>5a, <1>5b, <1>5c, <1>5d, <1>5e, <1>5f, <2>4
  <2>6. LastDay(p, d) = p.lost
    <3>1. /\ LastDay(p, d) \in {1} \cup p.later /\ LastDay(p, d) < d /\ LastDay(p, d) \in Nat
          /\ \A e \in p.later : e < d => e <= LastDay(p, d)
      BY <2>4, LastDayIs
    <3>2. p.lost <= LastDay(p, d)
      BY <2>1, <2>4, <3>1
    <3>3. CASE LastDay(p, d) > p.lost
      <4>1. LastDay(p, d) \in U
        BY <2>1, <3>1, <3>3
      <4> QED BY <2>3, <2>4, <3>1, <4>1
    <3> QED BY <2>1, <3>1, <3>2, <3>3
  <2>7. i # 1
    <3>1. PICK j \in 1..n : c[j].day = 1
      BY <1>5a, <1>5b, <1>5c, <1>5d, <1>5e, <1>5f
    <3>2. i = 1 => j = 1 \/ i < j
      OBVIOUS
    <3>3. i < j => c[i].day < c[j].day
      BY <1>5a, <1>5b, <1>5c, <1>5d, <1>5e, <1>5f
    <3> QED BY <2>1, <2>4, <2>5, <3>1, <3>2, <3>3
  <2>8. i \in (1..n) \ {1} /\ i - 1 \in 1..n
    BY <1>7, <2>7
  <2>9. c[i].previous = p.lost
    BY <1>5a, <1>5b, <1>5c, <1>5d, <1>5e, <1>5f, <2>4, <2>5, <2>6
  <2>10. c[i - 1].id # p.lost
    <3>1. c[i - 1].id = c[i - 1].day /\ (c[i - 1].day = 1 \/ c[i - 1].day \in p.later \ {p.lost})
      BY <1>5a, <1>5b, <1>5c, <1>5d, <1>5e, <1>5f, <2>8
    <3> QED BY <2>1, <3>1
  <2> QED BY <1>9, <2>8, <2>9, <2>10 DEF Unbroken
<1> QED BY <1>1, <1>3, <1>10, <1>11

\* What main() answers of a whole series is what it answers of the certificate that is shown.
LEMMA AnswersWhole ==
  ASSUME NEW p, Asked(p), p.lost = 0, p.flaw \notin Unreadable
  PROVE  Answer(p) = ExitCode(Told(p))
BY Answers, LinksSay

-----------------------------------------------------------------------------
(* What is verified *)

\* A series without one of its inner days is contradicted, one that has them all is what the
\* certificate that is shown is, for every set of days and every order of the certificates.
THEOREM SeriesHasItsDays == Spec => []SeriesIsUnbroken
<1>1. Guarded /\ Judgement => SeriesIsUnbroken
  <2> SUFFICES ASSUME Guarded, Judgement, IsShown, shown.later # {}
               PROVE  /\ shown.lost # 0 => exit = 1
                      /\ shown.lost = 0 /\ shown.flaw \notin Unreadable => exit = ExitCode(report)
    BY DEF SeriesIsUnbroken
  <2>1. PICK p : p = shown
    OBVIOUS
  <2>2. Asked(p) /\ exit = Answer(p) /\ report = Told(p) /\ p.later # {}
    BY <2>1 DEF Judgement
  <2>3. p.lost # 0 => Answer(p) = 1
    BY <2>2, Answers, LinksSay
  <2>4. p.lost = 0 /\ p.flaw \notin Unreadable => Answer(p) = ExitCode(Told(p))
    BY <2>2, AnswersWhole
  <2>5. p.lost # 0 => exit = 1
    BY <2>2, <2>3
  <2>6. p.lost = 0 /\ p.flaw \notin Unreadable => exit = ExitCode(report)
    BY <2>2, <2>4
  <2> QED BY <2>1, <2>5, <2>6
<1> QED BY <1>1, LedgerIsTold, PTL

\* A copy that holds m entries of the book, from the one after number a.
Segment(f, a, m) ==
  /\ a \in Nat /\ m \in Nat /\ a + m <= Len(book) /\ DOMAIN f = 1..m /\ Len(f) = m /\ f \in Seq(Records)
  /\ \A i \in 1..m : f[i] = book[a + i]

\* The entries of a segment.
Copied(f, a, m) ==
  /\ a \in Nat /\ m \in Nat /\ a + m <= Len(book) /\ DOMAIN f = 1..m /\ f \in Seq(Records)
  /\ \A i \in 1..m : /\ f[i] = book[a + i] /\ f[i].seq = a + i /\ f[i].hash = a + i
                     /\ f[i].prev = a + i - 1 /\ f[i].sound
                     /\ f[i].dialect = "guardian-core-v1" /\ a + i \in 1..Len(book)
  /\ \A e : e \in ToSet(f) <=> \E k \in (a + 1)..(a + m) : e = book[k]
\* A part of the ledger in a copy, row by row.
LEMMA SegmentSays ==
  ASSUME Guarded, NEW f, NEW a, NEW m, Segment(f, a, m)
  PROVE  Copied(f, a, m)
<1>1. Len(book) \in Nat
  BY BookSays
<1>2. \A i \in 1..m : a + i \in 1..Len(book) /\ f[i] = book[a + i]
  BY <1>1 DEF Segment
<1>3. \A i \in 1..m : /\ f[i].seq = a + i /\ f[i].hash = a + i
                      /\ f[i].prev = a + i - 1 /\ f[i].sound
                      /\ f[i].dialect = "guardian-core-v1"
  <2> TAKE i \in 1..m
  <2>1. PICK n \in 1..Len(book) : n = a + i /\ f[i] = book[n]
    BY <1>2
  <2>2. /\ book[n].seq = n /\ book[n].hash = n /\ book[n].prev = n - 1 /\ book[n].sound
        /\ book[n].dialect = "guardian-core-v1"
    BY BookSays
  <2>3. a \in Nat /\ i \in Nat
    BY DEF Segment
  <2> QED BY <2>1, <2>2, <2>3
<1>4. ASSUME NEW e PROVE e \in ToSet(f) <=> \E k \in (a + 1)..(a + m) : e = book[k]
  <2>1. e \in ToSet(f) <=> \E i \in 1..m : e = f[i]
    BY DEF ToSet, Segment
  <2>2. ASSUME NEW i \in 1..m, e = f[i] PROVE \E k \in (a + 1)..(a + m) : e = book[k]
    <3>1. a + i \in (a + 1)..(a + m)
      BY DEF Segment
    <3> QED BY <1>2, <2>2, <3>1
  <2>3. ASSUME NEW k \in (a + 1)..(a + m), e = book[k] PROVE \E i \in 1..m : e = f[i]
    <3>1. k - a \in 1..m /\ a + (k - a) = k
      BY DEF Segment
    <3> QED BY <1>2, <2>3, <3>1
  <2> QED BY <2>1, <2>2, <2>3
<1> QED BY <1>2, <1>3, <1>4 DEF Segment, Copied

\* A segment is a whole chain, over every range that it has an entry of.
LEMMA SegmentIntact ==
  ASSUME Guarded, NEW f, NEW a, NEW m, Segment(f, a, m), NEW from \in Nat, NEW to \in Nat,
         NEW k \in (a + 1)..(a + m), k \in from..to
  PROVE  ChainBreak(f, from, to) = 0
<1>1. /\ a \in Nat /\ m \in Nat /\ DOMAIN f = 1..m
      /\ \A i \in 1..m : f[i].seq = a + i /\ f[i].hash = a + i /\ f[i].prev = a + i - 1 /\ f[i].sound
  <2>1. Copied(f, a, m)
    BY SegmentSays
  <2> QED BY <2>1 DEF Copied
<1> DEFINE rows == Places(f, from, to)
           earlier(i) == {j \in rows : j < i}
           loose(i) == IF f[i].seq = 1 THEN f[i].prev # Genesis
                       ELSE earlier(i) # {} /\ f[i].prev # f[Max(earlier(i))].hash
           wrong == {i \in rows : loose(i) \/ ~f[i].sound}
<1>2. \A i : i \in rows <=> i \in 1..m /\ a + i \in from..to
  BY <1>1 DEF Places
<1>3. rows # {}
  <2>1. k - a \in 1..m /\ a + (k - a) = k
    BY <1>1
  <2> QED BY <1>2, <2>1
<1>4. ASSUME NEW i \in rows PROVE ~loose(i)
  <2>1. i \in 1..m /\ a + i \in from..to
    BY <1>2
  <2>2. CASE f[i].seq = 1
    BY <1>1, <2>1, <2>2 DEF Genesis
  <2>3. CASE earlier(i) = {} /\ f[i].seq # 1
    BY <2>3
  <2>4. CASE earlier(i) # {} /\ f[i].seq # 1
    <3>1. PICK j \in rows : j < i
      BY <2>4
    <3>2. j \in 1..m /\ a + j \in from..to
      BY <1>2, <3>1
    <3>3. i - 1 \in 1..m /\ a + (i - 1) \in from..to
      BY <1>1, <2>1, <3>1, <3>2
    <3>4. i - 1 \in earlier(i)
      BY <1>2, <2>1, <3>3
    <3>5. PICK E : E = earlier(i)
      OBVIOUS
    <3>6. E \subseteq 1..m /\ E # {} /\ i - 1 \in E /\ \A x \in E : x < i
      BY <1>2, <2>4, <3>4, <3>5
    <3>7. IsFiniteSet(E)
      <4>1. IsFiniteSet(1..m)
        BY <1>1, FS_Interval
      <4> QED BY <3>6, <4>1, FS_Subset
    <3>8. Max(E) \in E /\ \A x \in E : Max(E) >= x
      <4>1. E \subseteq Nat
        BY <3>6
      <4> QED BY <3>6, <3>7, <4>1, MaxOf
    <3>9. Max(E) = i - 1
      <4>1. PICK x : x = Max(E)
        OBVIOUS
      <4>2. x \in 1..m /\ x < i /\ x >= i - 1
        BY <3>6, <3>8, <4>1
      <4>3. x = i - 1
        BY <1>1, <2>1, <4>2
      <4> QED BY <4>1, <4>3
    <3>10. f[i - 1].hash = a + (i - 1) /\ f[i].prev = a + i - 1
      BY <1>1, <2>1, <3>3
    <3>11. f[i].prev = f[Max(E)].hash
      BY <1>1, <2>1, <3>9, <3>10
    <3>12. f[i].prev = f[Max(earlier(i))].hash
      <4> HIDE DEF earlier
      <4> QED BY <3>5, <3>11
    <3> HIDE DEF earlier
    <3> QED BY <2>4, <3>12
  <2> QED BY <2>2, <2>3, <2>4
<1>5. wrong = {}
  <2> HIDE DEF rows, loose
  <2> QED BY <1>1, <1>2, <1>4
<1> QED BY <1>3, <1>5 DEF ChainBreak

-----------------------------------------------------------------------------
(* An honest document *)

\* What leaves everything but the limit that is claimed true.
Honest == {"none", "silent", "unreadable", "limit"} \cup Accidents

\* The day a certificate is for.
DayOf(p) == IF p.named THEN DayAt(p.to) ELSE NoDay

\* The document of an honest certificate has nothing against it.
LEMMA HonestDocument ==
  ASSUME NEW p, p.flaw \in Honest, NEW cert, cert = Certificate(p)
  PROVE  /\ HashCodes(cert) = {} /\ RuleFive(cert.leaves) = {} /\ cert.limitations /\ ~cert.trades
         /\ SignatureStatus(cert, TRUE) = "ABSENT" /\ cert.hash = "matches"
         /\ cert.level = (IF p.anchor > 0 THEN "L2" ELSE "L1")
         /\ cert.dialect = "guardian-core-v1" /\ cert.from = p.from /\ cert.to = p.to
         /\ cert.day = DayOf(p)
<1>1. p.flaw \in {"none", "silent", "unreadable", "limit", "short", "rotated", "hole", "altered", "alien line"}
  BY DEF Honest, Accidents
<1>2. /\ cert.hash = "matches" /\ cert.leaves = HonestLeaves /\ cert.limitations = TRUE /\ cert.trades = FALSE
      /\ cert.signature = "none"
      /\ cert.level = (IF p.anchor > 0 THEN "L2" ELSE "L1")
      /\ cert.dialect = "guardian-core-v1" /\ cert.from = p.from /\ cert.to = p.to
      /\ cert.day = DayOf(p)
  <2>1. PICK f : f = p.flaw
    OBVIOUS
  <2>2. /\ f \notin {"edited", "edited over alien", "edited over unreadable"}
        /\ f # "no hash" /\ f # "not an object" /\ f # "no dialect" /\ f # "future dialect"
        /\ f \notin {"trades", "trades over unreadable"} /\ f # "reworded" /\ f # "forged"
        /\ f # "filler" /\ f # "belied" /\ f # "overstated" /\ f # "bad level" /\ f # "no range"
    BY <1>1, <2>1
  <2>3. cert.hash = "matches"
    BY <2>1, <2>2, CertificateFields
  <2>4. cert.dialect = "guardian-core-v1" /\ cert.from = p.from /\ cert.to = p.to
    BY <2>1, <2>2, CertificateFields
  <2>5. cert.leaves = HonestLeaves /\ cert.signature = "none" /\ cert.day = DayOf(p)
    <3>1. cert.leaves = HonestLeaves \cup {} \cup {}
      BY <2>1, <2>2, CertificateFields
    <3>2. cert.signature = "none" /\ cert.day = DayOf(p)
      BY <2>1, <2>2, CertificateFields DEF DayOf
    <3> QED BY <3>1, <3>2
  <2>6. cert.limitations = TRUE /\ cert.trades = FALSE
    <3>1. /\ cert.limitations = (f # "reworded")
          /\ cert.trades = (f \in {"trades", "trades over unreadable"})
      BY <2>1, CertificateFields, Zenon
    <3>2. (f # "reworded") = TRUE
      BY <2>2
    <3>3. cert.trades = FALSE
      <4>1. PICK S : S = {"trades", "trades over unreadable"}
        OBVIOUS
      <4>2. f \notin S
        BY <2>2, <4>1
      <4>3. cert.trades = (f \in S)
        BY <3>1, <4>1, Zenon
      <4> QED BY <4>2, <4>3, NotAMember
    <3> QED BY <3>1, <3>2, <3>3, Zenon
  <2>7. cert.level = (IF p.anchor > 0 THEN "L2" ELSE "L1")
    BY <2>1, <2>2, CertificateFields
  <2> QED BY <2>3, <2>4, <2>5, <2>6, <2>7
<1>3. RuleFive(HonestLeaves) = {}
  <2>1. \A m \in HonestLeaves : ~(m.shape = "filler" /\ m.key \notin PersonSupplied \cup CopiedFromEvidence)
    BY DEF HonestLeaves, PersonSupplied, CopiedFromEvidence
  <2>2. \A m \in HonestLeaves : ~(m.key \in DOMAIN Promise /\ m.shape \notin {Promise[m.key], "null"})
    BY DEF HonestLeaves, Promise
  <2> QED BY <2>1, <2>2 DEF RuleFive
<1> QED BY <1>2, <1>3 DEF HashCodes, SignatureStatus

\* The layer that is reached over a whole chain, when the anchors stand.
LEMMA LayerReached ==
  ASSUME NEW p, p.flaw \in Honest, p.anchor \in Nat, NEW cert, cert = Certificate(p), NEW file,
         Intact(cert, file), Standing(file, Anchors(p)) = Anchors(p)
  PROVE  /\ Layer(cert, file, Anchors(p)) = (IF p.anchor > 0 THEN "L2" ELSE "L1")
         /\ LevelCodes(cert.level, Layer(cert, file, Anchors(p))) = {}
<1>1. SignatureStatus(cert, TRUE) = "ABSENT" /\ cert.hash = "matches"
      /\ cert.level = (IF p.anchor > 0 THEN "L2" ELSE "L1")
  BY HonestDocument
<1>2. Standing(file, Anchors(p)) = {} <=> ~(p.anchor > 0)
  <2>1. p.anchor = 0 => Anchors(p) = {}
    BY DEF Anchors
  <2>2. p.anchor # 0 => Anchors(p) # {}
    BY DEF Anchors
  <2>3. p.anchor > 0 <=> p.anchor # 0
    OBVIOUS
  <2> QED BY <2>1, <2>2, <2>3
<1>3. Layer(cert, file, Anchors(p)) = (IF p.anchor > 0 THEN "L2" ELSE "L1")
  BY <1>1, <1>2 DEF Layer, Reached
<1> QED BY <1>1, <1>3 DEF LevelCodes, Rank

\* A range holds all there is of its session.
Whole(p) ==
  IF DayOf(p) # NoDay
  THEN Opening(DayOf(p)) >= p.from /\ Closings(DayOf(p)) \subseteq p.from..p.to
  ELSE \A i \in DOMAIN book : i > p.to => book[i].ev # "DAY_CLOSED"

\* Then nothing is hidden outside of it.
LEMMA NothingHidden ==
  ASSUME Guarded, NEW p, Asked(p), Whole(p), NEW f, NEW a, NEW m, Segment(f, a, m)
  PROVE  Channel(RangeCoversItsDay(DayOf(p), f, p.from, p.to), "contradiction") = {}
<1> DEFINE d == DayOf(p)
           marks(ev, S) == \E e \in ToSet(f) : e.seq \in S /\ e.ev = ev /\ d \in {NoDay, e.day}
<1>1. /\ a \in Nat /\ m \in Nat /\ a + m <= Len(book)
      /\ \A e : e \in ToSet(f) <=> \E k \in (a + 1)..(a + m) : e = book[k]
  <2>1. Copied(f, a, m)
    BY SegmentSays
  <2> QED BY <2>1 DEF Copied
<1>2. Len(book) \in Nat /\ DOMAIN book = 1..Len(book) /\ \A k \in 1..Len(book) : book[k].seq = k
  BY BookSays
<1>3. \A e \in ToSet(f) : \E k \in 1..Len(book) : e = book[k] /\ e.seq = k
  <2> TAKE e \in ToSet(f)
  <2>1. PICK k \in (a + 1)..(a + m) : e = book[k]
    BY <1>1
  <2>2. k \in 1..Len(book)
    BY <1>1, <1>2
  <2> QED BY <1>2, <2>1, <2>2
<1>4. p.from \in 1..Len(book) /\ p.to \in p.from..Len(book)
  BY <1>2 DEF Asked
<1>5. ~marks("DAY_CLOSED", (p.to + 1)..(p.to + Len(f)))
  <2> SUFFICES ASSUME NEW e \in ToSet(f), e.seq \in (p.to + 1)..(p.to + Len(f)), e.ev = "DAY_CLOSED",
                      d \in {NoDay, e.day}
               PROVE  FALSE
    OBVIOUS
  <2>1. PICK k \in 1..Len(book) : e = book[k] /\ e.seq = k
    BY <1>3
  <2>2. k > p.to
    BY <1>4, <2>1
  <2>3. CASE d = NoDay
    BY <1>2, <2>1, <2>2, <2>3 DEF Whole
  <2>4. CASE d # NoDay
    <3>1. k \in Closings(d)
      BY <1>2, <2>1, <2>4 DEF Closings
    <3>2. k \in p.from..p.to
      BY <2>4, <3>1 DEF Whole
    <3> QED BY <1>4, <2>2, <3>2
  <2> QED BY <2>3, <2>4
<1>6. ASSUME d # NoDay PROVE ~marks("DAY_OPENED", 0..(p.from - 1))
  <2> SUFFICES ASSUME NEW e \in ToSet(f), e.seq \in 0..(p.from - 1), e.ev = "DAY_OPENED",
                      d \in {NoDay, e.day}
               PROVE  FALSE
    OBVIOUS
  <2>1. PICK k \in 1..Len(book) : e = book[k] /\ e.seq = k
    BY <1>3
  <2>2. k < p.from
    BY <1>4, <2>1
  <2>3. PICK o : o = Opening(d)
    OBVIOUS
  <2>4. book[k].ev = "DAY_OPENED" /\ book[k].day = d
    BY <1>6, <2>1
  <2>5. o \in 1..Len(book) /\ book[o].ev = "DAY_OPENED" /\ book[o].day = d
    BY <1>2, <2>3, <2>4 DEF Opening
  <2>6. o >= p.from
    BY <1>6, <2>3 DEF Whole
  <2>7. k < o
    BY <1>4, <2>2, <2>5, <2>6
  <2>8. book[k].day < book[o].day
    BY <1>2, <2>4, <2>5, <2>7 DEF Guarded, DaysCounted
  <2>9. d \in Nat
    BY <2>4, BookSays DEF Records
  <2> QED BY <2>4, <2>5, <2>8, <2>9
<1> HIDE DEF d
<1>7. ~(\/ marks("DAY_CLOSED", (p.to + 1)..(p.to + Len(f)))
        \/ d # NoDay /\ marks("DAY_OPENED", 0..(p.from - 1)))
  BY <1>5, <1>6
<1>8. \A x \in RangeCoversItsDay(d, f, p.from, p.to) : x[1] = "unverified"
  BY <1>7 DEF RangeCoversItsDay
<1>9. Channel(RangeCoversItsDay(d, f, p.from, p.to), "contradiction") = {}
  BY <1>8 DEF Channel
<1> QED BY <1>9 DEF d

\* A report of an honest document, over a whole chain on which the anchors stand, contradicts
\* nothing unless the claims do or something is missing.
LEMMA NotContradicted ==
  ASSUME NEW p, p.flaw \in Honest, p.anchor \in Nat, NEW cert, cert = Certificate(p), NEW file,
         Intact(cert, file), Standing(file, Anchors(p)) = Anchors(p),
         Channel(Compared(cert, file), "contradiction") = {},
         Missing(cert, file) = {} \/ Ends(cert, file)
  PROVE  Against(cert, file, Anchors(p)) = {}
<1>1. /\ HashCodes(cert) = {} /\ RuleFive(cert.leaves) = {} /\ cert.limitations /\ ~cert.trades
      /\ SignatureStatus(cert, TRUE) = "ABSENT"
  BY HonestDocument
<1>2. LevelCodes(cert.level, Layer(cert, file, Anchors(p))) = {}
  BY LayerReached
<1> QED BY <1>1, <1>2 DEF Against

-----------------------------------------------------------------------------
(* A damaged copy *)

\* The part of a sequence.
LEMMA PartIs ==
  ASSUME NEW S, NEW s \in Seq(S), NEW i \in 1..(Len(s) + 1), NEW j \in (i - 1)..Len(s)
  PROVE  LET t == SubSeq(s, i, j)
         IN /\ t \in Seq(S) /\ Len(t) = j - i + 1 /\ DOMAIN t = 1..(j - i + 1)
            /\ \A k \in 1..(j - i + 1) : t[k] = s[i + k - 1]
OBVIOUS

\* The tail of a sequence.
LEMMA TailIs ==
  ASSUME NEW S, NEW s \in Seq(S), NEW n \in 1..Len(s)
  PROVE  LET t == SubSeq(s, n + 1, Len(s))
         IN /\ t \in Seq(S) /\ Len(t) = Len(s) - n /\ DOMAIN t = 1..(Len(s) - n)
            /\ \A k \in 1..(Len(s) - n) : t[k] = s[n + k]
OBVIOUS
\* Two sequences after each other.
LEMMA JoinedIs ==
  ASSUME NEW S, NEW s \in Seq(S), NEW t \in Seq(S)
  PROVE  /\ DOMAIN (s \o t) = 1..(Len(s) + Len(t))
         /\ \A i \in 1..(Len(s) + Len(t)) : (s \o t)[i] = IF i <= Len(s) THEN s[i] ELSE t[i - Len(s)]
OBVIOUS

\* A copy that was cut, or whose front is kept elsewhere, is a segment.
LEMMA ShortCopy ==
  ASSUME Guarded, NEW p, Asked(p), p.flaw = "short"
  PROVE  p.at \in 1..Len(book) /\ Segment(Copy(p), 0, p.at)
<1>1. book \in Seq(Records) /\ Len(book) \in Nat /\ p.at \in 1..Len(book)
  BY BookSays DEF Asked, Accidents
<1>2. PICK b, n : b = book /\ n = p.at
  OBVIOUS
<1>3. b \in Seq(Records) /\ Len(b) \in Nat /\ n \in 1..Len(b)
  BY <1>1, <1>2
<1>4. LET t == SubSeq(b, 1, n)
      IN /\ t \in Seq(Records) /\ Len(t) = n - 1 + 1 /\ DOMAIN t = 1..(n - 1 + 1)
         /\ \A k \in 1..(n - 1 + 1) : t[k] = b[1 + k - 1]
  <2>1. 1 \in 1..(Len(b) + 1) /\ n \in (1 - 1)..Len(b)
    BY <1>3
  <2> QED BY <1>3, <2>1, PartIs
<1>5. PICK t : t = SubSeq(b, 1, n)
  OBVIOUS
<1>6. n - 1 + 1 = n /\ \A k \in 1..n : 1 + k - 1 = 0 + k
  BY <1>3
<1>7. t \in Seq(Records) /\ Len(t) = n /\ DOMAIN t = 1..n /\ \A k \in 1..n : t[k] = b[0 + k]
  BY <1>4, <1>5, <1>6
<1>8. Copy(p) = t
  BY <1>2, <1>5 DEF Copy
<1> QED BY <1>1, <1>2, <1>3, <1>7, <1>8 DEF Segment
\* A copy without the segments before the range.
LEMMA RotatedCopy ==
  ASSUME Guarded, NEW p, Asked(p), p.flaw = "rotated"
  PROVE  p.at \in 1..Len(book) /\ Segment(Copy(p), p.at, Len(book) - p.at)
<1>1. book \in Seq(Records) /\ Len(book) \in Nat /\ p.at \in 1..Len(book)
  BY BookSays DEF Asked, Accidents
<1>2. PICK b, n : b = book /\ n = p.at
  OBVIOUS
<1>3. b \in Seq(Records) /\ Len(b) \in Nat /\ n \in 1..Len(b)
  BY <1>1, <1>2
<1>4. PICK t : t = SubSeq(b, n + 1, Len(b))
  OBVIOUS
<1>7. /\ t \in Seq(Records) /\ Len(t) = Len(b) - n /\ DOMAIN t = 1..(Len(b) - n)
      /\ \A k \in 1..(Len(b) - n) : t[k] = b[n + k]
  BY <1>3, <1>4, TailIs
<1>8. Copy(p) = t
  BY <1>2, <1>4 DEF Copy
<1>9. n \in Nat /\ Len(b) - n \in Nat /\ n + (Len(b) - n) <= Len(b)
  BY <1>3
<1> QED BY <1>1, <1>2, <1>7, <1>8, <1>9 DEF Segment

\* The book is a segment of itself.
LEMMA WholeCopy == ASSUME Guarded PROVE Segment(book, 0, Len(book))
<1>1. /\ book \in Seq(Records) /\ Len(book) \in Nat /\ DOMAIN book = 1..Len(book)
      /\ \A i \in 1..Len(book) : 0 + i = i
  BY BookSays
<1> QED BY <1>1 DEF Segment

\* A copy without one of the entries of the book.
LEMMA HoleCopy ==
  ASSUME Guarded, NEW p, Asked(p), p.flaw = "hole"
  PROVE  /\ p.at \in 1..Len(book) /\ \A i \in DOMAIN Copy(p) : Copy(p)[i] \in {book[k] : k \in (1..Len(book)) \ {p.at}}
         /\ \A k \in (1..Len(book)) \ {p.at} : \E i \in DOMAIN Copy(p) : Copy(p)[i] = book[k]
<1>1. book \in Seq(Records) /\ Len(book) \in Nat /\ p.at \in 1..Len(book)
  BY BookSays DEF Asked, Accidents
<1>2. PICK b, n : b = book /\ n = p.at
  OBVIOUS
<1>3. b \in Seq(Records) /\ Len(b) \in Nat /\ n \in 1..Len(b)
  BY <1>1, <1>2
<1>4. PICK s, t : s = SubSeq(b, 1, n - 1) /\ t = SubSeq(b, n + 1, Len(b))
  OBVIOUS
<1>5. s \in Seq(Records) /\ Len(s) = n - 1 /\ \A k \in 1..(n - 1) : s[k] = b[k]
  <2>1. 1 \in 1..(Len(b) + 1) /\ n - 1 \in (1 - 1)..Len(b) /\ n - 1 - 1 + 1 = n - 1
        /\ \A k \in 1..(n - 1) : 1 + k - 1 = k
    BY <1>3
  <2>2. LET j == n - 1 u == SubSeq(b, 1, j)
         IN /\ u \in Seq(Records) /\ Len(u) = j - 1 + 1 /\ DOMAIN u = 1..(j - 1 + 1)
            /\ \A k \in 1..(j - 1 + 1) : u[k] = b[1 + k - 1]
    BY <1>3, <2>1, PartIs
  <2> QED BY <1>4, <2>1, <2>2
<1>6. t \in Seq(Records) /\ Len(t) = Len(b) - n /\ \A k \in 1..(Len(b) - n) : t[k] = b[n + k]
  BY <1>3, <1>4, TailIs
<1>7. PICK f : f = s \o t
  OBVIOUS
<1>8. /\ DOMAIN f = 1..(Len(b) - 1)
      /\ \A i \in 1..(Len(b) - 1) : f[i] = IF i <= n - 1 THEN s[i] ELSE t[i - (n - 1)]
  <2>1. /\ DOMAIN f = 1..(Len(s) + Len(t))
        /\ \A i \in 1..(Len(s) + Len(t)) : f[i] = IF i <= Len(s) THEN s[i] ELSE t[i - Len(s)]
    BY <1>5, <1>6, <1>7, JoinedIs
  <2>2. Len(s) = n - 1 /\ Len(t) = Len(b) - n /\ Len(s) + Len(t) = Len(b) - 1
    BY <1>3, <1>5, <1>6
  <2> QED BY <2>1, <2>2
<1>9. Copy(p) = f
  BY <1>2, <1>4, <1>7 DEF Copy, RemoveAt
<1>10. ASSUME NEW i \in 1..(Len(b) - 1) PROVE f[i] \in {b[k] : k \in (1..Len(b)) \ {n}}
  <2>1. CASE i <= n - 1
    <3>1. f[i] = b[i] /\ i \in (1..Len(b)) \ {n}
      BY <1>3, <1>5, <1>8, <2>1
    <3> QED BY <3>1
  <2>2. CASE ~(i <= n - 1)
    <3>1. i - (n - 1) \in 1..(Len(b) - n) /\ n + (i - (n - 1)) = i + 1
      BY <1>3, <2>2
    <3>2. f[i] = t[i - (n - 1)]
      BY <1>8, <2>2
    <3>3. f[i] = b[i + 1] /\ i + 1 \in (1..Len(b)) \ {n}
      BY <1>3, <1>6, <2>2, <3>1, <3>2
    <3> QED BY <3>3
  <2> QED BY <2>1, <2>2
<1>11. ASSUME NEW k \in (1..Len(b)) \ {n} PROVE \E i \in 1..(Len(b) - 1) : f[i] = b[k]
  <2>1. CASE k <= n - 1
    <3>1. k \in 1..(Len(b) - 1) /\ f[k] = b[k]
      BY <1>3, <1>5, <1>8, <2>1
    <3> QED BY <3>1
  <2>2. CASE ~(k <= n - 1)
    <3>1. k - 1 \in 1..(Len(b) - 1) /\ ~(k - 1 <= n - 1) /\ (k - 1) - (n - 1) = k - n
          /\ k - n \in 1..(Len(b) - n) /\ n + (k - n) = k
      BY <1>3, <2>2
    <3>2. f[k - 1] = t[k - n]
      BY <1>8, <3>1
    <3>3. f[k - 1] = b[k]
      BY <1>6, <3>1, <3>2
    <3> QED BY <3>1, <3>3
  <2> QED BY <2>1, <2>2
<1>12. /\ \A i \in DOMAIN f : f[i] \in {b[k] : k \in (1..Len(b)) \ {n}}
       /\ \A k \in (1..Len(b)) \ {n} : \E i \in DOMAIN f : f[i] = b[k]
  BY <1>8, <1>10, <1>11
<1>13. PICK g : g = Copy(p)
  OBVIOUS
<1>14. /\ \A i \in DOMAIN g : g[i] \in {book[k] : k \in (1..Len(book)) \ {p.at}}
       /\ \A k \in (1..Len(book)) \ {p.at} : \E i \in DOMAIN g : g[i] = book[k]
  BY <1>2, <1>9, <1>12, <1>13
<1> QED BY <1>1, <1>13, <1>14

-----------------------------------------------------------------------------
(* Damage is named *)

\* The numbers that are missing from a range.
LEMMA MissingIs ==
  ASSUME NEW cert, NEW file, NEW n
  PROVE  n \in Missing(cert, file) <=> n \in cert.from..cert.to /\ \A e \in ToSet(file) : e.seq # n
BY DEF Missing

\* A file with lines of the declared kind is read.
LEMMA IsRead ==
  ASSUME NEW cert, NEW file, cert.dialect = "guardian-core-v1",
         cert.from \in Nat, cert.to \in Nat, cert.from <= cert.to, file # <<>>,
         \A i \in DOMAIN file : file[i].dialect = "guardian-core-v1"
  PROVE  StopCode(cert, file) = "none"
BY DEF StopCode, DialectMismatch, Dialects

\* A copy that was cut within the range of a whole session is not evaluated, up to where it ends,
\* and is not charged to anybody.
LEMMA ShortIsNamed ==
  ASSUME Guarded, NEW p, Asked(p), Whole(p), p.flaw = "short", p.at \in p.from..(p.to - 1),
         p.anchor <= p.at
  PROVE  ExitCode(Told(p)) = 2 /\ Told(p).effectiveTo = p.at
<1>1. PICK cert, file, n : cert = Certificate(p) /\ file = Copy(p) /\ n = p.at
  OBVIOUS
<1>2. n \in 1..Len(book) /\ Segment(file, 0, n)
  BY <1>1, ShortCopy
<1>3. /\ n \in Nat /\ DOMAIN file = 1..n
      /\ \A i \in 1..n : file[i].seq = i /\ file[i].hash = i /\ file[i].dialect = "guardian-core-v1" /\ file[i] = book[i]
      /\ \A e : e \in ToSet(file) <=> \E k \in 1..n : e = book[k]
  <2>0. Copied(file, 0, n)
    BY <1>2, SegmentSays
  <2>1. /\ 0 \in Nat /\ n \in Nat /\ 0 + n <= Len(book) /\ DOMAIN file = 1..n /\ file \in Seq(Records)
        /\ \A i \in 1..n : /\ file[i] = book[0 + i] /\ file[i].seq = 0 + i /\ file[i].hash = 0 + i
                           /\ file[i].prev = 0 + i - 1 /\ file[i].sound
                           /\ file[i].dialect = "guardian-core-v1" /\ 0 + i \in 1..Len(book)
        /\ \A e : e \in ToSet(file) <=> \E k \in (0 + 1)..(0 + n) : e = book[k]
    BY <2>0 DEF Copied
  <2>2. 0 + 1 = 1 /\ 0 + n = n /\ \A i \in 1..n : 0 + i = i
    BY <2>1
  <2> QED BY <2>1, <2>2
<1>4. /\ p.from \in 1..Len(book) /\ p.to \in p.from..Len(book) /\ n \in p.from..(p.to - 1) /\ p.anchor \in 0..Len(book)
      /\ Len(book) \in Nat
  BY <1>1, BookSays DEF Asked
<1>5. /\ cert.dialect = "guardian-core-v1" /\ cert.from = p.from /\ cert.to = p.to /\ cert.day = DayOf(p)
      /\ p.flaw \in Honest
  <2>1. p.flaw \in Honest
    BY DEF Honest, Accidents
  <2> QED BY <1>1, <2>1, HonestDocument
<1>6. StopCode(cert, file) = "none"
  <2>1. file # <<>>
    BY <1>2, <1>3, IsSeq
  <2>2. cert.from \in Nat /\ cert.to \in Nat /\ cert.from <= cert.to
    BY <1>4, <1>5
  <2> QED BY <1>3, <1>5, <2>1, <2>2, IsRead
<1>7. Intact(cert, file)
  <2>1. n \in (0 + 1)..(0 + n) /\ n \in p.from..p.to /\ p.from \in Nat /\ p.to \in Nat
    BY <1>2, <1>3, <1>4
  <2>2. ChainBreak(file, p.from, p.to) = 0
    BY <1>2, <2>1, SegmentIntact
  <2> QED BY <1>5, <2>2 DEF Intact
<1>8. \A k : k \in Missing(cert, file) <=> k \in (n + 1)..p.to
  <2> SUFFICES ASSUME NEW k PROVE k \in Missing(cert, file) <=> k \in (n + 1)..p.to
    OBVIOUS
  <2>1. k \in Missing(cert, file) <=> k \in p.from..p.to /\ \A e \in ToSet(file) : e.seq # k
    BY <1>5, MissingIs
  <2>2. \A j \in 1..n : book[j].seq = j
    BY <1>3
  <2>3. (\A e \in ToSet(file) : e.seq # k) <=> k \notin 1..n
    BY <1>3, <2>2
  <2>4. k \in p.from..p.to /\ k \notin 1..n <=> k \in (n + 1)..p.to
    BY <1>3, <1>4
  <2> QED BY <2>1, <2>3, <2>4
<1>9. PICK M : M = Missing(cert, file)
  OBVIOUS
<1>10. M = (n + 1)..p.to /\ M # {}
  <2>1. M = (n + 1)..p.to
    BY <1>8, <1>9
  <2>2. p.to \in (n + 1)..p.to
    BY <1>3, <1>4
  <2> QED BY <2>1, <2>2
<1>11. Min(M) = n + 1
  <2>1. n + 1 \in M /\ \A x \in M : n + 1 <= x
    BY <1>3, <1>4, <1>10
  <2>2. Min(M) \in M /\ \A x \in M : Min(M) <= x
    BY <2>1 DEF Min
  <2>3. PICK x : x = Min(M)
    OBVIOUS
  <2>4. x \in (n + 1)..p.to /\ x <= n + 1
    BY <1>10, <2>1, <2>2, <2>3
  <2>5. x = n + 1
    BY <1>3, <1>4, <2>4
  <2> QED BY <2>3, <2>5
<1>12. Ends(cert, file) /\ Effective(cert, file) = n
  <2>1. Ends(cert, file)
    BY <1>5, <1>7, <1>9, <1>10, <1>11 DEF Ends, Truncated
  <2>2. Effective(cert, file) = Min(M) - 1
    BY <1>9, <2>1 DEF Effective
  <2>3. PICK x : x = Min(M)
    OBVIOUS
  <2>4. x = n + 1 /\ Effective(cert, file) = x - 1
    BY <1>11, <2>2, <2>3
  <2>5. x - 1 = n
    BY <1>3, <2>4
  <2> QED BY <2>1, <2>4, <2>5, Zenon
<1>13. Standing(file, Anchors(p)) = Anchors(p)
  <2>1. CASE p.anchor = 0
    BY <2>1 DEF Anchors, Standing
  <2>2. CASE p.anchor # 0
    <3>1. PICK a : a = [seq |-> p.anchor, hash |-> book[p.anchor].hash] /\ Anchors(p) = {a}
      BY <2>2 DEF Anchors
    <3>2. PICK k \in 1..n : k = p.anchor
      BY <1>1, <1>3, <1>4, <2>2
    <3>3. book[k] \in ToSet(file) /\ book[k].seq = a.seq /\ book[k].hash = a.hash
      BY <1>3, <3>1, <3>2
    <3> QED BY <3>1, <3>3 DEF Standing
  <2> QED BY <2>1, <2>2
<1>14. Channel(Compared(cert, file), "contradiction") = {}
  <2>1. PICK R : R = RangeCoversItsDay(DayOf(p), file, p.from, p.to)
    OBVIOUS
  <2>2. Channel(R, "contradiction") = {}
    BY <1>2, <2>1, NothingHidden
  <2>3. Compared(cert, file) = R \cup {<<"unverified", "CLAIMS_NOT_COMPARABLE">>}
    BY <1>5, <1>12, <2>1 DEF Compared
  <2> QED BY <2>2, <2>3 DEF Channel
<1>15. Against(cert, file, Anchors(p)) = {}
  <2>1. p.anchor \in Nat
    BY <1>4
  <2> QED BY <1>1, <1>5, <1>7, <1>12, <1>13, <1>14, <2>1, NotContradicted
<1>16. PICK r : r = VerifyCertificate(cert, file, Anchors(p), TRUE)
  OBVIOUS
<1>17. PICK anchors : anchors = Anchors(p)
  OBVIOUS
<1>18. /\ r.contradictions = Against(cert, file, anchors)
       /\ r.unevaluable = (IF Ends(cert, file) THEN {"LEDGER_TRUNCATED"} ELSE {})
       /\ r.effectiveTo = Effective(cert, file)
  BY <1>6, <1>16, <1>17, Reports
<1>19. ExitCode(r) = 2 /\ r.effectiveTo = n
  BY <1>12, <1>15, <1>17, <1>18 DEF ExitCode
<1>20. Told(p) = r
  BY <1>1, <1>16 DEF Told
<1> QED BY <1>1, <1>19, <1>20

\* A line that is missing from within the range, or was altered there, contradicts.
LEMMA HoleIsNamed ==
  ASSUME Guarded, NEW p, Asked(p), p.flaw \in {"hole", "rotated"}, p.at \in p.from..p.to, p.at < p.to
  PROVE  Told(p).contradictions # {}
<1>1. PICK cert, file, n : cert = Certificate(p) /\ file = Copy(p) /\ n = p.at
  OBVIOUS
<1>2. /\ p.from \in 1..Len(book) /\ p.to \in p.from..Len(book) /\ n \in p.from..p.to /\ n < p.to
      /\ Len(book) \in Nat /\ n \in 1..Len(book)
  BY <1>1, BookSays DEF Asked
<1>3. /\ cert.dialect = "guardian-core-v1" /\ cert.from = p.from /\ cert.to = p.to
  <2>1. p.flaw \in Honest
    BY DEF Honest, Accidents
  <2> QED BY <1>1, <2>1, HonestDocument
<1>4. /\ \A i \in DOMAIN file : file[i] \in {book[k] : k \in (1..Len(book)) \ {n}}
      /\ \E i \in DOMAIN file : file[i] = book[p.to]
  <2>1. CASE p.flaw = "hole"
    <3>1. p.to \in (1..Len(book)) \ {n}
      BY <1>2
    <3> QED BY <1>1, <2>1, <3>1, HoleCopy
  <2>2. CASE p.flaw = "rotated"
    <3>1. PICK m : m = Len(book) - n
      OBVIOUS
    <3>2. Segment(file, n, m)
      BY <1>1, <2>2, <3>1, RotatedCopy
    <3>3. m \in Nat /\ DOMAIN file = 1..m /\ \A i \in 1..m : file[i] = book[n + i]
      BY <3>2 DEF Segment
    <3>4. \A i \in 1..m : n + i \in (1..Len(book)) \ {n}
      BY <1>2, <3>1
    <3>5. p.to - n \in 1..m /\ n + (p.to - n) = p.to
      BY <1>2, <3>1
    <3> QED BY <3>3, <3>4, <3>5
  <2> QED BY <2>1, <2>2
<1>5. \A k \in 1..Len(book) : book[k].seq = k /\ book[k].dialect = "guardian-core-v1"
  BY BookSays
<1>6. StopCode(cert, file) = "none"
  <2>1. file # <<>>
    BY <1>4
  <2>2. cert.from \in Nat /\ cert.to \in Nat /\ cert.from <= cert.to
    BY <1>2, <1>3
  <2>3. \A i \in DOMAIN file : file[i].dialect = "guardian-core-v1"
    BY <1>4, <1>5
  <2> QED BY <1>3, <2>1, <2>2, <2>3, IsRead
<1>7. n \in Missing(cert, file) /\ p.to \notin Missing(cert, file)
  <2>1. \A e \in ToSet(file) : e.seq # n
    <3> TAKE e \in ToSet(file)
    <3>1. PICK i \in DOMAIN file : e = file[i]
      BY DEF ToSet
    <3> QED BY <1>4, <1>5, <3>1
  <2>2. PICK i \in DOMAIN file : file[i] = book[p.to]
    BY <1>4
  <2>3. p.to \in 1..Len(book)
    BY <1>2
  <2>4. file[i] \in ToSet(file) /\ file[i].seq = p.to
    BY <1>5, <2>2, <2>3 DEF ToSet
  <2> QED BY <1>2, <1>3, <2>1, <2>4, MissingIs
<1>8. ~Ends(cert, file)
  <2>1. PICK M, m : M = Missing(cert, file) /\ m = Min(M)
    OBVIOUS
  <2>2. SUFFICES ASSUME M = m..p.to PROVE FALSE
    BY <1>3, <2>1 DEF Ends, Truncated
  <2>3. n \in M /\ p.to \notin M /\ M \subseteq p.from..p.to
    BY <1>3, <1>7, <2>1 DEF Missing
  <2>4. PICK x \in M : \A y \in M : x <= y
    <3>1. M \subseteq Nat /\ M # {}
      BY <1>2, <2>3
    <3> QED BY <3>1, FiniteMin
  <2>5. m \in M
    BY <2>1, <2>4 DEF Min
  <2>6. m \in p.from..p.to
    BY <2>3, <2>5
  <2>7. p.to \in m..p.to
    BY <1>2, <2>6
  <2> QED BY <2>2, <2>3, <2>7
<1>9. Missing(cert, file) # {} /\ ~Ends(cert, file)
  BY <1>7, <1>8
<1>10. PICK anchors : anchors = Anchors(p)
  OBVIOUS
<1>11. VerifyCertificate(cert, file, anchors, TRUE).contradictions # {}
  BY <1>6, <1>9, Contradicts
<1> QED BY <1>1, <1>10, <1>11 DEF Told

\* A line that was edited is found.
LEMMA AlteredIsNamed ==
  ASSUME Guarded, NEW p, Asked(p), p.flaw = "altered", p.at \in p.from..p.to
  PROVE  Told(p).contradictions # {}
<1>1. PICK cert, file, n : cert = Certificate(p) /\ file = Copy(p) /\ n = p.at
  OBVIOUS
<1>2. /\ p.from \in 1..Len(book) /\ p.to \in p.from..Len(book) /\ n \in p.from..p.to
      /\ Len(book) \in Nat /\ n \in 1..Len(book) /\ DOMAIN book = 1..Len(book)
  BY <1>1, BookSays DEF Asked
<1>3. /\ cert.dialect = "guardian-core-v1" /\ cert.from = p.from /\ cert.to = p.to
  <2>1. p.flaw \in Honest
    BY DEF Honest, Accidents
  <2> QED BY <1>1, <2>1, HonestDocument
<1>4. /\ DOMAIN file = 1..Len(book) /\ file # <<>> /\ file[n].sound = FALSE
      /\ \A i \in 1..Len(book) : file[i].seq = i /\ file[i].dialect = "guardian-core-v1"
  <2>1. file = [book EXCEPT ![n].ev = "PNL_CHECKPOINT", ![n].sound = FALSE]
    BY <1>1 DEF Copy
  <2>2. DOMAIN file = 1..Len(book)
    BY <1>2, <2>1
  <2>3. \A i \in 1..Len(book) : book[i] \in Records /\ book[i].seq = i /\ book[i].dialect = "guardian-core-v1"
    BY BookSays
  <2>4. \A i \in (1..Len(book)) \ {n} : file[i] = book[i]
    BY <1>2, <2>1
  <2>5. PICK e \in Records : e = book[n] /\ e.seq = n /\ e.dialect = "guardian-core-v1"
    BY <1>2, <2>3
  <2>6. file[n] = [e EXCEPT !.ev = "PNL_CHECKPOINT", !.sound = FALSE]
    BY <1>2, <2>1, <2>5
  <2>7. file[n].seq = n /\ file[n].dialect = "guardian-core-v1" /\ file[n].sound = FALSE
    BY <2>5, <2>6 DEF Records
  <2> QED BY <1>2, <2>2, <2>3, <2>4, <2>7
<1>5. StopCode(cert, file) = "none"
  <2>1. cert.from \in Nat /\ cert.to \in Nat /\ cert.from <= cert.to
    BY <1>2, <1>3
  <2> QED BY <1>3, <1>4, <2>1, IsRead
<1>6. ~Intact(cert, file)
  <2> DEFINE rows == Places(file, p.from, p.to)
             earlier(i) == {j \in rows : j < i}
             loose(i) == IF file[i].seq = 1 THEN file[i].prev # Genesis
                         ELSE earlier(i) # {} /\ file[i].prev # file[Max(earlier(i))].hash
             wrong == {i \in rows : loose(i) \/ ~file[i].sound}
  <2>1. n \in rows
    BY <1>2, <1>4 DEF Places
  <2>2. PICK W : W = wrong
    OBVIOUS
  <2>3. n \in W /\ W \subseteq 1..Len(book)
    <3>1. n \in wrong
      BY <1>4, <2>1
    <3>2. rows \subseteq 1..Len(book)
      BY <1>4 DEF Places
    <3> QED BY <2>2, <3>1, <3>2
  <2>4. PICK m \in W : \A x \in W : m <= x
    <3>1. W \subseteq Nat /\ W # {}
      BY <1>2, <2>3
    <3> QED BY <3>1, FiniteMin
  <2>5. Min(W) \in W
    BY <2>4 DEF Min
  <2>6. file[Min(W)].seq # 0
    <3>1. PICK w : w = Min(W)
      OBVIOUS
    <3>2. w \in 1..Len(book)
      BY <2>3, <2>5, <3>1
    <3>3. file[w].seq = w /\ w # 0
      BY <1>2, <1>4, <3>2
    <3> QED BY <3>1, <3>3
  <2>7. wrong # {} /\ rows # {}
    BY <2>1, <2>2, <2>3
  <2>8. ChainBreak(file, p.from, p.to) = file[Min(wrong)].seq
    <3>1. ChainBreak(file, p.from, p.to)
            = IF rows = {} THEN p.from ELSE IF wrong = {} THEN 0 ELSE file[Min(wrong)].seq
      BY DEF ChainBreak
    <3> HIDE DEF rows, wrong
    <3> QED BY <2>7, <3>1
  <2> HIDE DEF wrong
  <2> QED BY <1>3, <2>2, <2>6, <2>8 DEF Intact
<1>7. PICK anchors : anchors = Anchors(p)
  OBVIOUS
<1>8. VerifyCertificate(cert, file, anchors, TRUE).contradictions # {}
  BY <1>5, <1>6, Contradicts
<1> QED BY <1>1, <1>7, <1>8 DEF Told

\* A copy with nothing of the range in it contradicts.
LEMMA EmptyIsNamed ==
  ASSUME Guarded, NEW p, Asked(p), p.flaw \in Accidents, NEW a, NEW m, Segment(Copy(p), a, m),
         m # 0, a + m < p.from \/ a >= p.to
  PROVE  Told(p).contradictions # {}
<1>1. PICK cert, file : cert = Certificate(p) /\ file = Copy(p)
  OBVIOUS
<1>2. /\ p.from \in 1..Len(book) /\ p.to \in p.from..Len(book) /\ Len(book) \in Nat
  BY BookSays DEF Asked
<1>3. /\ cert.dialect = "guardian-core-v1" /\ cert.from = p.from /\ cert.to = p.to
  <2>1. p.flaw \in Honest
    BY DEF Honest
  <2> QED BY <1>1, <2>1, HonestDocument
<1>4. /\ a \in Nat /\ m \in Nat /\ a + m <= Len(book) /\ DOMAIN file = 1..m
      /\ \A i \in 1..m : file[i] = book[a + i]
  BY <1>1 DEF Segment
<1>5. \A k \in 1..Len(book) : book[k].seq = k /\ book[k].dialect = "guardian-core-v1"
  BY BookSays
<1>6. \A i \in 1..m : a + i \in 1..Len(book) /\ a + i \notin p.from..p.to
  BY <1>2, <1>4
<1>7. \A i \in 1..m : file[i].seq \notin p.from..p.to /\ file[i].dialect = "guardian-core-v1"
  <2> TAKE i \in 1..m
  <2>1. PICK k : k = a + i
    OBVIOUS
  <2>2. k \in 1..Len(book) /\ k \notin p.from..p.to /\ file[i] = book[k]
    BY <1>4, <1>6, <2>1
  <2>3. PICK e : e = book[k]
    OBVIOUS
  <2>4. e.seq = k /\ e.dialect = "guardian-core-v1"
    BY <1>5, <2>2, <2>3
  <2> QED BY <2>2, <2>3, <2>4
<1>8. StopCode(cert, file) = "none"
  <2>1. file # <<>>
    <3>1. 1 \in 1..m
      BY <1>4
    <3> QED BY <1>4, <3>1
  <2>2. cert.from \in Nat /\ cert.to \in Nat /\ cert.from <= cert.to
    BY <1>2, <1>3
  <2> QED BY <1>3, <1>4, <1>7, <2>1, <2>2, IsRead
<1>9. ~Intact(cert, file)
  <2>1. Places(file, p.from, p.to) = {}
    BY <1>4, <1>7 DEF Places
  <2>2. ChainBreak(file, p.from, p.to) = p.from
    BY <2>1 DEF ChainBreak
  <2>3. p.from # 0
    BY <1>2
  <2> QED BY <1>3, <2>2, <2>3 DEF Intact
<1>10. PICK anchors : anchors = Anchors(p)
  OBVIOUS
<1>11. VerifyCertificate(cert, file, anchors, TRUE).contradictions # {}
  BY <1>8, <1>9, Contradicts
<1> QED BY <1>1, <1>10, <1>11 DEF Told

\* So does a copy that was cut before the range, and what a rotation left of what comes after it.
LEMMA GoneIsNamed ==
  ASSUME Guarded, NEW p, Asked(p),
         \/ p.flaw = "short" /\ p.at < p.from
         \/ p.flaw = "rotated" /\ p.at \in p.to..(Len(book) - 1)
  PROVE  Told(p).contradictions # {}
<1>1. p.flaw \in Accidents
  BY DEF Accidents
<1>2. PICK n, L : n = p.at /\ L = Len(book)
  OBVIOUS
<1>3. L \in Nat /\ p.from \in 1..L /\ p.to \in p.from..L
  BY <1>2, BookSays DEF Asked
<1>4. CASE p.flaw = "short" /\ p.at < p.from
  <2>1. n \in 1..L /\ Segment(Copy(p), 0, n)
    BY <1>2, <1>4, ShortCopy
  <2>2. n # 0 /\ 0 + n < p.from
    BY <1>2, <1>3, <1>4, <2>1
  <2> QED BY <1>1, <2>1, <2>2, EmptyIsNamed
<1>5. CASE p.flaw = "rotated" /\ p.at \in p.to..(Len(book) - 1)
  <2>1. PICK m : m = L - n
    OBVIOUS
  <2>2. Segment(Copy(p), n, m)
    BY <1>2, <1>5, <2>1, RotatedCopy
  <2>3. n >= p.to /\ m # 0
    BY <1>2, <1>3, <1>5, <2>1
  <2> QED BY <1>1, <2>2, <2>3, EmptyIsNamed
<1> QED BY <1>4, <1>5

\* The same answer, as one statement about it.
Charges(r, cert, code) ==
  /\ r.contradictions = HashCodes(cert) \cup (IF code \in {"DIALECT_MISSING", "RANGE_MISSING"} THEN {code} ELSE {})
  /\ r.unevaluable = {code} \ {"DIALECT_MISSING", "RANGE_MISSING"}

\* It is what is answered where the check stops.
LEMMA StopsWith ==
  ASSUME NEW cert, NEW file, NEW anchors, NEW code, code = StopCode(cert, file), code # "none",
         NEW r, r = VerifyCertificate(cert, file, anchors, TRUE)
  PROVE  Charges(r, cert, code)
BY DEF VerifyCertificate, Stopped, Charges

\* A number of a range that begins at one is not zero.
LEMMA NumbersBeginAtOne ==
  ASSUME NEW L \in Nat, NEW n \in 1..L
  PROVE  n # 0
OBVIOUS

\* A file of another dialect, a certificate of one to come or none at all, and an empty file are
\* not evaluated.
LEMMA AlienIsNamed ==
  ASSUME Guarded, NEW p, Asked(p),
         \/ p.flaw \in {"alien line", "future dialect", "not an object"}
         \/ p.flaw = "rotated" /\ p.at = Len(book)
  PROVE  ExitCode(Told(p)) = 2
<1>1. PICK cert, file, anchors : cert = Certificate(p) /\ file = Copy(p) /\ anchors = Anchors(p)
  OBVIOUS
<1>2. HashCodes(cert) = {}
  BY <1>1, CertificateFields DEF HashCodes
<1>3. PICK code : code = StopCode(cert, file)
  OBVIOUS
<1>4. code \in {"DIALECT_UNKNOWN", "DIALECT_MISMATCH", "CERT_MALFORMED"}
  <2>1. CASE p.flaw = "future dialect"
    <3>1. cert.dialect = "v9"
      BY <1>1, <2>1, CertificateFields
    <3> QED BY <1>3, <3>1 DEF StopCode, Dialects
  <2>2. CASE p.flaw = "alien line"
    <3>1. cert.dialect = "guardian-core-v1"
      BY <1>1, <2>2, CertificateFields
    <3>9. PICK L \in Nat : L = Len(book)
      BY BookSays
    <3>2. PICK n : n \in 1..L /\ n = p.at
      BY <2>2, <3>9, BookSays DEF Asked, Accidents
    <3>3. n # 0 /\ file = [book EXCEPT ![n].dialect = "deadman-kit-v1"]
      <4>1. file = [book EXCEPT ![IF p.at = 0 THEN 1 ELSE p.at].dialect = "deadman-kit-v1"]
        BY <1>1, <2>2 DEF Copy
      <4>3. n # 0
        BY <3>2, NumbersBeginAtOne, Zenon
      <4>4. (IF p.at = 0 THEN 1 ELSE p.at) = n
        BY <3>2, <4>3
      <4> QED BY <4>1, <4>3, <4>4
    <3>4. PICK e \in Records : e = book[n]
      BY <3>2, <3>9, BookSays
    <3>5. n \in DOMAIN file /\ file[n] = [e EXCEPT !.dialect = "deadman-kit-v1"]
      BY <3>2, <3>9, <3>3, <3>4, BookSays
    <3>6. file[n].dialect = "deadman-kit-v1"
      BY <3>4, <3>5 DEF Records
    <3> QED BY <1>3, <3>1, <3>5, <3>6 DEF StopCode, DialectMismatch, Dialects
  <2>3. CASE p.flaw = "not an object"
    <3>1. cert.dialect = "not an object"
      BY <1>1, <2>3, CertificateFields
    <3> QED BY <1>3, <3>1 DEF StopCode
  <2>4. CASE p.flaw = "rotated" /\ p.at = Len(book)
    <3>1. cert.dialect = "guardian-core-v1"
      BY <1>1, <2>4, CertificateFields
    <3>2. PICK m : m = Len(book) - p.at
      OBVIOUS
    <3>3. Segment(file, p.at, m)
      BY <1>1, <2>4, <3>2, RotatedCopy
    <3>4. m = 0
      <4>1. PICK L \in Nat : L = Len(book)
        BY BookSays
      <4>2. m \in Nat /\ p.at + m <= Len(book)
        BY <3>3 DEF Segment
      <4>3. L + m <= L
        BY <2>4, <4>1, <4>2
      <4>4. m \in Nat
        BY <4>2
      <4> QED BY <4>3, <4>4, NothingAdded, Zenon
    <3>5. file = <<>>
      <4>1. Len(file) = 0 /\ file \in Seq(Records)
        BY <3>3, <3>4 DEF Segment
      <4>2. 0 \notin Nat \ {0}
        OBVIOUS
      <4> QED BY <4>1, <4>2, EmptySeq, Zenon
    <3> QED BY <1>3, <3>1, <3>5 DEF StopCode, DialectMismatch, Dialects
  <2> QED BY <2>1, <2>2, <2>3, <2>4
<1>5. PICK r : r = VerifyCertificate(cert, file, anchors, TRUE)
  OBVIOUS
<1>6. r.contradictions = {} /\ r.unevaluable = {code}
  <2>1. code # "none" /\ code \notin {"DIALECT_MISSING", "RANGE_MISSING"}
    BY <1>4
  <2>2. /\ r.contradictions = HashCodes(cert) \cup (IF code \in {"DIALECT_MISSING", "RANGE_MISSING"} THEN {code} ELSE {})
        /\ r.unevaluable = {code} \ {"DIALECT_MISSING", "RANGE_MISSING"}
    <3>1. Charges(r, cert, code)
      BY <1>3, <1>5, <2>1, StopsWith, Zenon
    <3> QED BY <3>1 DEF Charges
  <2> QED BY <1>2, <2>1, <2>2
<1>7. ExitCode(r) = 2
  BY <1>6 DEF ExitCode
<1> QED BY <1>1, <1>5, <1>7 DEF Told

\* Damage is named, for every ledger a guardian may write, every range and every place of it: a cut
\* within the range is not charged, one before it is; what cannot be parsed is not evaluated,
\* whatever else is wrong.
THEOREM WhatIsDamagedIsNamed == Spec => []DamageIsNamed
<1>1. Guarded /\ Judgement => DamageIsNamed
  <2> SUFFICES ASSUME Guarded, Judgement, IsShown PROVE DamageIsNamed
    BY DEF DamageIsNamed
  <2>1. PICK p : p = shown
    OBVIOUS
  <2>2. Asked(p) /\ exit = Answer(p) /\ report = Told(p)
    BY <2>1 DEF Judgement
  <2>3. WholeSession <=> Whole(p)
    BY <2>1 DEF WholeSession, Whole, DayOf
  <2>4. ASSUME p.flaw = "short", p.at \in p.from..(p.to - 1), WholeSession, p.anchor <= p.at, p.lost = 0
        PROVE  exit = 2 /\ report.effectiveTo = p.at
    <3>1. ExitCode(Told(p)) = 2 /\ Told(p).effectiveTo = p.at
      BY <2>2, <2>3, <2>4, ShortIsNamed
    <3>2. p.flaw \notin Unreadable
      BY <2>4 DEF Unreadable
    <3>3. Answer(p) = ExitCode(Told(p))
      BY <2>2, <2>4, <3>2, AnswersWhole
    <3> QED BY <2>2, <3>1, <3>3
  <2>5. ASSUME \/ p.flaw = "altered" /\ p.at \in p.from..p.to
               \/ p.flaw = "hole" /\ p.at \in p.from..(p.to - 1)
               \/ p.flaw = "rotated" /\ p.at \in p.from..(Len(book) - 1)
               \/ p.flaw = "short" /\ p.at < p.from
        PROVE  exit = 1
    <3>1. PICK n, L : n = p.at /\ L = Len(book)
      OBVIOUS
    <3>2. L \in Nat /\ p.from \in 1..L /\ p.to \in p.from..L
      BY <2>2, <3>1, BookSays DEF Asked
    <3>3. Told(p).contradictions # {}
      <4>1. CASE p.flaw = "altered" /\ p.at \in p.from..p.to
        BY <2>2, <4>1, AlteredIsNamed
      <4>2. CASE p.flaw = "hole" /\ p.at \in p.from..(p.to - 1)
        <5>1. p.at \in p.from..p.to /\ p.at < p.to
          BY <3>2, <4>2
        <5> QED BY <2>2, <4>2, <5>1, HoleIsNamed
      <4>3. CASE p.flaw = "rotated" /\ p.at \in p.from..(Len(book) - 1)
        <5>1. (n \in p.from..p.to /\ n < p.to) \/ n \in p.to..(L - 1)
          BY <3>1, <3>2, <4>3
        <5> QED BY <2>2, <3>1, <4>3, <5>1, HoleIsNamed, GoneIsNamed
      <4>4. CASE p.flaw = "short" /\ p.at < p.from
        BY <2>2, <4>4, GoneIsNamed
      <4> QED BY <2>5, <4>1, <4>2, <4>3, <4>4
    <3>4. p.flaw \notin Unreadable
      BY <2>5 DEF Unreadable
    <3> QED BY <2>2, <3>3, <3>4, Answers
  <2>6. ASSUME \/ p.flaw \in {"alien line", "future dialect", "not an object"} \cup Unreadable
               \/ p.flaw = "rotated" /\ p.at = Len(book),
               p.lost = 0
        PROVE  exit = 2
    <3>1. CASE p.flaw \in Unreadable
      BY <2>2, <2>6, <3>1, Answers, LinksSay
    <3>2. CASE p.flaw \notin Unreadable
      <4>1. ExitCode(Told(p)) = 2
        BY <2>2, <2>6, <3>2, AlienIsNamed
      <4> QED BY <2>2, <2>6, <3>2, <4>1, AnswersWhole
    <3> QED BY <3>1, <3>2
  <2> QED BY <2>1, <2>4, <2>5, <2>6 DEF DamageIsNamed, InRange
<1> QED BY <1>1, LedgerIsTold, PTL

-----------------------------------------------------------------------------
(* The rows of a range *)

\* The k-th of the numbers from x to y.
LEMMA KthOf ==
  ASSUME NEW x \in Nat, NEW y \in Nat, NEW k \in 1..(y - x + 1)
  PROVE  (CHOOSE i \in x..y : Cardinality({j \in x..y : j < i}) = k - 1) = x + k - 1
<1>1. \A i \in x..y : Cardinality({j \in x..y : j < i}) = i - x
  <2> TAKE i \in x..y
  <2>1. {j \in x..y : j < i} = x..(i - 1)
    OBVIOUS
  <2>2. Cardinality(x..(i - 1)) = i - x
    <3>1. x \in Int /\ i - 1 \in Int
      OBVIOUS
    <3>2. Cardinality(x..(i - 1)) = IF x > i - 1 THEN 0 ELSE (i - 1) - x + 1
      BY <3>1, FS_Interval
    <3>3. PICK c : c = Cardinality(x..(i - 1))
      OBVIOUS
    <3> QED BY <3>2
  <2> QED BY <2>1, <2>2
<1>2. PICK z : z = x + k - 1
  OBVIOUS
<1>3. z \in x..y /\ z - x = k - 1
  BY <1>2
<1>4. \A i \in x..y : Cardinality({j \in x..y : j < i}) = k - 1 <=> i = z
  BY <1>1, <1>2
<1> QED BY <1>2, <1>3, <1>4

\* The entries that a copy has of a range: a stretch of the book.
Stretch(rows, b, n) ==
  /\ b \in Nat /\ n \in Nat /\ b + n <= Len(book)
  /\ rows = [k \in 1..n |-> book[b + k]]
\* The rows of a range are the stretch of the book that the copy has of it.
LEMMA RowsAre ==
  ASSUME Guarded, NEW f, NEW a, NEW m, Segment(f, a, m), NEW from, NEW to,
         NEW x \in 1..(m + 1), NEW y \in (x - 1)..m,
         \A i \in 1..m : a + i \in from..to <=> i \in x..y
  PROVE  Stretch(EventsInRange(f, from, to), a + x - 1, y - x + 1)
<1>1. /\ a \in Nat /\ m \in Nat /\ DOMAIN f = 1..m /\ \A i \in 1..m : f[i].seq = a + i /\ f[i] = book[a + i]
      /\ a + m <= Len(book) /\ Len(book) \in Nat
  <2>1. Copied(f, a, m)
    BY SegmentSays
  <2> QED BY <2>1, BookSays DEF Copied
<1>2. PICK P : P = Places(f, from, to)
  OBVIOUS
<1>3. P = x..y
  <2>1. \A i : i \in P <=> i \in 1..m /\ a + i \in from..to
    BY <1>1, <1>2 DEF Places
  <2>2. \A i : i \in x..y => i \in 1..m
    BY <1>1
  <2> QED BY <2>1, <2>2
<1>4. PICK n \in Nat : n = y - x + 1
  BY <1>1
<1>5. Cardinality(P) = n
  <2>1. x \in Int /\ y \in Int
    BY <1>1
  <2>2. Cardinality(x..y) = IF x > y THEN 0 ELSE y - x + 1
    BY <2>1, FS_Interval
  <2> QED BY <1>1, <1>3, <1>4, <2>1, <2>2
<1> DEFINE before(i, j) == f[i].seq < f[j].seq \/ (f[i].seq = f[j].seq /\ i < j)
           kth(k) == CHOOSE i \in P : Cardinality({j \in P : before(j, i)}) = k - 1
<1>6. PICK s : s = [k \in 1..Cardinality(P) |-> kth(k)]
  OBVIOUS
<1>6a. EventsInRange(f, from, to) = [k \in DOMAIN s |-> f[s[k]]]
  BY <1>2, <1>6 DEF EventsInRange, Ranked
<1>6b. \A i, j \in P : before(i, j) <=> i < j
  BY <1>1, <1>3
<1>6c. ASSUME NEW k \in 1..n PROVE kth(k) = x + k - 1
  <2>1. x \in Nat /\ y \in Nat /\ k \in 1..(y - x + 1)
    BY <1>1, <1>4
  <2> DEFINE mine == CHOOSE i \in x..y : Cardinality({j \in x..y : j < i}) = k - 1
  <2>2. mine = x + k - 1
    BY <2>1, KthOf
  <2>3. kth(k) = mine
    <3> HIDE DEF before
    <3>1. \A i \in P : {j \in P : before(j, i)} = {j \in x..y : j < i}
      BY <1>3, <1>6b
    <3>2. \A i : (i \in P /\ Cardinality({j \in P : before(j, i)}) = k - 1)
                 <=> (i \in x..y /\ Cardinality({j \in x..y : j < i}) = k - 1)
      BY <1>3, <3>1
    <3> QED BY <3>2
  <2> HIDE DEF mine, kth
  <2> QED BY <2>2, <2>3
<1> HIDE DEF kth
<1>7. DOMAIN s = 1..n /\ \A k \in 1..n : s[k] = x + k - 1 /\ s[k] \in 1..m
  <2>1. DOMAIN s = 1..n /\ \A k \in 1..n : s[k] = kth(k)
    BY <1>5, <1>6
  <2>2. \A k \in 1..n : x + k - 1 \in 1..m
    BY <1>1, <1>4
  <2> QED BY <1>6c, <2>1, <2>2
<1>8. EventsInRange(f, from, to) = [k \in 1..n |-> f[s[k]]]
  BY <1>6a, <1>7
<1>9. PICK b \in Nat : b = a + x - 1
  BY <1>1
<1>10. \A k \in 1..n : f[s[k]] = book[b + k]
  <2> TAKE k \in 1..n
  <2>1. a + s[k] = b + k
    BY <1>1, <1>7, <1>9
  <2> QED BY <1>1, <1>7, <2>1
<1>11. b + n <= Len(book)
  BY <1>1, <1>4, <1>9
<1> QED BY <1>4, <1>8, <1>9, <1>10, <1>11 DEF Stretch

-----------------------------------------------------------------------------
(* The watch over a seal, entry by entry *)

\* What the loop keeps has its fields, and counts.
Watch ==
  [armed : BOOLEAN, stop : Int, since : Int, seen : Int, restarts : Nat, unclean : Nat,
   indeterminate : Nat, covered : Int, gaps : Seq(Int)]

\* after is the loop over the first L of the rows.
Watches(after, file, rows, L) ==
  after = [n \in 0..L |-> IF n = 0 THEN NothingSeen ELSE ContinuityStep(file, after[n - 1], rows[n])]

\* There is such a loop.
LEMMA WatchExists ==
  ASSUME NEW file, NEW rows
  PROVE  \A n \in Nat : \E after : Watches(after, file, rows, n)
<1> DEFINE P == {n \in Nat : \E w : Watches(w, file, rows, n)}
<1>1. 0 \in P
  <2>1. PICK w : w = [k \in 0..0 |-> NothingSeen]
    OBVIOUS
  <2>2. Watches(w, file, rows, 0)
    BY <2>1 DEF Watches
  <2> QED BY <2>2
<1>2. ASSUME NEW n \in Nat, n \in P PROVE n + 1 \in P
  <2>1. PICK w : Watches(w, file, rows, n)
    BY <1>2
  <2>2. PICK v : v = [k \in 0..n + 1 |-> IF k = 0 THEN NothingSeen ELSE ContinuityStep(file, w[k - 1], rows[k])]
    OBVIOUS
  <2>3. \A k \in 0..n : v[k] = w[k]
    BY <2>1, <2>2 DEF Watches
  <2>4. \A k \in 0..n + 1 : k # 0 => k - 1 \in 0..n
    OBVIOUS
  <2>5. \A k \in 0..n + 1 : v[k] = IF k = 0 THEN NothingSeen ELSE ContinuityStep(file, v[k - 1], rows[k])
    BY <2>2, <2>3, <2>4
  <2>6. Watches(v, file, rows, n + 1)
    BY <2>2, <2>5 DEF Watches
  <2>7. \E u : Watches(u, file, rows, n + 1)
    BY <2>6
  <2>8. n + 1 \in Nat
    OBVIOUS
  <2> QED BY <2>7, <2>8
<1>3. Nat \subseteq P
  <2> HIDE DEF P
  <2> QED BY <1>1, <1>2, NatSetInduction
<1> QED BY <1>3

\* The step before: it begins with nothing, and goes on entry by entry.
LEMMA WatchRuns ==
  ASSUME NEW file, NEW rows, NEW n \in Nat, NEW after, Watches(after, file, rows, n)
  PROVE  /\ after[0] = NothingSeen
         /\ \A k \in 0..(n - 1) : after[k + 1] = ContinuityStep(file, after[k], rows[k + 1])
<1>1. after[0] = NothingSeen
  BY DEF Watches
<1>2. ASSUME NEW k \in 0..(n - 1) PROVE after[k + 1] = ContinuityStep(file, after[k], rows[k + 1])
  <2>1. k + 1 \in 0..n /\ k + 1 # 0 /\ k + 1 - 1 = k
    OBVIOUS
  <2>2. after[k + 1] = ContinuityStep(file, after[k + 1 - 1], rows[k + 1])
    BY <2>1 DEF Watches
  <2> QED BY <2>1, <2>2
<1> QED BY <1>1, <1>2

\* Continuity is read from the end of such a loop over the entries of the range.
Concludes(c, file, from, to, rows, L, after) ==
  /\ rows = EventsInRange(file, from, to) /\ L = Len(rows) /\ Watches(after, file, rows, L)
  /\ c = NoContinuity \/ (c.supported /\ c.unclean = after[L].unclean)
\* There is such a loop behind what continuity says.
LEMMA ContinuityConcludes ==
  ASSUME NEW file, NEW dialect, NEW from, NEW to, NEW rows, rows = EventsInRange(file, from, to),
         NEW L \in Nat, L = Len(rows), NEW c, c = Continuity(file, dialect, from, to)
  PROVE  \E after : Concludes(c, file, from, to, rows, L, after)
<1> DEFINE after == CHOOSE f : f = [n \in 0..Len(rows) |-> IF n = 0 THEN NothingSeen
                                                       ELSE ContinuityStep(file, f[n - 1], rows[n])]
<1>1. Watches(after, file, rows, L)
  <2>1. \E f : Watches(f, file, rows, Len(rows))
    BY WatchExists
  <2> QED BY <2>1 DEF Watches
<1>2. c = NoContinuity \/ (c.supported /\ c.unclean = after[L].unclean)
  BY DEF Continuity
<1> HIDE DEF after
<1>3. Concludes(c, file, from, to, rows, L, after)
  BY <1>1, <1>2 DEF Concludes
<1> QED BY <1>3

\* What one entry changes.
LEMMA WatchStep ==
  ASSUME NEW file, NEW acc \in Watch, NEW e \in Records, NEW next, next = ContinuityStep(file, acc, e)
  PROVE  /\ next \in Watch
         /\ next.armed = (acc.armed \/ e.ev = "SEAL_CREATED")
         /\ next.unclean = acc.unclean \/ (/\ next.unclean = acc.unclean + 1
                                           /\ e.ev = "GUARDIAN_STARTED" /\ acc.armed
                                           /\ PrecededByCleanStop(file, e) = "no")
<1>1. /\ acc.armed \in BOOLEAN /\ acc.stop \in Int /\ acc.since \in Int /\ acc.seen \in Int
      /\ acc.restarts \in Nat /\ acc.unclean \in Nat /\ acc.indeterminate \in Nat /\ acc.covered \in Int
      /\ acc.gaps \in Seq(Int) /\ e.ts \in Int /\ Unknown \in Int
  BY DEF Watch, Records, Unknown
<1>2. CASE e.ev = "SEAL_CREATED"
  <2>1. next = [acc EXCEPT !.since = e.ts, !.armed = TRUE, !.seen = e.ts]
    BY <1>2 DEF ContinuityStep
  <2> QED BY <1>1, <1>2, <2>1 DEF Watch
<1>3. CASE e.ev = "GUARDIAN_STOPPED"
  <2>1. PICK c \in Int : c = IF acc.since = Unknown THEN 0 ELSE e.ts - acc.since
    BY <1>1
  <2>2. next = [acc EXCEPT !.stop = e.ts, !.since = Unknown, !.seen = e.ts, !.covered = acc.covered + c]
    BY <1>3, <2>1 DEF ContinuityStep
  <2>3. acc.covered + c \in Int
    BY <1>1
  <2> QED BY <1>1, <1>3, <2>2, <2>3 DEF Watch
<1>4. CASE e.ev = "GUARDIAN_STARTED" /\ ~acc.armed
  <2>1. PICK c \in {0, 1} : c = IF /\ ~AnySealBefore(file, e) /\ PrecededByCleanStop(file, e) = "unknown"
                                   /\ ~e.fresh THEN 1 ELSE 0
    OBVIOUS
  <2>2. next = [acc EXCEPT !.indeterminate = acc.indeterminate + c, !.seen = e.ts]
    BY <1>4, <2>1 DEF ContinuityStep, Start
  <2>3. acc.indeterminate + c \in Nat
    BY <1>1
  <2> QED BY <1>1, <1>4, <2>2, <2>3 DEF Watch
<1>5. CASE e.ev = "GUARDIAN_STARTED" /\ acc.armed /\ acc.stop # Unknown
  <2>1. next = [[acc EXCEPT !.restarts = acc.restarts + 1, !.seen = e.ts]
                  EXCEPT !.gaps = Append(acc.gaps, e.ts - acc.stop), !.stop = Unknown]
    BY <1>5 DEF ContinuityStep, Start, Watch
  <2>2. acc.restarts + 1 \in Nat /\ Append(acc.gaps, e.ts - acc.stop) \in Seq(Int)
    <3>1. acc.restarts + 1 \in Nat /\ e.ts - acc.stop \in Int /\ acc.gaps \in Seq(Int)
      BY <1>1 DEF Watch
    <3>2. \A s, x : s \in Seq(Int) /\ x \in Int => Append(s, x) \in Seq(Int)
      OBVIOUS
    <3> QED BY <3>1, <3>2, Zenon
  <2> QED BY <1>1, <1>5, <2>1, <2>2 DEF Watch
<1>6. CASE e.ev = "GUARDIAN_STARTED" /\ acc.armed /\ acc.stop = Unknown
  <2>1. PICK i \in {0, 1} : i = IF PrecededByCleanStop(file, e) = "unknown" THEN 1 ELSE 0
    OBVIOUS
  <2>2. PICK u \in {0, 1} : u = IF PrecededByCleanStop(file, e) = "no" THEN 1 ELSE 0
    OBVIOUS
  <2>3. PICK c \in Int : c = IF acc.since = Unknown THEN 0 ELSE acc.seen - acc.since
    BY <1>1
  <2>4. next = [acc EXCEPT !.restarts = acc.restarts + 1, !.seen = e.ts, !.indeterminate = acc.indeterminate + i,
                           !.unclean = acc.unclean + u, !.covered = acc.covered + c, !.since = Unknown]
    BY <1>6, <2>1, <2>2, <2>3 DEF ContinuityStep, Start, Watch
  <2>5. /\ acc.restarts + 1 \in Nat /\ acc.indeterminate + i \in Nat /\ acc.unclean + u \in Nat
        /\ acc.covered + c \in Int
    BY <1>1
  <2>6. next \in Watch /\ next.armed = acc.armed /\ next.unclean = acc.unclean + u
    BY <1>1, <2>4, <2>5 DEF Watch
  <2>7. u = 0 \/ (u = 1 /\ PrecededByCleanStop(file, e) = "no")
    BY <2>2
  <2>8. next.armed = (acc.armed \/ e.ev = "SEAL_CREATED")
    BY <1>6, <2>6
  <2>9. acc.unclean + 0 = acc.unclean
    BY <1>1
  <2>10. CASE u = 0
    BY <2>6, <2>8, <2>9, <2>10
  <2>11. CASE u = 1 /\ PrecededByCleanStop(file, e) = "no"
    BY <1>6, <2>6, <2>8, <2>11
  <2> QED BY <2>7, <2>10, <2>11
<1>7. CASE e.ev \notin {"SEAL_CREATED", "GUARDIAN_STOPPED", "GUARDIAN_STARTED"}
  <2>1. next = [acc EXCEPT !.seen = e.ts]
    BY <1>7 DEF ContinuityStep
  <2> QED BY <1>1, <1>7, <2>1 DEF Watch
<1> QED BY <1>1, <1>2, <1>3, <1>4, <1>5, <1>6, <1>7

-----------------------------------------------------------------------------
(* Only crashes are charged *)

\* A start that a segment of the ledger shows after something else than a shutdown is a crash.
LEMMA UncleanIsCrash ==
  ASSUME Guarded, NEW f, NEW a, NEW m, Segment(f, a, m), NEW n \in 1..Len(book),
         book[n].ev = "GUARDIAN_STARTED", n \in (a + 1)..(a + m), PrecededByCleanStop(f, book[n]) = "no"
  PROVE  n \in crashed
<1>1. /\ a \in Nat /\ m \in Nat /\ a + m <= Len(book) /\ Len(book) \in Nat
      /\ \A e : e \in ToSet(f) <=> \E k \in (a + 1)..(a + m) : e = book[k]
  <2>1. Copied(f, a, m)
    BY SegmentSays
  <2> QED BY <2>1, BookSays DEF Copied
<1>2. \A k \in 1..Len(book) : book[k].seq = k
  BY BookSays
<1> DEFINE earlier == {e \in ToSet(f) : e.seq < book[n].seq}
           last == CHOOSE e \in earlier : \A d \in earlier : d.seq <= e.seq
<1>3. \A e : e \in earlier <=> \E k \in (a + 1)..(n - 1) : e = book[k]
  <2> TAKE e
  <2>1. \A k \in (a + 1)..(a + m) : k \in 1..Len(book) /\ book[k].seq = k
    BY <1>1, <1>2
  <2>2. book[n].seq = n
    BY <1>2
  <2>3. e \in earlier => \E k \in (a + 1)..(n - 1) : e = book[k]
    <3> SUFFICES ASSUME e \in earlier PROVE \E k \in (a + 1)..(n - 1) : e = book[k]
      OBVIOUS
    <3>1. PICK k \in (a + 1)..(a + m) : e = book[k]
      BY <1>1
    <3>2. k < n
      BY <2>1, <2>2, <3>1
    <3>3. k \in (a + 1)..(n - 1)
      BY <1>1, <3>2
    <3> QED BY <3>1, <3>3
  <2>4. ASSUME NEW k \in (a + 1)..(n - 1), e = book[k] PROVE e \in earlier
    <3>1. k \in (a + 1)..(a + m) /\ k < n
      BY <1>1
    <3> QED BY <1>1, <2>1, <2>2, <2>4, <3>1
  <2> QED BY <2>3, <2>4
<1>4. earlier # {} /\ last.ev # "GUARDIAN_STOPPED"
  BY DEF PrecededByCleanStop
<1>5. PICK k \in (a + 1)..(n - 1) : TRUE
  BY <1>3, <1>4
<1>6. n - 1 \in (a + 1)..(n - 1) /\ n > 1
  BY <1>1, <1>5
<1>7. last = book[n - 1]
  <2>1. \A j \in (a + 1)..(n - 1) : j \in 1..Len(book) /\ book[j].seq = j
    BY <1>1, <1>2
  <2>2. book[n - 1] \in earlier
    BY <1>3, <1>6
  <2>3. \A d \in earlier : d.seq <= book[n - 1].seq
    BY <1>3, <1>6, <2>1
  <2>4. last \in earlier /\ \A d \in earlier : d.seq <= last.seq
    <3> HIDE DEF earlier
    <3> QED BY <2>2, <2>3
  <2>5. PICK j \in (a + 1)..(n - 1) : last = book[j]
    <3> HIDE DEF last, earlier
    <3> QED BY <1>3, <2>4
  <2>6. n - 1 <= j
    <3> HIDE DEF last, earlier
    <3> QED BY <1>6, <2>1, <2>2, <2>4, <2>5
  <2>7. j = n - 1
    BY <1>1, <2>6
  <2> QED BY <2>5, <2>7
<1>8. book[n - 1].ev # "GUARDIAN_STOPPED"
  BY <1>4, <1>7
<1>9. n \in DOMAIN book
  BY BookSays
<1> QED BY <1>6, <1>8, <1>9 DEF Guarded, StartsTold

\* The crashes of a range that follow a seal of it.
UnderSeal(from, to) ==
  {i \in crashed : i \in from..to /\ \E s \in {t \in seals : t.seq \in from..to} : s.seq < i}

\* What the loop has found by the n-th entry of the range.
Found(acc, from, to, b, n) ==
  /\ acc \in Watch
  /\ acc.armed => \E k \in 1..n : book[b + k].ev = "SEAL_CREATED"
  /\ \E U : U \subseteq UnderSeal(from, to) /\ IsFiniteSet(U) /\ acc.unclean = Cardinality(U)
            /\ \A i \in U : i <= b + n

\* What the loop has found, after one more entry.
LEMMA FoundStep ==
  ASSUME Guarded, NEW f, NEW a, NEW m, Segment(f, a, m), NEW from \in Nat, NEW to \in Nat,
         NEW b \in Nat, NEW n \in Nat, from <= b + 1, b + n + 1 <= to, a <= b, b + n + 1 <= a + m,
         NEW acc, Found(acc, from, to, b, n),
         NEW next, next = ContinuityStep(f, acc, book[b + n + 1])
  PROVE  Found(next, from, to, b, n + 1)
<1>1. a \in Nat /\ m \in Nat /\ a + m <= Len(book) /\ Len(book) \in Nat
  BY BookSays DEF Segment
<1>2. PICK q \in 1..Len(book) : q = b + n + 1
  BY <1>1
<1>3. PICK e \in Records : e = book[q] /\ e.seq = q
  BY BookSays
<1>4. PICK U : /\ U \subseteq UnderSeal(from, to) /\ IsFiniteSet(U) /\ acc.unclean = Cardinality(U)
               /\ \A i \in U : i <= b + n
  BY DEF Found
<1>5. acc \in Watch /\ next = ContinuityStep(f, acc, e)
  BY <1>2, <1>3 DEF Found
<1>6. /\ next \in Watch
      /\ next.armed = (acc.armed \/ e.ev = "SEAL_CREATED")
      /\ next.unclean = acc.unclean \/ (/\ next.unclean = acc.unclean + 1
                                        /\ e.ev = "GUARDIAN_STARTED" /\ acc.armed
                                        /\ PrecededByCleanStop(f, e) = "no")
  BY <1>5, WatchStep
<1>7. next.armed => \E k \in 1..(n + 1) : book[b + k].ev = "SEAL_CREATED"
  <2>1. CASE acc.armed
    <3>1. PICK k \in 1..n : book[b + k].ev = "SEAL_CREATED"
      BY <2>1 DEF Found
    <3>2. k \in 1..(n + 1)
      OBVIOUS
    <3> QED BY <3>1, <3>2
  <2>2. CASE e.ev = "SEAL_CREATED"
    <3>1. n + 1 \in 1..(n + 1) /\ b + (n + 1) = q
      BY <1>2
    <3> QED BY <1>3, <2>2, <3>1
  <2> QED BY <1>6, <2>1, <2>2
<1>8. CASE next.unclean = acc.unclean
  <2>1. \A i \in U : i <= b + (n + 1)
    <3>1. \A i \in U : i \in from..to
      BY <1>4 DEF UnderSeal
    <3> QED BY <1>4, <3>1
  <2> QED BY <1>4, <1>6, <1>7, <1>8, <2>1 DEF Found
<1>9. CASE /\ next.unclean = acc.unclean + 1
           /\ e.ev = "GUARDIAN_STARTED" /\ acc.armed
           /\ PrecededByCleanStop(f, e) = "no"
  <2>1. q \in crashed
    <3>1. q \in (a + 1)..(a + m)
      BY <1>1, <1>2
    <3> QED BY <1>3, <1>9, <3>1, UncleanIsCrash
  <2>2. PICK k \in 1..n : book[b + k].ev = "SEAL_CREATED"
    BY <1>9 DEF Found
  <2>3. PICK j : j = b + k /\ j \in DOMAIN book /\ j \in from..to /\ j < q
    BY <1>1, <1>2, BookSays
  <2>4. PICK s \in seals : s.seq = j
    BY <2>2, <2>3 DEF Guarded, SealsTold
  <2>5. q \in UnderSeal(from, to)
    <3>1. q \in from..to
      BY <1>2
    <3> QED BY <2>1, <2>3, <2>4, <3>1 DEF UnderSeal
  <2>6. PICK V : V = U \cup {q}
    OBVIOUS
  <2>7. q \notin U
    BY <1>2, <1>4
  <2>8. IsFiniteSet(V) /\ Cardinality(V) = Cardinality(U) + 1
    BY <1>4, <2>6, <2>7, FS_AddElement
  <2>9. \A i \in V : i <= b + (n + 1)
    <3>1. \A i \in U : i \in from..to
      BY <1>4 DEF UnderSeal
    <3> QED BY <1>2, <1>4, <2>6, <3>1
  <2>10. V \subseteq UnderSeal(from, to) /\ next.unclean = Cardinality(V)
    BY <1>4, <1>9, <2>5, <2>6, <2>8
  <2> QED BY <1>6, <1>7, <2>8, <2>9, <2>10 DEF Found
<1> QED BY <1>6, <1>8, <1>9

\* The rows of a range in a segment of the ledger are a stretch of the book within both.
LEMMA SegmentRows ==
  ASSUME Guarded, NEW f, NEW a, NEW m, Segment(f, a, m), NEW from \in Nat, NEW to \in Int
  PROVE  \E b \in Nat : \E n \in Nat :
           /\ Stretch(EventsInRange(f, from, to), b, n)
           /\ n > 0 => from <= b + 1 /\ b + n <= to /\ a <= b /\ b + n <= a + m
<1>1. a \in Nat /\ m \in Nat
  BY DEF Segment
<1>2. CASE \A i \in 1..m : a + i \notin from..to
  <2>1. 1 \in 1..(m + 1) /\ 0 \in (1 - 1)..m /\ \A i \in 1..m : a + i \in from..to <=> i \in 1..0
    BY <1>1, <1>2
  <2>2. Stretch(EventsInRange(f, from, to), a + 1 - 1, 0 - 1 + 1)
    BY <2>1, RowsAre
  <2>3. a + 1 - 1 \in Nat /\ 0 - 1 + 1 = 0
    BY <1>1
  <2> QED BY <2>2, <2>3
<1>3. CASE \E i \in 1..m : a + i \in from..to
  <2>1. PICK i \in 1..m : a + i \in from..to
    BY <1>3
  <2>2. PICK x \in Nat : x = IF from - a >= 1 THEN from - a ELSE 1
    <3>1. CASE from - a >= 1
      <4>1. from - a \in Nat
        BY <1>1, <3>1
      <4> QED BY <3>1, <4>1
    <3>2. CASE ~(from - a >= 1)
      BY <3>2
    <3> QED BY <3>1, <3>2
  <2>3. PICK y \in Int : y = IF to - a <= m THEN to - a ELSE m
    BY <1>1
  <2>4. x \in 1..(m + 1) /\ y \in (x - 1)..m /\ \A j \in 1..m : a + j \in from..to <=> j \in x..y
    BY <1>1, <2>1, <2>2, <2>3
  <2>5. PICK b \in Nat : b = a + x - 1
    BY <1>1, <2>4
  <2>6. PICK n \in Nat : n = y - x + 1
    BY <2>4
  <2>7. Stretch(EventsInRange(f, from, to), b, n)
    BY <2>4, <2>5, <2>6, RowsAre
  <2>8. from <= b + 1 /\ b + n <= to /\ a <= b /\ b + n <= a + m
    BY <1>1, <2>1, <2>2, <2>3, <2>5, <2>6
  <2> QED BY <2>7, <2>8
<1> QED BY <1>2, <1>3

\* What continuity charges are crashes of the range, under a seal of the range.
LEMMA CrashesAreMeant ==
  ASSUME Guarded, NEW f, NEW a, NEW m, Segment(f, a, m), NEW from \in Nat, NEW to \in Nat,
         NEW until \in Int, until <= to, NEW dialect, NEW c, c = Continuity(f, dialect, from, until),
         c.supported
  PROVE  c.unclean <= Cardinality(UnderSeal(from, to))
<1>1. PICK rows : rows = EventsInRange(f, from, until)
  OBVIOUS
<1>2a. PICK b \in Nat : \E n \in Nat :
           /\ Stretch(rows, b, n)
           /\ n > 0 => from <= b + 1 /\ b + n <= until /\ a <= b /\ b + n <= a + m
  BY <1>1, SegmentRows
<1>2. PICK L \in Nat :
           /\ Stretch(rows, b, L)
           /\ L > 0 => from <= b + 1 /\ b + L <= until /\ a <= b /\ b + L <= a + m
  BY <1>2a
<1>3. L = Len(rows) /\ b + L <= Len(book) /\ \A n \in 1..L : rows[n] = book[b + n]
  <2>1. rows = [k \in 1..L |-> book[b + k]] /\ b + L <= Len(book)
    BY <1>2 DEF Stretch
  <2>2. rows \in [1..L -> {book[b + k] : k \in 1..L}]
    BY <2>1
  <2> QED BY <2>1, <2>2, IsSeq
<1>4. PICK after : Concludes(c, f, from, until, rows, L, after)
  BY <1>1, <1>3, ContinuityConcludes
<1>5. Watches(after, f, rows, L) /\ c.unclean = after[L].unclean
  <2>1. c # NoContinuity
    BY DEF NoContinuity
  <2> QED BY <1>4, <2>1 DEF Concludes
<1>6. /\ after[0] = NothingSeen
      /\ \A k \in 0..(L - 1) : after[k + 1] = ContinuityStep(f, after[k], rows[k + 1])
  BY <1>5, WatchRuns
<1> DEFINE P == {n \in Nat : n <= L => Found(after[n], from, to, b, n)}
<1>7. 0 \in P
  <2>1. NothingSeen \in Watch /\ ~NothingSeen.armed /\ NothingSeen.unclean = 0
    BY DEF NothingSeen, Watch, Unknown
  <2>2. {} \subseteq UnderSeal(from, to) /\ IsFiniteSet({}) /\ 0 = Cardinality({})
    BY FS_EmptySet
  <2>3. Found(after[0], from, to, b, 0)
    BY <1>6, <2>1, <2>2 DEF Found
  <2> QED BY <2>3
<1>8. ASSUME NEW n \in Nat, n \in P PROVE n + 1 \in P
  <2> SUFFICES ASSUME n + 1 <= L PROVE Found(after[n + 1], from, to, b, n + 1)
    OBVIOUS
  <2>1. Found(after[n], from, to, b, n)
    BY <1>8
  <2>2. n \in 0..(L - 1) /\ n + 1 \in 1..L /\ b + (n + 1) = b + n + 1
    OBVIOUS
  <2>3. after[n + 1] = ContinuityStep(f, after[n], book[b + n + 1])
    BY <1>3, <1>6, <2>2
  <2>4. from <= b + 1 /\ b + n + 1 <= to /\ a <= b /\ b + n + 1 <= a + m
    <3>1. a \in Nat /\ m \in Nat
      BY DEF Segment
    <3> QED BY <1>2, <3>1
  <2>5. PICK acc : acc = after[n]
    OBVIOUS
  <2>6. PICK next : next = after[n + 1]
    OBVIOUS
  <2>7. Found(acc, from, to, b, n) /\ next = ContinuityStep(f, acc, book[b + n + 1])
    BY <2>1, <2>3, <2>5, <2>6
  <2>8. Found(next, from, to, b, n + 1)
    BY <2>4, <2>7, FoundStep
  <2> QED BY <2>6, <2>8
<1>9. Found(after[L], from, to, b, L)
  <2>1. Nat \subseteq P
    <3> HIDE DEF P
    <3> QED BY <1>7, <1>8, NatSetInduction
  <2> QED BY <2>1
<1>10. PICK U : U \subseteq UnderSeal(from, to) /\ IsFiniteSet(U) /\ after[L].unclean = Cardinality(U)
  BY <1>9 DEF Found
<1>11. Cardinality(U) <= Cardinality(UnderSeal(from, to))
  <2>1. IsFiniteSet(from..to)
    BY FS_Interval
  <2>2. UnderSeal(from, to) \subseteq from..to
    BY DEF UnderSeal
  <2>3. IsFiniteSet(UnderSeal(from, to))
    BY <2>1, <2>2, FS_Subset
  <2> QED BY <1>10, <2>3, FS_Subset
<1> QED BY <1>5, <1>10, <1>11

\* The range that is evaluated ends where the declared one does, or before.
LEMMA EvaluatedWithin ==
  ASSUME NEW cert, NEW file, cert.from \in Nat, cert.to \in Nat
  PROVE  Effective(cert, file) \in Int /\ Effective(cert, file) <= cert.to
<1>1. CASE ~Ends(cert, file)
  BY <1>1 DEF Effective
<1>2. CASE Ends(cert, file)
  <2>1. PICK M : M = Missing(cert, file)
    OBVIOUS
  <2>2. M \subseteq cert.from..cert.to /\ M # {}
    BY <1>2, <2>1 DEF Missing, Ends, Truncated
  <2>3. M \subseteq Nat
    BY <2>2
  <2>4. Min(M) \in M
    <3>1. \E m \in M : \A x \in M : m <= x
      BY <2>2, <2>3, FiniteMin
    <3> QED BY <3>1 DEF Min
  <2>5. PICK x \in cert.from..cert.to : x = Min(M)
    BY <2>2, <2>4
  <2>6. Effective(cert, file) = x - 1
    BY <1>2, <2>1, <2>5 DEF Effective
  <2>7. x - 1 \in Int /\ x - 1 <= cert.to
    BY <2>5
  <2> QED BY <2>6, <2>7
<1> QED BY <1>1, <1>2

\* The crashes that are charged happened, under a seal, for every ledger, range and segment.
THEOREM ChargedIsCrashed == Spec => []OnlyCrashesAreCharged
<1>1. Guarded /\ Judgement => OnlyCrashesAreCharged
  <2> SUFFICES ASSUME Guarded, Judgement, IsShown, shown.flaw \in {"none", "rotated"},
                      report.continuity.supported
               PROVE  report.continuity.unclean <= Cardinality(CrashesUnderSeal)
    BY DEF OnlyCrashesAreCharged, Continued
  <2>1. PICK p : p = shown
    OBVIOUS
  <2>2. Asked(p) /\ report = Told(p)
    BY <2>1 DEF Judgement
  <2>3. p.flaw \in {"none", "rotated"}
    BY <2>1
  <2>4. PICK cert, file, anchors : cert = Certificate(p) /\ file = Copy(p) /\ anchors = Anchors(p)
    OBVIOUS
  <2>5. report = VerifyCertificate(cert, file, anchors, TRUE)
    BY <2>2, <2>4 DEF Told
  <2>6. cert.from = p.from /\ cert.to = p.to /\ p.from \in Nat /\ p.to \in Nat
    <3>1. p.flaw \in Honest
      BY <2>3 DEF Honest, Accidents
    <3>2. p.from \in 1..Len(book) /\ p.to \in p.from..Len(book) /\ Len(book) \in Nat
      BY <2>2, BookSays DEF Asked
    <3>3. p.from \in Nat /\ p.to \in Nat
      BY <3>2
    <3> QED BY <2>4, <3>1, <3>3, HonestDocument
  <2>7. PICK a, m : Segment(file, a, m)
    <3>1. CASE p.flaw = "none"
      <4>1. file = book
        BY <2>4, <3>1 DEF Copy
      <4> QED BY <4>1, WholeCopy
    <3>2. CASE p.flaw = "rotated"
      BY <2>2, <2>4, <3>2, RotatedCopy
    <3> QED BY <2>3, <3>1, <3>2
  <2>8. StopCode(cert, file) = "none"
    <3> SUFFICES ASSUME StopCode(cert, file) # "none" PROVE FALSE
      OBVIOUS
    <3>1. PICK code : code = StopCode(cert, file)
      OBVIOUS
    <3>2. report.continuity = NoContinuity
      BY <2>5, <3>1 DEF VerifyCertificate, Stopped
    <3> QED BY <3>2 DEF NoContinuity
  <2>9. PICK until : until = Effective(cert, file)
    OBVIOUS
  <2>10. until \in Int /\ until <= p.to
    BY <2>6, <2>9, EvaluatedWithin
  <2>11. PICK c : c = Continuity(file, cert.dialect, p.from, until)
    OBVIOUS
  <2>12. report.continuity = c
    BY <2>5, <2>6, <2>8, <2>9, <2>11, Reports
  <2>13. c.unclean <= Cardinality(UnderSeal(p.from, p.to))
    BY <2>6, <2>7, <2>10, <2>11, <2>12, CrashesAreMeant
  <2>14. CrashesUnderSeal = UnderSeal(p.from, p.to)
    BY <2>1 DEF CrashesUnderSeal, UnderSeal, SealsIn, InRange
  <2> QED BY <2>12, <2>13, <2>14
<1> QED BY <1>1, LedgerIsTold, PTL

-----------------------------------------------------------------------------
(* Episodes, entry by entry *)

Untold == [done |-> <<>>, cur |-> NoEpisode]

\* after is the loop over the first L of the rows.
Tells(after, rows, L) ==
  after = [n \in 0..L |-> IF n = 0 THEN Untold ELSE EpisodeStep(after[n - 1], rows, n)]

\* There is such a loop.
LEMMA TaleExists ==
  ASSUME NEW rows
  PROVE  \A n \in Nat : \E after : Tells(after, rows, n)
<1> DEFINE P == {n \in Nat : \E w : Tells(w, rows, n)}
<1>1. 0 \in P
  <2>1. PICK w : w = [k \in 0..0 |-> Untold]
    OBVIOUS
  <2>2. Tells(w, rows, 0)
    BY <2>1 DEF Tells
  <2> QED BY <2>2
<1>2. ASSUME NEW n \in Nat, n \in P PROVE n + 1 \in P
  <2>1. PICK w : Tells(w, rows, n)
    BY <1>2
  <2>2. PICK v : v = [k \in 0..n + 1 |-> IF k = 0 THEN Untold ELSE EpisodeStep(w[k - 1], rows, k)]
    OBVIOUS
  <2>3. \A k \in 0..n : v[k] = w[k]
    BY <2>1, <2>2 DEF Tells
  <2>4. \A k \in 0..n + 1 : k # 0 => k - 1 \in 0..n
    OBVIOUS
  <2>5. \A k \in 0..n + 1 : v[k] = IF k = 0 THEN Untold ELSE EpisodeStep(v[k - 1], rows, k)
    BY <2>2, <2>3, <2>4
  <2>6. Tells(v, rows, n + 1)
    BY <2>2, <2>5 DEF Tells
  <2>7. \E u : Tells(u, rows, n + 1)
    BY <2>6
  <2>8. n + 1 \in Nat
    OBVIOUS
  <2> QED BY <2>7, <2>8
<1>3. Nat \subseteq P
  <2> HIDE DEF P
  <2> QED BY <1>1, <1>2, NatSetInduction
<1> QED BY <1>3

\* Step by step: it begins with nothing, and goes on entry by entry.
Runs(after, rows, n) ==
  /\ after[0] = Untold
  /\ \A k \in 0..(n - 1) : after[k + 1] = EpisodeStep(after[k], rows, k + 1)
\* The loop as it is folded, step by step.
LEMMA TaleRuns ==
  ASSUME NEW rows, NEW n \in Nat, NEW after, Tells(after, rows, n)
  PROVE  Runs(after, rows, n)
<1>1. after[0] = Untold
  BY DEF Tells
<1>2. ASSUME NEW k \in 0..(n - 1) PROVE after[k + 1] = EpisodeStep(after[k], rows, k + 1)
  <2>1. k + 1 \in 0..n /\ k + 1 # 0 /\ k + 1 - 1 = k
    OBVIOUS
  <2>2. after[k + 1] = EpisodeStep(after[k + 1 - 1], rows, k + 1)
    BY <2>1 DEF Tells
  <2> QED BY <2>1, <2>2
<1> QED BY <1>1, <1>2 DEF Runs

\* The episodes are read from the end of such a loop.
LEMMA EpisodesConclude ==
  ASSUME NEW rows, NEW L \in Nat, L = Len(rows)
  PROVE  \E after : /\ Tells(after, rows, L)
                   /\ Episodes(rows) = IF after[L].cur = NoEpisode THEN after[L].done
                                       ELSE Append(after[L].done, after[L].cur)
<1> DEFINE after == CHOOSE f : f = [n \in 0..Len(rows) |-> IF n = 0 THEN [done |-> <<>>, cur |-> NoEpisode]
                                                       ELSE EpisodeStep(f[n - 1], rows, n)]
<1>1. Tells(after, rows, L)
  <2>1. \E f : Tells(f, rows, Len(rows))
    BY TaleExists
  <2> QED BY <2>1 DEF Tells, Untold
<1>2. Episodes(rows) = IF after[L].cur = NoEpisode THEN after[L].done
                       ELSE Append(after[L].done, after[L].cur)
  BY DEF Episodes
<1> HIDE DEF after
<1> QED BY <1>1, <1>2

-----------------------------------------------------------------------------
(* What a person says is no part of an episode *)

\* Rows of a ledger, and those of them that are not about a person, at the places r.
Rows(R, L) ==
  L \in Nat /\ R \in [1..L -> Records] /\ Len(R) = L /\ \A i \in 1..L : R[i].seq # 0
Kept(R, L, K, M, r) ==
  /\ Rows(R, L) /\ Rows(K, M) /\ r \in [1..M -> 1..L]
  /\ \A k, l \in 1..M : k < l => r[k] < r[l]
  /\ \A k \in 1..M : K[k] = R[r[k]] /\ K[k].ev \notin Human
  /\ \A i \in 1..L : R[i].ev \notin Human => \E k \in 1..M : r[k] = i

\* The issuer keeps them.
LEMMA NotHumanIs ==
  ASSUME NEW R, NEW L, Rows(R, L)
  PROVE  \E M, r : Kept(R, L, NotHuman(R), M, r)
<1>1. L \in Nat /\ R \in [1..L -> Records] /\ DOMAIN R = 1..L /\ \A i \in 1..L : R[i].seq # 0
  BY DEF Rows
<1>2. PICK S : S = {i \in 1..L : R[i].ev \notin Human}
  OBVIOUS
<1>3. IsFiniteSet(S) /\ S \subseteq Nat /\ S \subseteq 1..L
  <2>1. IsFiniteSet(1..L)
    BY <1>1, FS_Interval
  <2> QED BY <1>1, <1>2, <2>1, FS_Subset
<1>4. PICK r : r = [k \in 1..Cardinality(S) |-> CHOOSE x \in S : Cardinality({y \in S : y < x}) = k - 1]
  OBVIOUS
<1>5. Enumerates(S, r)
  BY <1>3, <1>4, RankedNumbers
<1>6. PICK M \in Nat : M = Cardinality(S)
  BY <1>5 DEF Enumerates
<1>7. NotHuman(R) = [k \in DOMAIN r |-> R[r[k]]]
  BY <1>1, <1>2, <1>4 DEF NotHuman, Ranked
<1>8. PICK K : K = NotHuman(R)
  OBVIOUS
<1>9. /\ r \in [1..M -> S] /\ DOMAIN r = 1..M /\ \A k, l \in 1..M : k < l => r[k] < r[l]
      /\ \A x \in S : \E k \in 1..M : r[k] = x
  BY <1>5, <1>6 DEF Enumerates
<1>10. K \in [1..M -> Records] /\ \A k \in 1..M : K[k] = R[r[k]] /\ r[k] \in S /\ r[k] \in 1..L
  <2>1. \A k \in 1..M : r[k] \in S /\ r[k] \in 1..L
    BY <1>3, <1>9
  <2>2. K = [k \in 1..M |-> R[r[k]]]
    BY <1>7, <1>8, <1>9
  <2> QED BY <1>1, <2>1, <2>2
<1>11. Rows(K, M)
  <2>1. Len(K) = M
    BY <1>10, IsSeq
  <2> QED BY <1>1, <1>10, <2>1 DEF Rows
<1>12. r \in [1..M -> 1..L]
  BY <1>3, <1>9
<1>13. Kept(R, L, K, M, r)
  BY <1>2, <1>9, <1>10, <1>11, <1>12 DEF Kept
<1> QED BY <1>8, <1>13

\* The entry before an episode is the same, with the words of a person and without them.
LEMMA PrecedingOfKept ==
  ASSUME NEW K, NEW M, Rows(K, M), \A k \in 1..M : K[k].ev \notin Human, NEW k \in 1..M
  PROVE  Preceding(K, k) = IF k = 1 \/ K[k - 1].ev \in Boundary THEN 0 ELSE k - 1
<1>1. M \in Nat
  BY DEF Rows
<1>2. PICK T : T = {j \in 1..(k - 1) : K[j].ev \notin Human}
  OBVIOUS
<1>3. T = 1..(k - 1)
  BY <1>1, <1>2
<1>4. Preceding(K, k) = IF T = {} \/ (T # {} /\ K[Max(T)].ev \in Boundary) THEN 0 ELSE Max(T)
  BY <1>2 DEF Preceding
<1>5. CASE k = 1
  BY <1>3, <1>4, <1>5
<1>6. CASE k # 1
  <2>1. k - 1 \in T /\ \A j \in T : j <= k - 1
    BY <1>3, <1>6
  <2>2. Max(T) = k - 1
    <3>1. Max(T) \in T /\ Max(T) >= k - 1
      BY <2>1 DEF Max
    <3>2. PICK x : x = Max(T)
      OBVIOUS
    <3>3. x \in 1..(k - 1) /\ x >= k - 1
      BY <1>3, <3>1, <3>2
    <3>4. x = k - 1
      BY <3>3
    <3> QED BY <3>2, <3>4
  <2> QED BY <1>4, <1>6, <2>1, <2>2
<1> QED BY <1>5, <1>6

\* What comes before a row of the whole range, among those that are kept.
LEMMA PrecedingOfAll ==
  ASSUME NEW R, NEW L, NEW K, NEW M, NEW r, Kept(R, L, K, M, r), NEW k \in 1..M
  PROVE  Preceding(R, r[k]) = IF k = 1 \/ K[k - 1].ev \in Boundary THEN 0 ELSE r[k - 1]
<1>1. /\ M \in Nat /\ L \in Nat /\ r \in [1..M -> 1..L] /\ \A i, l \in 1..M : i < l => r[i] < r[l]
      /\ \A i \in 1..M : K[i] = R[r[i]] /\ K[i].ev \notin Human
      /\ \A i \in 1..L : R[i].ev \notin Human => \E l \in 1..M : r[l] = i
  BY DEF Kept, Rows
<1>2. PICK T : T = {j \in 1..(r[k] - 1) : R[j].ev \notin Human}
  OBVIOUS
<1>3. \A j : j \in T <=> \E l \in 1..(k - 1) : r[l] = j
  <2>1. ASSUME NEW j \in T PROVE \E l \in 1..(k - 1) : r[l] = j
    <3>1. j \in 1..(r[k] - 1) /\ R[j].ev \notin Human
      BY <1>2
    <3>2. r[k] \in 1..L
      BY <1>1
    <3>3. j \in 1..L /\ j < r[k]
      BY <1>1, <3>1, <3>2
    <3>4. PICK l \in 1..M : r[l] = j
      BY <1>1, <3>1, <3>3
    <3>5. l < k
      <4>1. l # k
        BY <3>2, <3>3, <3>4
      <4>2. ~(k < l)
        BY <1>1, <3>2, <3>3, <3>4
      <4> QED BY <4>1, <4>2
    <3>6. l \in 1..(k - 1)
      BY <3>5
    <3> QED BY <3>4, <3>6
  <2>2. ASSUME NEW l \in 1..(k - 1) PROVE r[l] \in T
    <3>1. l \in 1..M /\ l < k
      BY <1>1
    <3>2. r[l] \in 1..L /\ r[k] \in 1..L /\ r[l] < r[k] /\ R[r[l]].ev \notin Human
      BY <1>1, <3>1
    <3>3. r[l] \in 1..(r[k] - 1)
      BY <3>2
    <3> QED BY <1>2, <3>2, <3>3
  <2> QED BY <2>1, <2>2
<1>4. Preceding(R, r[k]) = IF T = {} \/ (T # {} /\ R[Max(T)].ev \in Boundary) THEN 0 ELSE Max(T)
  BY <1>2 DEF Preceding
<1>5. CASE k = 1
  <2>1. T = {}
    BY <1>3, <1>5
  <2> QED BY <1>4, <1>5, <2>1
<1>6. CASE k # 1
  <2>1. k - 1 \in 1..(k - 1) /\ k - 1 \in 1..M
    BY <1>1, <1>6
  <2>2. PICK q \in 1..L : q = r[k - 1]
    BY <1>1, <2>1
  <2>3. q \in T
    BY <1>3, <2>1, <2>2
  <2>4. \A j \in T : j \in 1..L /\ j <= q
    <3> TAKE j \in T
    <3>1. PICK l \in 1..(k - 1) : r[l] = j
      BY <1>3
    <3>2. l \in 1..M /\ (l = k - 1 \/ l < k - 1)
      BY <1>1
    <3>3. j \in 1..L
      BY <1>1, <3>1, <3>2
    <3>4. j = q \/ j < q
      BY <1>1, <2>1, <2>2, <3>1, <3>2
    <3> QED BY <3>3, <3>4
  <2>5. Max(T) = q
    <3>1. Max(T) \in T /\ Max(T) >= q
      BY <2>3, <2>4 DEF Max
    <3>2. PICK x : x = Max(T)
      OBVIOUS
    <3>3. x \in 1..L /\ x <= q /\ x >= q
      BY <2>4, <3>1, <3>2
    <3>4. x = q
      BY <3>3
    <3> QED BY <3>2, <3>4
  <2>6. K[k - 1] = R[q]
    BY <1>1, <2>1, <2>2
  <2> QED BY <1>4, <1>6, <2>2, <2>3, <2>5, <2>6
<1> QED BY <1>5, <1>6

\* So an episode that is entered is the same.
LEMMA EnteredSame ==
  ASSUME NEW R, NEW L, NEW K, NEW M, NEW r, Kept(R, L, K, M, r), NEW k \in 1..M
  PROVE  EpisodeFrom(R, r[k]) = EpisodeFrom(K, k)
<1>1. /\ M \in Nat /\ L \in Nat /\ r \in [1..M -> 1..L] /\ Rows(K, M)
      /\ \A i \in 1..M : K[i] = R[r[i]] /\ K[i].ev \notin Human
  BY DEF Kept, Rows
<1>2. PICK i, j : i = Preceding(R, r[k]) /\ j = Preceding(K, k)
  OBVIOUS
<1>3. i = IF k = 1 \/ K[k - 1].ev \in Boundary THEN 0 ELSE r[k - 1]
  BY <1>2, PrecedingOfAll
<1>4. j = IF k = 1 \/ K[k - 1].ev \in Boundary THEN 0 ELSE k - 1
  BY <1>1, <1>2, PrecedingOfKept
<1>5. (i = 0 <=> j = 0) /\ (j # 0 => R[i] = K[j])
  <2>1. CASE k = 1 \/ K[k - 1].ev \in Boundary
    BY <1>3, <1>4, <2>1
  <2>2. CASE ~(k = 1 \/ K[k - 1].ev \in Boundary)
    <3>1. k - 1 \in 1..M /\ i = r[k - 1] /\ j = k - 1
      BY <1>1, <1>3, <1>4, <2>2
    <3>2. i \in 1..L /\ R[i] = K[j]
      BY <1>1, <3>1
    <3> QED BY <3>1, <3>2
  <2> QED BY <2>1, <2>2
<1>6. R[r[k]] = K[k]
  BY <1>1
<1>7. EpisodeFrom(R, r[k]) =
        [seq |-> K[k].seq, open |-> TRUE, precedingSeq |-> IF i = 0 THEN 0 ELSE R[i].seq,
         precedingEvent |-> IF i = 0 THEN "none" ELSE R[i].ev,
         reasons |-> IF i = 0 THEN EmptyBag ELSE SetToBag({R[i].ev})]
  BY <1>2, <1>6 DEF EpisodeFrom
<1>8. EpisodeFrom(K, k) =
        [seq |-> K[k].seq, open |-> TRUE, precedingSeq |-> IF j = 0 THEN 0 ELSE K[j].seq,
         precedingEvent |-> IF j = 0 THEN "none" ELSE K[j].ev,
         reasons |-> IF j = 0 THEN EmptyBag ELSE SetToBag({K[j].ev})]
  BY <1>2 DEF EpisodeFrom
<1>9. CASE j = 0
  BY <1>5, <1>7, <1>8, <1>9
<1>10. CASE j # 0
  BY <1>5, <1>7, <1>8, <1>10
<1> QED BY <1>9, <1>10

\* And so is every step of the loop, that of a person's word being none.
LEMMA StepSame ==
  ASSUME NEW R, NEW L, NEW K, NEW M, NEW r, Kept(R, L, K, M, r), NEW acc
  PROVE  /\ \A k \in 1..M : EpisodeStep(acc, R, r[k]) = EpisodeStep(acc, K, k)
         /\ \A i \in 1..L : R[i].ev \in Human => EpisodeStep(acc, R, i) = acc
<1>1. ASSUME NEW k \in 1..M PROVE EpisodeStep(acc, R, r[k]) = EpisodeStep(acc, K, k)
  <2>1. EpisodeFrom(R, r[k]) = EpisodeFrom(K, k)
    BY EnteredSame
  <2>2. R[r[k]] = K[k]
    BY DEF Kept
  <2> QED BY <2>1, <2>2 DEF EpisodeStep
<1>2. ASSUME NEW i \in 1..L, R[i].ev \in Human PROVE EpisodeStep(acc, R, i) = acc
  BY <1>2 DEF EpisodeStep, Human, Boundary
<1> QED BY <1>1, <1>2

\* The episodes are the same.
LEMMA EpisodesSame ==
  ASSUME NEW R, NEW L, NEW K, NEW M, NEW r, Kept(R, L, K, M, r)
  PROVE  Episodes(R) = Episodes(K)
<1>1. /\ M \in Nat /\ L \in Nat /\ Len(R) = L /\ Len(K) = M /\ r \in [1..M -> 1..L]
      /\ \A i, l \in 1..M : i < l => r[i] < r[l]
      /\ \A i \in 1..M : R[r[i]].ev \notin Human
      /\ \A i \in 1..L : R[i].ev \notin Human => \E l \in 1..M : r[l] = i
  BY DEF Kept, Rows
<1>2. PICK f : /\ Tells(f, R, L)
               /\ Episodes(R) = IF f[L].cur = NoEpisode THEN f[L].done ELSE Append(f[L].done, f[L].cur)
  BY <1>1, EpisodesConclude
<1>3. PICK g : /\ Tells(g, K, M)
               /\ Episodes(K) = IF g[M].cur = NoEpisode THEN g[M].done ELSE Append(g[M].done, g[M].cur)
  BY <1>1, EpisodesConclude
<1>4. /\ f[0] = Untold /\ \A k \in 0..(L - 1) : f[k + 1] = EpisodeStep(f[k], R, k + 1)
      /\ g[0] = Untold /\ \A k \in 0..(M - 1) : g[k + 1] = EpisodeStep(g[k], K, k + 1)
  <2>1. f[0] = Untold /\ \A k \in 0..(L - 1) : f[k + 1] = EpisodeStep(f[k], R, k + 1)
    <3>1. Runs(f, R, L)
      BY <1>1, <1>2, TaleRuns, Zenon
    <3> QED BY <3>1 DEF Runs
  <2>2. g[0] = Untold /\ \A k \in 0..(M - 1) : g[k + 1] = EpisodeStep(g[k], K, k + 1)
    <3>1. Runs(g, K, M)
      BY <1>1, <1>3, TaleRuns, Zenon
    <3> QED BY <3>1 DEF Runs
  <2> QED BY <2>1, <2>2
<1> DEFINE Same(n, k) == k \in 0..M /\ (\A l \in 1..M : r[l] <= n <=> l <= k) /\ f[n] = g[k]
           P == {n \in Nat : n <= L => \E k : Same(n, k)}
<1>5. 0 \in P
  <2>1. \A l \in 1..M : r[l] \in 1..L
    BY <1>1
  <2>2. Same(0, 0)
    BY <1>1, <1>4, <2>1
  <2> QED BY <2>2
<1>6. ASSUME NEW n \in Nat, n \in P PROVE n + 1 \in P
  <2> SUFFICES ASSUME n + 1 <= L PROVE \E k : Same(n + 1, k)
    OBVIOUS
  <2>1. PICK k : Same(n, k)
    BY <1>1, <1>6
  <2>2. n \in 0..(L - 1) /\ n + 1 \in 1..L
    BY <1>1
  <2>3. f[n + 1] = EpisodeStep(f[n], R, n + 1)
    BY <1>4, <2>2
  <2>4. \A l \in 1..M : r[l] \in 1..L
    BY <1>1
  <2>5. CASE R[n + 1].ev \in Human
    <3>1. f[n + 1] = g[k]
      BY <2>1, <2>2, <2>3, <2>5, StepSame
    <3>2. \A l \in 1..M : r[l] # n + 1
      BY <1>1, <2>5
    <3>3. \A l \in 1..M : r[l] <= n + 1 <=> l <= k
      BY <2>1, <2>4, <3>2
    <3> QED BY <2>1, <3>1, <3>3
  <2>6. CASE R[n + 1].ev \notin Human
    <3>1. PICK l \in 1..M : r[l] = n + 1
      BY <1>1, <2>2, <2>6
    <3>2. l = k + 1
      <4>1. ~(l <= k)
        BY <2>1, <3>1
      <4>2. ASSUME k + 1 < l PROVE FALSE
        <5>1. k + 1 \in 1..M
          BY <1>1, <2>1, <4>2
        <5>2. r[k + 1] < n + 1 /\ r[k + 1] \in 1..L
          BY <1>1, <3>1, <4>2, <5>1
        <5>3. r[k + 1] <= n
          BY <5>2
        <5>4. k + 1 <= k
          BY <2>1, <5>1, <5>3
        <5> QED BY <2>1, <5>4
      <4> QED BY <2>1, <4>1, <4>2
    <3>3. f[n + 1] = g[k + 1]
      <4>1. k \in 0..(M - 1)
        BY <1>1, <2>1, <3>2
      <4>2. g[k + 1] = EpisodeStep(g[k], K, k + 1)
        BY <1>4, <4>1
      <4>3. EpisodeStep(f[n], R, r[l]) = EpisodeStep(f[n], K, l)
        BY StepSame
      <4> QED BY <2>1, <2>3, <3>1, <3>2, <4>2, <4>3
    <3>4. \A j \in 1..M : r[j] <= n + 1 <=> j <= k + 1
      <4> TAKE j \in 1..M
      <4>1. k \in Int /\ r[j] \in Int
        BY <2>1, <2>4
      <4>2. r[j] = n + 1 <=> j = l
        BY <1>1, <2>4, <3>1
      <4>3. r[j] <= n <=> j <= k
        BY <2>1
      <4> QED BY <3>2, <4>1, <4>2, <4>3
    <3>5. k + 1 \in 0..M
      BY <1>1, <3>2
    <3> QED BY <3>3, <3>4, <3>5
  <2> QED BY <2>5, <2>6
<1>7. PICK k : Same(L, k)
  <2>1. Nat \subseteq P
    <3> HIDE DEF P
    <3> QED BY <1>5, <1>6, NatSetInduction
  <2> QED BY <1>1, <2>1
<1>8. k = M
  <2>1. CASE M = 0
    BY <1>7, <2>1
  <2>2. CASE M # 0
    <3>1. M \in 1..M /\ r[M] \in 1..L
      BY <1>1, <2>2
    <3>2. M <= k
      BY <1>7, <3>1
    <3>3. k \in 0..M
      BY <1>7
    <3> HIDE DEF Same, P
    <3> QED BY <1>1, <3>2, <3>3
  <2> QED BY <2>1, <2>2
<1> QED BY <1>2, <1>3, <1>7, <1>8

-----------------------------------------------------------------------------
(* Episodes, as the issuer counts them *)

\* How often x is in a bag.
Times(x, B) == IF x \in DOMAIN B THEN B[x] ELSE 0

\* Rows without the words of a person.
Plain(K, M) == Rows(K, M) /\ \A k \in 1..M : K[k].ev \notin Human

\* How often each event is among the rows T.
Tally(K, T) == [ev \in {K[k].ev : k \in T} |-> Cardinality({k \in T : K[k].ev = ev})]

\* What is behind an episode that began at i, by the n-th row.
Led(K, i) == i > 1 /\ K[i - 1].ev \notin Boundary
Behind(K, i, n) == {k \in (i + 1)..n : K[k].ev \notin Boundary} \cup (IF Led(K, i) THEN {i - 1} ELSE {})
Draft(K, i, n) ==
  [seq |-> K[i].seq, open |-> TRUE,
   precedingSeq |-> IF Led(K, i) THEN K[i - 1].seq ELSE 0,
   precedingEvent |-> IF Led(K, i) THEN K[i - 1].ev ELSE "none",
   reasons |-> Tally(K, Behind(K, i, n))]

\* One more row is counted.
LEMMA TallyGrows ==
  ASSUME NEW K, NEW T, IsFiniteSet(T), NEW x, x \notin T
  PROVE  Tally(K, T) (+) SetToBag({K[x].ev}) = Tally(K, T \cup {x})
<1> DEFINE old == Tally(K, T)
           one == SetToBag({K[x].ev})
           all == Tally(K, T \cup {x})
           at(S, ev) == {k \in S : K[k].ev = ev}
<1>1. DOMAIN old = {K[k].ev : k \in T} /\ \A ev \in DOMAIN old : old[ev] = Cardinality(at(T, ev))
  BY DEF Tally
<1>2. DOMAIN one = {K[x].ev} /\ one[K[x].ev] = 1
  BY DEF SetToBag
<1>3. DOMAIN all = {K[k].ev : k \in T} \cup {K[x].ev}
      /\ \A ev \in DOMAIN all : all[ev] = Cardinality(at(T \cup {x}, ev))
  BY DEF Tally
<1>4. PICK sum : sum = [ev \in DOMAIN old \cup DOMAIN one |-> Times(ev, old) + Times(ev, one)]
  OBVIOUS
<1>4a. old (+) one = sum
  BY <1>4 DEF (+), Times
<1>5. all = [ev \in DOMAIN all |-> all[ev]]
  BY DEF Tally
<1>6. DOMAIN sum = DOMAIN all
  <2> HIDE DEF old, one, all
  <2> QED BY <1>1, <1>2, <1>3, <1>4
<1>7. ASSUME NEW ev \in DOMAIN all PROVE sum[ev] = all[ev]
  <2>1. sum[ev] = Times(ev, old) + Times(ev, one)
    BY <1>4, <1>6, <1>7
  <2>2. IsFiniteSet(at(T, ev)) /\ Cardinality(at(T, ev)) \in Nat
    BY FS_Subset, FS_CardinalityType
  <2>3. CASE ev = K[x].ev
    <3>1. at(T \cup {x}, ev) = at(T, ev) \cup {x} /\ x \notin at(T, ev)
      BY <2>3
    <3>2. Cardinality(at(T \cup {x}, ev)) = Cardinality(at(T, ev)) + 1
      BY <2>2, <3>1, FS_AddElement
    <3>3. Times(ev, one) = 1
      <4> HIDE DEF one
      <4> QED BY <1>2, <2>3 DEF Times
    <3>4. Times(ev, old) = Cardinality(at(T, ev))
      <4>1. CASE ev \in DOMAIN old
        <5> HIDE DEF old
        <5> QED BY <1>1, <4>1 DEF Times
      <4>2. CASE ev \notin DOMAIN old
        <5>1. at(T, ev) = {}
          BY <1>1, <4>2
        <5>2. Cardinality(at(T, ev)) = 0
          BY <5>1, FS_EmptySet
        <5>3. Times(ev, old) = 0
          <6> HIDE DEF old
          <6> QED BY <4>2 DEF Times
        <5> QED BY <5>2, <5>3
      <4> QED BY <4>1, <4>2
    <3>5. all[ev] = Cardinality(at(T, ev)) + 1
      BY <1>3, <1>7, <3>2
    <3> HIDE DEF old, one, all, at
    <3> QED BY <2>1, <3>3, <3>4, <3>5
  <2>4. CASE ev # K[x].ev
    <3>1. at(T \cup {x}, ev) = at(T, ev)
      BY <2>4
    <3>2. ev \in DOMAIN old
      BY <1>1, <1>3, <1>7, <2>4
    <3>3. Times(ev, old) = Cardinality(at(T, ev))
      <4> HIDE DEF old
      <4> QED BY <1>1, <3>2 DEF Times
    <3>4. Times(ev, one) = 0
      <4> HIDE DEF one
      <4> QED BY <1>2, <2>4 DEF Times
    <3>5. all[ev] = Cardinality(at(T, ev))
      BY <1>3, <1>7, <3>1
    <3>6. Cardinality(at(T, ev)) + 0 = Cardinality(at(T, ev))
      BY <2>2
    <3> HIDE DEF old, one, all, at
    <3> QED BY <2>1, <3>3, <3>4, <3>5, <3>6
  <2> QED BY <2>3, <2>4
<1>8. sum = all
  <2>1. sum = [ev \in DOMAIN sum |-> sum[ev]]
    BY <1>4
  <2> HIDE DEF old, one, all
  <2> QED BY <1>5, <1>6, <1>7, <2>1
<1> QED BY <1>4a, <1>8

-----------------------------------------------------------------------------
(* An episode while it is open *)

\* It begins with what came before it.
LEMMA DraftBegins ==
  ASSUME NEW K, NEW M, Plain(K, M), NEW i \in 1..M
  PROVE  EpisodeFrom(K, i) = Draft(K, i, i)
<1>1. M \in Nat /\ Rows(K, M) /\ \A k \in 1..M : K[k].ev \notin Human
  BY DEF Plain, Rows
<1>2. PICK j : j = Preceding(K, i)
  OBVIOUS
<1>3. j = IF i = 1 \/ K[i - 1].ev \in Boundary THEN 0 ELSE i - 1
  BY <1>1, <1>2, PrecedingOfKept
<1>4. Led(K, i) <=> j # 0
  BY <1>1, <1>3 DEF Led
<1>5. j # 0 => j = i - 1
  BY <1>3
<1>6. (i + 1)..i = {}
  BY <1>1
<1>7. Behind(K, i, i) = IF j = 0 THEN {} ELSE {j}
  BY <1>4, <1>5, <1>6 DEF Behind
<1>8. Tally(K, {}) = EmptyBag
  BY DEF Tally, EmptyBag, SetToBag
<1>9. Tally(K, {j}) = SetToBag({K[j].ev})
  <2>1. Tally(K, {j}) = [ev \in {K[j].ev} |-> Cardinality({k \in {j} : K[k].ev = ev})]
    BY DEF Tally
  <2>2. {k \in {j} : K[k].ev = K[j].ev} = {j}
    OBVIOUS
  <2>3. Cardinality({j}) = 1
    BY FS_Singleton
  <2> QED BY <2>1, <2>2, <2>3 DEF SetToBag
<1>10. EpisodeFrom(K, i) =
        [seq |-> K[i].seq, open |-> TRUE, precedingSeq |-> IF j = 0 THEN 0 ELSE K[j].seq,
         precedingEvent |-> IF j = 0 THEN "none" ELSE K[j].ev,
         reasons |-> IF j = 0 THEN EmptyBag ELSE SetToBag({K[j].ev})]
  BY <1>2 DEF EpisodeFrom
<1>11. CASE j = 0
  BY <1>4, <1>7, <1>8, <1>10, <1>11 DEF Draft
<1>12. CASE j # 0
  BY <1>4, <1>5, <1>7, <1>9, <1>10, <1>12 DEF Draft
<1> QED BY <1>11, <1>12

\* An episode with other reasons.
LEMMA OtherReasons ==
  ASSUME NEW y, NEW p, NEW e, NEW old, NEW new
  PROVE  [[seq |-> y, open |-> TRUE, precedingSeq |-> p, precedingEvent |-> e, reasons |-> old]
            EXCEPT !.reasons = new]
         = [seq |-> y, open |-> TRUE, precedingSeq |-> p, precedingEvent |-> e, reasons |-> new]
<1>1. PICK yes : yes = TRUE
  OBVIOUS
<1>2. PICK a : a = [seq |-> y, open |-> yes, precedingSeq |-> p, precedingEvent |-> e, reasons |-> old]
  OBVIOUS
<1>3. PICK b : b = [seq |-> y, open |-> yes, precedingSeq |-> p, precedingEvent |-> e, reasons |-> new]
  OBVIOUS
<1>4. PICK c : c = [a EXCEPT !.reasons = new]
  OBVIOUS
<1>5. c = [x \in DOMAIN a |-> IF x = "reasons" THEN new ELSE a[x]]
  BY <1>4
<1>6. DOMAIN a = {"seq", "open", "precedingSeq", "precedingEvent", "reasons"} /\ DOMAIN b = DOMAIN a
  BY <1>2, <1>3
<1>7. \A x \in DOMAIN a : c[x] = b[x]
  BY <1>2, <1>3, <1>5, <1>6
<1>8. b = [x \in DOMAIN b |-> b[x]] /\ DOMAIN c = DOMAIN a
  BY <1>3, <1>5
<1>9. c = b
  <2>1. c = [x \in DOMAIN c |-> c[x]]
    BY <1>5
  <2> QED BY <1>6, <1>7, <1>8, <2>1
<1> QED BY <1>1, <1>2, <1>3, <1>4, <1>9, Zenon

\* It takes what happens meanwhile, and no other boundary.
GoesOn(K, i, n) ==
  IF K[n + 1].ev \in Boundary THEN Draft(K, i, n + 1) = Draft(K, i, n)
  ELSE [Draft(K, i, n) EXCEPT !.reasons = @ (+) SetToBag({K[n + 1].ev})] = Draft(K, i, n + 1)
\* A draft and the next row: a boundary adds nothing, anything else its reason.
LEMMA DraftGoesOn ==
  ASSUME NEW K, NEW M, NEW i \in 1..M, NEW n \in i..(M - 1), Plain(K, M)
  PROVE  GoesOn(K, i, n)
<1>1. M \in Nat
  BY DEF Plain, Rows
<1>2. PICK T : T = Behind(K, i, n)
  OBVIOUS
<1>3. IsFiniteSet(T) /\ n + 1 \notin T
  <2>1. T \subseteq 0..n
    BY <1>1, <1>2 DEF Behind, Led
  <2>2. IsFiniteSet(0..n)
    BY <1>1, FS_Interval
  <2>3. n + 1 \notin 0..n
    BY <1>1
  <2>4. IsFiniteSet(T)
    BY <2>1, <2>2, FS_Subset
  <2> QED BY <2>1, <2>3, <2>4
<1>4. (i + 1)..(n + 1) = ((i + 1)..n) \cup {n + 1}
  BY <1>1
<1>5. CASE K[n + 1].ev \notin Boundary
  <2>1. Behind(K, i, n + 1) = T \cup {n + 1}
    BY <1>2, <1>4, <1>5 DEF Behind
  <2>2. Tally(K, T) (+) SetToBag({K[n + 1].ev}) = Tally(K, T \cup {n + 1})
    BY <1>3, TallyGrows
  <2>3. PICK old, new, one : old = Tally(K, T) /\ new = Tally(K, T \cup {n + 1}) /\ one = SetToBag({K[n + 1].ev})
    OBVIOUS
  <2>4. Draft(K, i, n).reasons = old /\ Draft(K, i, n + 1) = [Draft(K, i, n) EXCEPT !.reasons = new]
    <3>1. PICK p, e, y : /\ y = K[i].seq
                         /\ p = IF Led(K, i) THEN K[i - 1].seq ELSE 0
                         /\ e = IF Led(K, i) THEN K[i - 1].ev ELSE "none"
      OBVIOUS
    <3>2. Draft(K, i, n) = [seq |-> y, open |-> TRUE, precedingSeq |-> p, precedingEvent |-> e, reasons |-> old]
      BY <1>2, <2>3, <3>1 DEF Draft
    <3>3. Draft(K, i, n + 1) = [seq |-> y, open |-> TRUE, precedingSeq |-> p, precedingEvent |-> e, reasons |-> new]
      BY <2>1, <2>3, <3>1 DEF Draft
    <3>4. [[seq |-> y, open |-> TRUE, precedingSeq |-> p, precedingEvent |-> e, reasons |-> old]
             EXCEPT !.reasons = new]
          = [seq |-> y, open |-> TRUE, precedingSeq |-> p, precedingEvent |-> e, reasons |-> new]
      BY OtherReasons
    <3>5. Draft(K, i, n).reasons = old
      BY <3>2
    <3>6. Draft(K, i, n + 1) = [Draft(K, i, n) EXCEPT !.reasons = new]
      BY <3>2, <3>3, <3>4, Zenon
    <3> QED BY <3>5, <3>6
  <2>5. old (+) one = new
    BY <2>2, <2>3
  <2>6. [Draft(K, i, n) EXCEPT !.reasons = @ (+) SetToBag({K[n + 1].ev})] = Draft(K, i, n + 1)
    BY <2>3, <2>4, <2>5
  <2> QED BY <1>5, <2>6, Zenon DEF GoesOn
<1>6. CASE K[n + 1].ev \in Boundary
  <2>1. Behind(K, i, n + 1) = T
    BY <1>2, <1>4, <1>6 DEF Behind
  <2>2. Draft(K, i, n + 1) = Draft(K, i, n)
    BY <1>2, <2>1 DEF Draft
  <2> QED BY <1>6, <2>2, Zenon DEF GoesOn
<1> QED BY <1>5, <1>6, Zenon

\* No end of an episode is among the rows i..n.
Endless(K, i, n) == \A k \in i..n : K[k].ev # "FAIL_CLOSED_CLEARED"

\* It ends with the first end there is, or with the rows.
LEMMA DraftEnds ==
  ASSUME NEW K, NEW M, Plain(K, M), NEW i \in 1..M, NEW n \in i..M, Endless(K, i, n),
         n = M \/ K[n + 1].ev = "FAIL_CLOSED_CLEARED"
  PROVE  /\ BlindUntil(K, i) = n + 1
         /\ ReferenceEpisode(K, i) = [Draft(K, i, n) EXCEPT !.open = (n = M)]
<1>1. M \in Nat /\ Len(K) = M
  BY DEF Plain, Rows
<1>2. PICK S : S = {k \in i..M : K[k].ev = "FAIL_CLOSED_CLEARED"} \cup {M + 1}
  OBVIOUS
<1>3. n + 1 \in S /\ \A k \in S : k \in Int /\ k >= n + 1
  <2>1. n + 1 \in S
    BY <1>1, <1>2
  <2>2. ASSUME NEW k \in S PROVE k \in Int /\ k >= n + 1
    <3>1. CASE k = M + 1
      BY <1>1, <3>1
    <3>2. CASE k # M + 1
      <4>1. k \in i..M /\ K[k].ev = "FAIL_CLOSED_CLEARED"
        BY <1>2, <3>2
      <4>2. k \notin i..n
        BY <4>1 DEF Endless
      <4> QED BY <1>1, <4>1, <4>2
    <3> QED BY <3>1, <3>2
  <2> QED BY <2>1, <2>2
<1>4. Min(S) = n + 1
  <2>1. Min(S) \in S /\ Min(S) <= n + 1
    BY <1>3 DEF Min
  <2>2. PICK x : x = Min(S)
    OBVIOUS
  <2>3. x \in Int /\ x >= n + 1 /\ x <= n + 1
    BY <1>3, <2>1, <2>2
  <2>4. x = n + 1
    BY <1>1, <2>3
  <2> QED BY <2>2, <2>4
<1>5. BlindUntil(K, i) = n + 1
  BY <1>1, <1>2, <1>4 DEF BlindUntil
<1>6. n + 1 - 1 = n /\ (n + 1 > M <=> n = M)
  BY <1>1
<1>7. PICK e : e = BlindUntil(K, i)
  OBVIOUS
<1>8. e - 1 = n /\ (e > Len(K) <=> n = M)
  BY <1>1, <1>5, <1>6, <1>7
<1>9. ReferenceEpisode(K, i) =
        [seq |-> K[i].seq, open |-> e > Len(K),
         precedingSeq |-> IF Led(K, i) THEN K[i - 1].seq ELSE 0,
         precedingEvent |-> IF Led(K, i) THEN K[i - 1].ev ELSE "none",
         reasons |-> Tally(K, Behind(K, i, n))]
  BY <1>7, <1>8 DEF ReferenceEpisode, Led, Behind, Tally
<1>10. (e > Len(K)) = (n = M)
  BY <1>8
<1> QED BY <1>5, <1>9, <1>10 DEF Draft

-----------------------------------------------------------------------------
(* The loop tells the episodes that the issuer counts *)

\* s lists the C places where an episode begins, and c of them are among the first n.
Begins(K, M, C, s) ==
  /\ C \in Nat /\ s \in [1..C -> 1..M]
  /\ \A k, l \in 1..C : k < l => s[k] < s[l]
  /\ \A i : i \in BlindFrom(K) <=> \E k \in 1..C : s[k] = i
By(s, C, n, c) == c \in 0..C /\ \A l \in 1..C : s[l] <= n <=> l <= c
Ended(K, s, c) == [l \in 1..c |-> ReferenceEpisode(K, s[l])]
\* Every episode of the first n rows has ended.
AllEnded(K, n) ==
  \A j \in 1..n : K[j].ev = "FAIL_CLOSED_ENTERED" => \E k \in j..n : K[k].ev = "FAIL_CLOSED_CLEARED"
\* What the loop knows after n rows: between two episodes, or within one.
Between(K, s, c, acc, n) == acc = [done |-> Ended(K, s, c), cur |-> NoEpisode] /\ AllEnded(K, n)
Within(K, s, c, acc, n) ==
  /\ c >= 1 /\ s[c] <= n /\ Endless(K, s[c], n)
  /\ acc = [done |-> Ended(K, s, c - 1), cur |-> Draft(K, s[c], n)]

\* An episode begins where the guardian stops seeing after all before have ended.
LEMMA BeginsHere ==
  ASSUME NEW K, NEW M, Plain(K, M), NEW n \in 0..(M - 1), AllEnded(K, n)
  PROVE  n + 1 \in BlindFrom(K) <=> K[n + 1].ev = "FAIL_CLOSED_ENTERED"
<1>1. M \in Nat /\ DOMAIN K = 1..M
  BY DEF Plain, Rows
<1>2. n + 1 \in 1..M /\ n + 1 - 1 = n
  BY <1>1
<1>3. ASSUME NEW j \in 1..n, K[j].ev = "FAIL_CLOSED_ENTERED"
      PROVE  \E k \in j..(n + 1) : K[k].ev = "FAIL_CLOSED_CLEARED"
  <2>1. PICK k \in j..n : K[k].ev = "FAIL_CLOSED_CLEARED"
    BY <1>3 DEF AllEnded
  <2>2. k \in j..(n + 1)
    BY <1>1
  <2> QED BY <2>1, <2>2
<1> QED BY <1>1, <1>2, <1>3 DEF BlindFrom

\* It does not within another one.
LEMMA BeginsNotWithin ==
  ASSUME NEW K, NEW M, Plain(K, M), NEW n \in 0..(M - 1), NEW i \in 1..n,
         K[i].ev = "FAIL_CLOSED_ENTERED", Endless(K, i, n)
  PROVE  n + 1 \notin BlindFrom(K)
<1>1. M \in Nat
  BY DEF Plain, Rows
<1>2. n + 1 - 1 = n
  BY <1>1
<1> SUFFICES ASSUME n + 1 \in BlindFrom(K) PROVE FALSE
  OBVIOUS
<1>3. K[n + 1].ev = "FAIL_CLOSED_ENTERED"
  BY DEF BlindFrom
<1>4. PICK k \in i..(n + 1) : K[k].ev = "FAIL_CLOSED_CLEARED"
  BY <1>2 DEF BlindFrom
<1>5. k # n + 1
  BY <1>3, <1>4
<1>6. k \in i..n
  BY <1>1, <1>5
<1> QED BY <1>4, <1>6 DEF Endless

\* The open episode ends.
LEMMA EpisodeEnds == 
  ASSUME NEW acc, NEW rows, NEW i, rows[i].ev = "FAIL_CLOSED_CLEARED", acc.cur # NoEpisode
  PROVE  EpisodeStep(acc, rows, i) = [done |-> Append(acc.done, [acc.cur EXCEPT !.open = FALSE]), cur |-> NoEpisode]
<1> DEFINE a1 == [acc EXCEPT !.cur = EpisodeFrom(rows, i)]
           a2 == [done |-> Append(acc.done, [acc.cur EXCEPT !.open = FALSE]), cur |-> NoEpisode]
           a3 == [acc EXCEPT !.cur.reasons = @ (+) SetToBag({rows[i].ev})]
<1>1. EpisodeStep(acc, rows, i) =
        CASE rows[i].ev = "FAIL_CLOSED_ENTERED" /\ acc.cur = NoEpisode -> a1
          [] rows[i].ev = "FAIL_CLOSED_CLEARED" /\ acc.cur # NoEpisode -> a2
          [] acc.cur # NoEpisode /\ rows[i].ev \notin Boundary \cup Human -> a3
          [] OTHER -> acc
  BY Zenon DEF EpisodeStep
<1>2. rows[i].ev # "FAIL_CLOSED_ENTERED" /\ ~(rows[i].ev \notin Boundary \cup Human)
  BY DEF Boundary
<1> HIDE DEF a1, a2, a3
<1>3. EpisodeStep(acc, rows, i) = a2
  BY <1>1, <1>2
<1> QED BY <1>3 DEF a2

\* One more row, and one more beginning if it is one.
LEMMA ByOneMore ==
  ASSUME NEW K, NEW M, Plain(K, M), NEW C, NEW s, Begins(K, M, C, s),
         NEW n \in 0..(M - 1), NEW c, By(s, C, n, c)
  PROVE  /\ n + 1 \in BlindFrom(K) => By(s, C, n + 1, c + 1) /\ s[c + 1] = n + 1 /\ c + 1 \in 1..C
         /\ n + 1 \notin BlindFrom(K) => By(s, C, n + 1, c)
<1>1. /\ M \in Nat /\ C \in Nat /\ s \in [1..C -> 1..M] /\ \A k, l \in 1..C : k < l => s[k] < s[l]
      /\ \A i : i \in BlindFrom(K) <=> \E k \in 1..C : s[k] = i
      /\ c \in 0..C /\ \A l \in 1..C : s[l] <= n <=> l <= c
  BY DEF Plain, Rows, Begins, By
<1>2. \A l \in 1..C : s[l] \in Int
  BY <1>1
<1>3. CASE n + 1 \notin BlindFrom(K)
  <2>1. \A l \in 1..C : s[l] # n + 1
    BY <1>1, <1>3
  <2>2. \A l \in 1..C : s[l] <= n + 1 <=> l <= c
    BY <1>1, <1>2, <2>1
  <2> QED BY <1>1, <1>3, <2>2 DEF By
<1>4. CASE n + 1 \in BlindFrom(K)
  <2>1. PICK l \in 1..C : s[l] = n + 1
    BY <1>1, <1>4
  <2>2. l = c + 1
    <3>1. ~(l <= c)
      BY <1>1, <2>1
    <3>2. ASSUME c + 1 < l PROVE FALSE
      <4>1. c + 1 \in 1..C
        BY <1>1, <3>2
      <4>2. s[c + 1] < n + 1
        BY <1>1, <2>1, <3>2, <4>1
      <4>3. s[c + 1] <= n
        BY <1>2, <4>1, <4>2
      <4>4. c + 1 <= c
        BY <1>1, <4>1, <4>3
      <4> QED BY <1>1, <4>4
    <3> QED BY <1>1, <3>1, <3>2
  <2>3. \A j \in 1..C : s[j] <= n + 1 <=> j <= c + 1
    <3> TAKE j \in 1..C
    <3>1. s[j] = n + 1 <=> j = l
      <4>1. j < l => s[j] < s[l]
        BY <1>1
      <4>2. l < j => s[l] < s[j]
        BY <1>1
      <4> QED BY <1>2, <2>1, <4>1, <4>2
    <3>2. s[j] <= n <=> j <= c
      BY <1>1
    <3>3. s[j] \in Int /\ n \in Int /\ c \in Int /\ j \in Int /\ l \in Int
      BY <1>1, <1>2
    <3>4. s[j] <= n + 1 <=> s[j] <= n \/ s[j] = n + 1
      BY <3>3
    <3>5. j <= c + 1 <=> j <= c \/ j = l
      BY <2>2, <3>3
    <3> QED BY <3>1, <3>2, <3>4, <3>5
  <2>4. c + 1 \in 1..C
    BY <2>2
  <2>5. c + 1 \in 0..C
    BY <1>1, <2>4
  <2> QED BY <1>4, <2>1, <2>2, <2>3, <2>4, <2>5 DEF By
<1> QED BY <1>3, <1>4

\* What the loop knows, after n rows.
Knows(K, M, C, s, acc, n) ==
  \E c : By(s, C, n, c) /\ (Between(K, s, c, acc, n) \/ Within(K, s, c, acc, n))

\* A draft is an episode.
LEMMA DraftIsOne ==
  ASSUME NEW K, NEW M, Plain(K, M), NEW i \in 1..M, NEW n
  PROVE  Draft(K, i, n) # NoEpisode
<1>1. K[i].seq # 0 /\ Draft(K, i, n).seq = K[i].seq
  BY DEF Plain, Rows, Draft
<1> QED BY <1>1 DEF NoEpisode

\* Between two episodes, one begins or nothing happens.
LEMMA KnowsBetween ==
  ASSUME NEW K, NEW M, Plain(K, M), NEW C, NEW s, Begins(K, M, C, s),
         NEW n \in 0..(M - 1), NEW c, By(s, C, n, c), NEW acc, Between(K, s, c, acc, n)
  PROVE  Knows(K, M, C, s, EpisodeStep(acc, K, n + 1), n + 1)
<1>1. M \in Nat /\ n + 1 \in 1..M /\ c \in 0..C /\ C \in Nat
  BY DEF Plain, Rows, By, Begins
<1>2. acc = [done |-> Ended(K, s, c), cur |-> NoEpisode] /\ AllEnded(K, n)
  BY DEF Between
<1>3. n + 1 \in BlindFrom(K) <=> K[n + 1].ev = "FAIL_CLOSED_ENTERED"
  BY <1>2, BeginsHere
<1>4. PICK nxt : nxt = EpisodeStep(acc, K, n + 1)
  OBVIOUS
<1>5. CASE K[n + 1].ev = "FAIL_CLOSED_ENTERED"
  <2>1. By(s, C, n + 1, c + 1) /\ s[c + 1] = n + 1
    BY <1>3, <1>5, ByOneMore
  <2>2. PICK d : d = EpisodeFrom(K, n + 1)
    OBVIOUS
  <2>3. nxt = [acc EXCEPT !.cur = d]
    BY <1>2, <1>4, <1>5, <2>2 DEF EpisodeStep
  <2>4. d = Draft(K, n + 1, n + 1)
    BY <1>1, <2>2, DraftBegins
  <2>5. c + 1 - 1 = c /\ n + 1 <= n + 1
    BY <1>1
  <2>6. nxt = [done |-> Ended(K, s, c), cur |-> d]
    BY <1>2, <2>3
  <2>7. Endless(K, n + 1, n + 1)
    BY <1>1, <1>5 DEF Endless
  <2>8. Within(K, s, c + 1, nxt, n + 1)
    <3>1. Endless(K, s[c + 1], n + 1) /\ s[c + 1] <= n + 1
      BY <2>1, <2>5, <2>7, Zenon
    <3>2. PICK E : E = Ended(K, s, c)
      OBVIOUS
    <3>3. c + 1 >= 1
      BY <1>1
    <3>4. PICK b, m : b = c + 1 /\ m = n + 1
      OBVIOUS
    <3>5. b >= 1 /\ s[b] <= m /\ Endless(K, s[b], m)
      BY <3>1, <3>3, <3>4
    <3>6. nxt = [done |-> Ended(K, s, b - 1), cur |-> Draft(K, s[b], m)]
      <4>1. b - 1 = c /\ s[b] = m
        <5>1. b - 1 = c
          BY <1>1, <3>4
        <5>2. s[b] = m
          BY <2>1, <3>4, Zenon
        <5> QED BY <5>1, <5>2
      <4>2. E = Ended(K, s, b - 1)
        BY <3>2, <4>1, Zenon
      <4>3. d = Draft(K, s[b], m)
        BY <2>4, <3>4, <4>1
      <4> QED BY <2>6, <3>2, <4>2, <4>3
    <3>7. Within(K, s, b, nxt, m)
      BY <3>5, <3>6, Zenon DEF Within
    <3> QED BY <3>4, <3>7, Zenon
  <2> QED BY <1>4, <2>1, <2>8 DEF Knows
<1>6. CASE K[n + 1].ev # "FAIL_CLOSED_ENTERED"
  <2>1. By(s, C, n + 1, c)
    BY <1>3, <1>6, ByOneMore
  <2>2. nxt = acc
    BY <1>2, <1>4, <1>6 DEF EpisodeStep
  <2>3. AllEnded(K, n + 1)
    <3>1. ASSUME NEW j \in 1..(n + 1), K[j].ev = "FAIL_CLOSED_ENTERED"
          PROVE  \E k \in j..(n + 1) : K[k].ev = "FAIL_CLOSED_CLEARED"
      <4>1. j \in 1..n
        BY <1>1, <1>6, <3>1
      <4>2. PICK k \in j..n : K[k].ev = "FAIL_CLOSED_CLEARED"
        BY <1>2, <3>1, <4>1 DEF AllEnded
      <4>3. k \in j..(n + 1)
        BY <1>1
      <4> QED BY <4>2, <4>3
    <3> QED BY <3>1 DEF AllEnded
  <2>4. Between(K, s, c, nxt, n + 1)
    BY <1>2, <2>2, <2>3 DEF Between
  <2> QED BY <1>4, <2>1, <2>4 DEF Knows
<1> QED BY <1>5, <1>6

\* Within one, it ends or goes on.
LEMMA KnowsWithin ==
  ASSUME NEW K, NEW M, Plain(K, M), NEW C, NEW s, Begins(K, M, C, s),
         NEW n \in 0..(M - 1), NEW c, By(s, C, n, c), NEW acc, Within(K, s, c, acc, n)
  PROVE  Knows(K, M, C, s, EpisodeStep(acc, K, n + 1), n + 1)
<1>1. M \in Nat /\ n + 1 \in 1..M /\ c \in 0..C /\ C \in Nat /\ K[n + 1].ev \notin Human
  BY DEF Plain, Rows, By, Begins
<1>2. c >= 1 /\ s[c] <= n /\ Endless(K, s[c], n)
  BY DEF Within
<1>3. PICK d, x, i : d = Ended(K, s, c - 1) /\ i = s[c] /\ x = Draft(K, i, n)
  OBVIOUS
<1>4. acc = [done |-> d, cur |-> x]
  BY <1>3 DEF Within
<1>5. i \in 1..n /\ i \in 1..M /\ K[i].ev = "FAIL_CLOSED_ENTERED" /\ n \in i..(M - 1) /\ n \in i..M
  <2>1. c \in 1..C /\ s[c] \in 1..M /\ s[c] \in BlindFrom(K)
    BY <1>1, <1>2 DEF Begins
  <2>2. i \in 1..M /\ i <= n
    BY <1>2, <1>3, <2>1
  <2>3. i \in 1..n /\ n \in i..(M - 1) /\ n \in i..M
    BY <1>1, <2>2
  <2> QED BY <1>3, <2>1, <2>2, <2>3 DEF BlindFrom
<1>6. n + 1 \notin BlindFrom(K)
  BY <1>2, <1>3, <1>5, BeginsNotWithin
<1>7. By(s, C, n + 1, c)
  BY <1>6, ByOneMore
<1>8. x # NoEpisode
  BY <1>3, <1>5, DraftIsOne
<1>9. PICK nxt : nxt = EpisodeStep(acc, K, n + 1)
  OBVIOUS
<1>10. i <= n + 1
  BY <1>5
<1>11. ASSUME K[n + 1].ev # "FAIL_CLOSED_CLEARED" PROVE Endless(K, i, n + 1)
  <2>1. ASSUME NEW k \in i..(n + 1) PROVE K[k].ev # "FAIL_CLOSED_CLEARED"
    <3>1. k = n + 1 \/ k \in i..n
      BY <1>5
    <3> QED BY <1>2, <1>3, <1>11, <3>1 DEF Endless
  <2> QED BY <2>1 DEF Endless
<1>12. CASE K[n + 1].ev = "FAIL_CLOSED_CLEARED"
  <2>1. nxt = [done |-> Append(d, [x EXCEPT !.open = FALSE]), cur |-> NoEpisode]
    <3>1. acc.done = d /\ acc.cur = x
      BY <1>4
    <3>2. nxt = [done |-> Append(acc.done, [acc.cur EXCEPT !.open = FALSE]), cur |-> NoEpisode]
      <4>1. acc.cur # NoEpisode
        BY <1>8, <3>1
      <4> QED BY <1>9, <1>12, <4>1, EpisodeEnds
    <3> QED BY <3>1, <3>2, Zenon
  <2>2. ReferenceEpisode(K, i) = [x EXCEPT !.open = (n = M)]
    BY <1>2, <1>3, <1>5, <1>12, DraftEnds
  <2>3. (n = M) = FALSE
    BY <1>5
  <2>4. PICK e : e = ReferenceEpisode(K, i)
    OBVIOUS
  <2>5. [x EXCEPT !.open = FALSE] = e
    BY <2>2, <2>3, <2>4
  <2>6. Append(d, e) = Ended(K, s, c)
    <3>1. d = [l \in 1..(c - 1) |-> ReferenceEpisode(K, s[l])] /\ c - 1 \in Nat
      BY <1>1, <1>2, <1>3 DEF Ended
    <3>2. Ended(K, s, c) = [l \in 1..c |-> ReferenceEpisode(K, s[l])]
      BY DEF Ended
    <3>3. PICK S : S = {ReferenceEpisode(K, s[l]) : l \in 1..c}
      OBVIOUS
    <3>4. \A l \in 1..(c - 1) : l \in 1..c
      BY <1>1
    <3>5. e \in S /\ d \in [1..(c - 1) -> S]
      BY <1>1, <1>2, <1>3, <2>4, <3>1, <3>3, <3>4
    <3>6. d \in Seq(S) /\ Len(d) = c - 1
      BY <3>1, <3>5, IsSeq
    <3>7. PICK f : f = Append(d, e)
      OBVIOUS
    <3>8. f \in Seq(S) /\ DOMAIN f = 1..((c - 1) + 1) /\ f[(c - 1) + 1] = e
          /\ \A l \in 1..(c - 1) : f[l] = d[l]
      BY <3>5, <3>6, <3>7, Appended
    <3>9. (c - 1) + 1 = c /\ \A l \in 1..c : l # c => l \in 1..(c - 1)
      BY <1>1
    <3>10. f = [l \in 1..c |-> f[l]]
      BY <3>8, <3>9
    <3>11. \A l \in 1..c : f[l] = ReferenceEpisode(K, s[l])
      BY <1>3, <2>4, <3>1, <3>8, <3>9
    <3> QED BY <3>2, <3>7, <3>10, <3>11
  <2>7. AllEnded(K, n + 1)
    <3>1. \A j \in 1..(n + 1) : n + 1 \in j..(n + 1)
      BY <1>1
    <3> QED BY <1>12, <3>1 DEF AllEnded
  <2>8. Between(K, s, c, nxt, n + 1)
    BY <2>1, <2>5, <2>6, <2>7 DEF Between
  <2> QED BY <1>7, <1>9, <2>8 DEF Knows
<1>13. CASE K[n + 1].ev \notin Boundary
  <2>1. K[n + 1].ev # "FAIL_CLOSED_CLEARED"
    BY <1>13 DEF Boundary
  <2>2. PICK y : y = Draft(K, i, n + 1)
    OBVIOUS
  <2>3. [x EXCEPT !.reasons = @ (+) SetToBag({K[n + 1].ev})] = y
    <3>1. [Draft(K, i, n) EXCEPT !.reasons = @ (+) SetToBag({K[n + 1].ev})] = Draft(K, i, n + 1)
      <4>1. GoesOn(K, i, n)
        BY <1>5, DraftGoesOn
      <4> QED BY <1>13, <4>1, Zenon DEF GoesOn
    <3> QED BY <1>3, <2>2, <3>1, Zenon
  <2>4. nxt = [acc EXCEPT !.cur.reasons = @ (+) SetToBag({K[n + 1].ev})]
    <3>1. K[n + 1].ev \notin Boundary \cup Human
      BY <1>1, <1>13
    <3>2. K[n + 1].ev # "FAIL_CLOSED_ENTERED"
      BY <1>13 DEF Boundary
    <3> QED BY <1>4, <1>8, <1>9, <2>1, <3>1, <3>2 DEF EpisodeStep
  <2>5. nxt = [done |-> d, cur |-> y]
    <3>1. PICK b : b = x.reasons (+) SetToBag({K[n + 1].ev})
      OBVIOUS
    <3>2. nxt = [acc EXCEPT !.cur.reasons = b]
      BY <1>4, <2>4, <3>1
    <3>3. [x EXCEPT !.reasons = b] = y
      BY <2>3, <3>1
    <3> QED BY <1>4, <3>2, <3>3
  <2>6. Within(K, s, c, nxt, n + 1)
    BY <1>2, <1>3, <1>10, <1>11, <2>1, <2>2, <2>5 DEF Within
  <2> QED BY <1>7, <1>9, <2>6 DEF Knows
<1>14. CASE K[n + 1].ev = "FAIL_CLOSED_ENTERED"
  <2>1. nxt = acc
    BY <1>4, <1>8, <1>9, <1>14 DEF EpisodeStep, Boundary
  <2>2. Draft(K, i, n + 1) = x
    <3>1. K[n + 1].ev \in Boundary
      BY <1>14 DEF Boundary
    <3>2. Draft(K, i, n + 1) = Draft(K, i, n)
      <4>1. GoesOn(K, i, n)
        BY <1>5, DraftGoesOn
      <4> QED BY <3>1, <4>1, Zenon DEF GoesOn
    <3> QED BY <1>3, <3>2, Zenon
  <2>3. K[n + 1].ev # "FAIL_CLOSED_CLEARED"
    BY <1>14
  <2>4. Within(K, s, c, nxt, n + 1)
    BY <1>2, <1>3, <1>4, <1>10, <1>11, <2>1, <2>2, <2>3 DEF Within
  <2> QED BY <1>7, <1>9, <2>4 DEF Knows
<1> QED BY <1>12, <1>13, <1>14 DEF Boundary

\* The issuer's episodes are those that begin.
LEMMA ReferenceIs ==
  ASSUME NEW K, NEW M, Rows(K, M)
  PROVE  \E C, s : Begins(K, M, C, s) /\ ReferenceEpisodes(K) = Ended(K, s, C)
<1>1. M \in Nat /\ DOMAIN K = 1..M
  BY DEF Rows
<1>2. PICK S : S = BlindFrom(K)
  OBVIOUS
<1>3. IsFiniteSet(S) /\ S \subseteq Nat /\ S \subseteq 1..M
  <2>1. IsFiniteSet(1..M)
    BY <1>1, FS_Interval
  <2>2. S \subseteq 1..M
    BY <1>1, <1>2 DEF BlindFrom
  <2>3. S \subseteq Nat
    BY <1>1, <2>2
  <2>4. IsFiniteSet(S)
    BY <2>1, <2>2, FS_Subset
  <2> QED BY <2>2, <2>3, <2>4
<1>4. PICK s : s = [k \in 1..Cardinality(S) |-> CHOOSE x \in S : Cardinality({y \in S : y < x}) = k - 1]
  OBVIOUS
<1>5. Enumerates(S, s)
  BY <1>3, <1>4, RankedNumbers
<1>6. PICK C : C = Cardinality(S)
  OBVIOUS
<1>7. C \in Nat /\ s \in [1..C -> S] /\ DOMAIN s = 1..C /\ (\A k, l \in 1..C : k < l => s[k] < s[l])
      /\ \A x \in S : \E k \in 1..C : s[k] = x
  BY <1>5, <1>6 DEF Enumerates
<1>8. Begins(K, M, C, s)
  <2>1. s \in [1..C -> 1..M]
    BY <1>3, <1>7
  <2>2. \A i : i \in S <=> \E k \in 1..C : s[k] = i
    BY <1>7
  <2> QED BY <1>2, <1>7, <2>1, <2>2 DEF Begins
<1>9. ReferenceEpisodes(K) = [k \in DOMAIN s |-> ReferenceEpisode(K, s[k])]
  BY <1>2, <1>4 DEF ReferenceEpisodes, Ranked
<1>10. ReferenceEpisodes(K) = Ended(K, s, C)
  BY <1>7, <1>9 DEF Ended
<1> QED BY <1>8, <1>10

\* The loop keeps what it knows.
LEMMA KnowsOn ==
  ASSUME NEW K, NEW M, NEW C, NEW s, NEW acc, NEW n \in 0..(M - 1),
         Plain(K, M), Begins(K, M, C, s), Knows(K, M, C, s, acc, n)
  PROVE  Knows(K, M, C, s, EpisodeStep(acc, K, n + 1), n + 1)
<1>1. PICK c : By(s, C, n, c) /\ (Between(K, s, c, acc, n) \/ Within(K, s, c, acc, n))
  BY DEF Knows
<1>2. CASE Between(K, s, c, acc, n)
  BY <1>1, <1>2, KnowsBetween
<1>3. CASE Within(K, s, c, acc, n)
  BY <1>1, <1>3, KnowsWithin
<1> QED BY <1>1, <1>2, <1>3

\* It begins with nothing.
LEMMA KnowsFirst ==
  ASSUME NEW K, NEW M, NEW C, NEW s, Begins(K, M, C, s)
  PROVE  Knows(K, M, C, s, Untold, 0)
<1>1. C \in Nat /\ \A l \in 1..C : s[l] \in Nat /\ s[l] >= 1
  BY DEF Begins
<1>2. By(s, C, 0, 0)
  BY <1>1 DEF By
<1>3. Ended(K, s, 0) = <<>>
  BY DEF Ended
<1>4. AllEnded(K, 0)
  BY DEF AllEnded
<1>5. Between(K, s, 0, Untold, 0)
  BY <1>3, <1>4 DEF Between, Untold
<1> QED BY <1>2, <1>5 DEF Knows

\* Nothing is changed by what is there already.
LEMMA SameAgain ==
  ASSUME NEW f, f = [j \in DOMAIN f |-> f[j]], NEW k
  PROVE  [f EXCEPT ![k] = f[k]] = f
OBVIOUS

\* And tells, at the end of the rows, the issuer's episodes.
LEMMA KnowsAll ==
  ASSUME NEW K, NEW M, NEW C, NEW s, NEW acc,
         Plain(K, M), Begins(K, M, C, s), Knows(K, M, C, s, acc, M)
  PROVE  (IF acc.cur = NoEpisode THEN acc.done ELSE Append(acc.done, acc.cur)) = Ended(K, s, C)
<1>1. M \in Nat /\ C \in Nat /\ \A l \in 1..C : s[l] \in 1..M
  BY DEF Plain, Rows, Begins
<1>2. PICK c : By(s, C, M, c) /\ (Between(K, s, c, acc, M) \/ Within(K, s, c, acc, M))
  BY DEF Knows
<1>3. c = C
  <2>1. c \in 0..C /\ \A l \in 1..C : s[l] <= M <=> l <= c
    BY <1>2 DEF By
  <2>2. CASE C = 0
    BY <2>1, <2>2
  <2>3. CASE C # 0
    <3>1. C \in 1..C
      BY <1>1, <2>3
    <3>2. s[C] \in 1..M
      BY <1>1, <3>1
    <3>3. s[C] <= M
      BY <1>1, <3>2
    <3>4. C <= c
      BY <2>1, <3>1, <3>3
    <3> QED BY <1>1, <2>1, <3>4
  <2> QED BY <2>2, <2>3
<1>4. CASE Between(K, s, c, acc, M)
  BY <1>3, <1>4 DEF Between
<1>5. CASE Within(K, s, c, acc, M)
  <2>1. C >= 1 /\ s[C] <= M /\ Endless(K, s[C], M)
        /\ acc = [done |-> Ended(K, s, C - 1), cur |-> Draft(K, s[C], M)]
    BY <1>3, <1>5 DEF Within
  <2>2. PICK i, d, x : i = s[C] /\ d = Ended(K, s, C - 1) /\ x = Draft(K, i, M)
    OBVIOUS
  <2>3. acc.done = d /\ acc.cur = x
    BY <2>1, <2>2
  <2>4. C \in 1..C /\ i \in 1..M /\ M \in i..M
    BY <1>1, <2>1, <2>2
  <2>5. x # NoEpisode
    BY <2>2, <2>4, DraftIsOne
  <2>6. x = ReferenceEpisode(K, i)
    <3>1. Endless(K, i, M)
      BY <2>1, <2>2
    <3>2. ReferenceEpisode(K, i) = [Draft(K, i, M) EXCEPT !.open = (M = M)]
      BY <2>4, <3>1, DraftEnds
    <3>3. x.open = TRUE /\ x = [x EXCEPT !.open = TRUE]
      <4>1. x.open = TRUE
        BY <2>2 DEF Draft
      <4>2. x = [k \in DOMAIN x |-> x[k]]
        BY <2>2 DEF Draft
      <4>3. [x EXCEPT !.open = x.open] = x
        BY <4>2, SameAgain
      <4> QED BY <4>1, <4>3
    <3> QED BY <2>2, <3>2, <3>3
  <2>7. Append(d, x) = Ended(K, s, C)
    <3>1. d = [l \in 1..(C - 1) |-> ReferenceEpisode(K, s[l])] /\ C - 1 \in Nat
      BY <1>1, <2>1, <2>2 DEF Ended
    <3>2. Ended(K, s, C) = [l \in 1..C |-> ReferenceEpisode(K, s[l])]
      BY DEF Ended
    <3>3. PICK S : S = {ReferenceEpisode(K, s[l]) : l \in 1..C}
      OBVIOUS
    <3>4. \A l \in 1..(C - 1) : l \in 1..C
      BY <1>1
    <3>5. x \in S /\ d \in [1..(C - 1) -> S]
      BY <2>2, <2>4, <2>6, <3>1, <3>3, <3>4
    <3>6. d \in Seq(S) /\ Len(d) = C - 1
      BY <3>1, <3>5, IsSeq
    <3>7. PICK f : f = Append(d, x)
      OBVIOUS
    <3>8. f \in Seq(S) /\ DOMAIN f = 1..((C - 1) + 1) /\ f[(C - 1) + 1] = x
          /\ \A l \in 1..(C - 1) : f[l] = d[l]
      BY <3>5, <3>6, <3>7, Appended
    <3>9. (C - 1) + 1 = C /\ \A l \in 1..C : l # C => l \in 1..(C - 1)
      BY <1>1
    <3>10. f = [l \in 1..C |-> f[l]]
      BY <3>8, <3>9
    <3>11. \A l \in 1..C : f[l] = ReferenceEpisode(K, s[l])
      BY <2>2, <2>6, <3>1, <3>8, <3>9
    <3> QED BY <3>2, <3>7, <3>10, <3>11
  <2> QED BY <2>3, <2>5, <2>7
<1> QED BY <1>2, <1>4, <1>5

\* The verifier's loop and the issuer's count agree on the episodes.
LEMMA EpisodesAgree ==
  ASSUME NEW K, NEW M, Plain(K, M)
  PROVE  Episodes(K) = ReferenceEpisodes(K)
<1>1. M \in Nat /\ Rows(K, M) /\ Len(K) = M
  BY DEF Plain, Rows
<1>2. PICK C, s : Begins(K, M, C, s) /\ ReferenceEpisodes(K) = Ended(K, s, C)
  BY <1>1, ReferenceIs
<1>3. PICK g : /\ Tells(g, K, M)
               /\ Episodes(K) = IF g[M].cur = NoEpisode THEN g[M].done ELSE Append(g[M].done, g[M].cur)
  BY <1>1, EpisodesConclude
<1>4. g[0] = Untold /\ \A k \in 0..(M - 1) : g[k + 1] = EpisodeStep(g[k], K, k + 1)
  <2>1. Runs(g, K, M)
    BY <1>1, <1>3, TaleRuns, Zenon
  <2> QED BY <2>1 DEF Runs
<1> DEFINE P == {n \in Nat : n <= M => Knows(K, M, C, s, g[n], n)}
<1>5. 0 \in P
  BY <1>2, <1>4, KnowsFirst
<1>6. ASSUME NEW n \in Nat, n \in P PROVE n + 1 \in P
  <2> SUFFICES ASSUME n + 1 <= M PROVE Knows(K, M, C, s, g[n + 1], n + 1)
    OBVIOUS
  <2>1. n \in 0..(M - 1) /\ n <= M
    BY <1>1
  <2>2. Knows(K, M, C, s, g[n], n)
    BY <1>6, <2>1
  <2>3. Knows(K, M, C, s, EpisodeStep(g[n], K, n + 1), n + 1)
    BY <1>2, <2>1, <2>2, KnowsOn
  <2> QED BY <1>4, <2>1, <2>3
<1>7. M \in P
  <2>1. Nat \subseteq P
    <3> HIDE DEF P
    <3> QED BY <1>5, <1>6, NatSetInduction
  <2> QED BY <1>1, <2>1
<1>8. Knows(K, M, C, s, g[M], M)
  BY <1>1, <1>7
<1>9. PICK acc : acc = g[M]
  OBVIOUS
<1>10. (IF acc.cur = NoEpisode THEN acc.done ELSE Append(acc.done, acc.cur)) = Ended(K, s, C)
  BY <1>2, <1>8, <1>9, KnowsAll
<1> QED BY <1>2, <1>3, <1>9, <1>10

-----------------------------------------------------------------------------
(* The limit *)

\* At the end of the rows the guardian does not see; an episode is open.
Unseen(R, L) == \E j \in 1..L : R[j].ev = "FAIL_CLOSED_ENTERED" /\ Endless(R, j, L)
OpenEnded(R) == \E i \in BlindFrom(R) : BlindUntil(R, i) > Len(R)

\* An episode that nothing ends.
LEMMA UntilEnd ==
  ASSUME NEW R, NEW L, NEW i \in 1..L, Rows(R, L)
  PROVE  BlindUntil(R, i) > Len(R) <=> Endless(R, i, L)
<1>1. L \in Nat /\ Len(R) = L
  BY DEF Rows
<1>2. PICK S : S = {k \in i..L : R[k].ev = "FAIL_CLOSED_CLEARED"} \cup {L + 1}
  OBVIOUS
<1>3. BlindUntil(R, i) = Min(S)
  BY <1>1, <1>2 DEF BlindUntil
<1>4. S \subseteq Nat /\ S # {}
  BY <1>1, <1>2
<1>5. PICK m \in S : \A y \in S : m <= y
  BY <1>4, FiniteMin
<1>6. PICK x : x = Min(S)
  OBVIOUS
<1>7. x \in S /\ \A y \in S : x <= y
  BY <1>5, <1>6 DEF Min
<1>8. ASSUME Endless(R, i, L) PROVE x > L
  <2>1. \A k \in i..L : R[k].ev # "FAIL_CLOSED_CLEARED"
    BY <1>8 DEF Endless
  <2>2. x = L + 1
    BY <1>2, <1>7, <2>1
  <2> QED BY <1>1, <2>2
<1>9. ASSUME x > L PROVE Endless(R, i, L)
  <2>1. ASSUME NEW k \in i..L, R[k].ev = "FAIL_CLOSED_CLEARED" PROVE FALSE
    <3>1. k \in S
      BY <1>2, <2>1
    <3>2. x <= k /\ k <= L
      BY <1>7, <3>1
    <3>3. x \in Nat
      BY <1>4, <1>7
    <3> QED BY <1>1, <1>9, <3>2, <3>3
  <2> QED BY <2>1 DEF Endless
<1> QED BY <1>1, <1>3, <1>6, <1>8, <1>9

\* An episode of the range is open exactly when one begins that nothing ends.
LEMMA OpenIsUnseen ==
  ASSUME NEW R, NEW L, Rows(R, L)
  PROVE  OpenEnded(R) <=> Unseen(R, L)
<1>1. L \in Nat /\ DOMAIN R = 1..L
  BY DEF Rows
<1>2. ASSUME OpenEnded(R) PROVE Unseen(R, L)
  <2>1. PICK i \in BlindFrom(R) : BlindUntil(R, i) > Len(R)
    BY <1>2 DEF OpenEnded
  <2>2. i \in 1..L /\ R[i].ev = "FAIL_CLOSED_ENTERED"
    BY <1>1 DEF BlindFrom
  <2>3. Endless(R, i, L)
    BY <2>1, <2>2, UntilEnd
  <2> QED BY <2>2, <2>3 DEF Unseen
<1>3. ASSUME Unseen(R, L) PROVE OpenEnded(R)
  <2>1. PICK S : S = {j \in 1..L : R[j].ev = "FAIL_CLOSED_ENTERED" /\ Endless(R, j, L)}
    OBVIOUS
  <2>2. S # {} /\ S \subseteq Nat
    BY <1>1, <1>3, <2>1 DEF Unseen
  <2>3. PICK i \in S : \A y \in S : i <= y
    BY <2>2, FiniteMin
  <2>4. i \in 1..L /\ R[i].ev = "FAIL_CLOSED_ENTERED" /\ Endless(R, i, L)
    BY <2>1
  <2>5. ASSUME NEW j \in 1..(i - 1), R[j].ev = "FAIL_CLOSED_ENTERED"
        PROVE  \E k \in j..i : R[k].ev = "FAIL_CLOSED_CLEARED"
    <3>1. j \in 1..L /\ j < i
      BY <1>1, <2>4
    <3>2. j \notin S
      BY <2>2, <2>3, <3>1
    <3>3. ~Endless(R, j, L)
      BY <2>1, <2>5, <3>1, <3>2
    <3>4. PICK k \in j..L : R[k].ev = "FAIL_CLOSED_CLEARED"
      BY <3>3 DEF Endless
    <3>5. k \notin i..L
      BY <2>4, <3>4 DEF Endless
    <3>6. k \in j..i
      BY <1>1, <2>4, <3>1, <3>5
    <3> QED BY <3>4, <3>6
  <2>6. i \in BlindFrom(R)
    BY <1>1, <2>4, <2>5 DEF BlindFrom
  <2>7. BlindUntil(R, i) > Len(R)
    BY <2>4, UntilEnd
  <2> QED BY <2>6, <2>7 DEF OpenEnded
<1> QED BY <1>2, <1>3

\* The words of a person change nothing about it.
LEMMA UnseenSame ==
  ASSUME NEW R, NEW L, NEW K, NEW M, NEW r, Kept(R, L, K, M, r)
  PROVE  Unseen(R, L) <=> Unseen(K, M)
<1>1. /\ L \in Nat /\ M \in Nat /\ r \in [1..M -> 1..L] /\ \A i, l \in 1..M : i < l => r[i] < r[l]
      /\ \A i \in 1..M : K[i] = R[r[i]]
      /\ \A i \in 1..L : R[i].ev \notin Human => \E l \in 1..M : r[l] = i
  BY DEF Kept, Rows
<1>2. "FAIL_CLOSED_ENTERED" \notin Human /\ "FAIL_CLOSED_CLEARED" \notin Human
  BY DEF Human
<1>3. ASSUME Unseen(R, L) PROVE Unseen(K, M)
  <2>1. PICK j \in 1..L : R[j].ev = "FAIL_CLOSED_ENTERED" /\ Endless(R, j, L)
    BY <1>3 DEF Unseen
  <2>2. PICK l \in 1..M : r[l] = j
    BY <1>1, <1>2, <2>1
  <2>3. ASSUME NEW k \in l..M PROVE K[k].ev # "FAIL_CLOSED_CLEARED"
    <3>1. k \in 1..M /\ r[k] \in 1..L /\ r[l] \in 1..L /\ (k = l \/ l < k)
      BY <1>1
    <3>2. r[k] \in j..L
      BY <1>1, <2>2, <3>1
    <3> QED BY <1>1, <2>1, <3>1, <3>2 DEF Endless
  <2>4. K[l].ev = "FAIL_CLOSED_ENTERED"
    BY <1>1, <2>1, <2>2
  <2>5. Endless(K, l, M)
    BY <2>3 DEF Endless
  <2> QED BY <2>4, <2>5 DEF Unseen
<1>4. ASSUME Unseen(K, M) PROVE Unseen(R, L)
  <2>1. PICK l \in 1..M : K[l].ev = "FAIL_CLOSED_ENTERED" /\ Endless(K, l, M)
    BY <1>4 DEF Unseen
  <2>2. PICK j \in 1..L : j = r[l]
    BY <1>1
  <2>3. ASSUME NEW k \in j..L, R[k].ev = "FAIL_CLOSED_CLEARED" PROVE FALSE
    <3>1. k \in 1..L /\ k >= j
      BY <1>1
    <3>2. PICK i \in 1..M : r[i] = k
      BY <1>1, <1>2, <2>3, <3>1
    <3>3. ~(i < l)
      BY <1>1, <2>2, <3>1, <3>2
    <3>4. i \in l..M
      BY <1>1, <3>3
    <3>5. K[i].ev = "FAIL_CLOSED_CLEARED"
      BY <1>1, <2>3, <3>2
    <3> QED BY <2>1, <3>4, <3>5 DEF Endless
  <2>4. R[j].ev = "FAIL_CLOSED_ENTERED"
    BY <1>1, <2>1, <2>2
  <2>5. Endless(R, j, L)
    BY <2>3 DEF Endless
  <2> QED BY <2>4, <2>5 DEF Unseen
<1> QED BY <1>3, <1>4

\* What the verifier makes of the limit over a whole chain is what is true of it.
LEMMA LimitAgrees ==
  ASSUME NEW R, NEW L, NEW K, NEW M, NEW r, Kept(R, L, K, M, r), NEW S, R \in Seq(S)
  PROVE  ReferenceLimit(K) = ReferenceLimit(R) /\ LimitStatus(R, TRUE) = ReferenceLimit(R)
<1>1. /\ Rows(R, L) /\ Rows(K, M) /\ L \in Nat /\ M \in Nat /\ DOMAIN R = 1..L /\ DOMAIN K = 1..M
      /\ r \in [1..M -> 1..L] /\ \A i \in 1..M : K[i] = R[r[i]] /\ K[i].ev \notin Human
      /\ \A i \in 1..L : R[i].ev \notin Human => \E l \in 1..M : r[l] = i
  BY DEF Kept, Rows
<1>2. PICK open \in BOOLEAN : open <=> Unseen(R, L)
  OBVIOUS
<1>3. (OpenEnded(R) <=> open) /\ (OpenEnded(K) <=> open)
  BY <1>1, <1>2, OpenIsUnseen, UnseenSame
<1>4. PICK hit \in BOOLEAN : hit <=> \E i \in 1..L : R[i].ev = "LIMIT_BREACHED"
  OBVIOUS
<1>5. hit <=> \E i \in 1..M : K[i].ev = "LIMIT_BREACHED"
  <2>1. "LIMIT_BREACHED" \notin Human
    BY DEF Human
  <2> QED BY <1>1, <1>4, <2>1
<1>6. ReferenceLimit(R) = IF hit THEN "breached" ELSE IF open THEN "undetermined" ELSE "respected"
  BY <1>1, <1>3, <1>4 DEF ReferenceLimit, OpenEnded
<1>7. ReferenceLimit(K) = IF hit THEN "breached" ELSE IF open THEN "undetermined" ELSE "respected"
  BY <1>1, <1>3, <1>5 DEF ReferenceLimit, OpenEnded
<1>8. Count(R, "LIMIT_BREACHED") > 0 <=> hit
  <2>1. PICK T : T = {i \in DOMAIN R : R[i].ev = "LIMIT_BREACHED"}
    OBVIOUS
  <2>2. IsFiniteSet(T) /\ Count(R, "LIMIT_BREACHED") = Cardinality(T) /\ Cardinality(T) \in Nat
    BY <2>1, CountType DEF Count
  <2>3. Cardinality(T) = 0 <=> T = {}
    BY <2>2, FS_EmptySet
  <2>4. T # {} <=> hit
    BY <1>1, <1>4, <2>1
  <2> QED BY <2>2, <2>3, <2>4
<1>9. (\E e \in ToSet(Episodes(R)) : e.open) <=> open
  <2>1. Plain(K, M)
    BY <1>1 DEF Plain
  <2>2. Episodes(R) = ReferenceEpisodes(K)
    BY <2>1, EpisodesSame, EpisodesAgree
  <2>3. PICK C, s : Begins(K, M, C, s) /\ ReferenceEpisodes(K) = Ended(K, s, C)
    BY <1>1, ReferenceIs
  <2>4. ToSet(Episodes(R)) = {ReferenceEpisode(K, i) : i \in BlindFrom(K)}
    <3>1. PICK f : f = Ended(K, s, C)
      OBVIOUS
    <3>2. DOMAIN f = 1..C /\ \A l \in 1..C : f[l] = ReferenceEpisode(K, s[l])
      BY <3>1 DEF Ended
    <3>3. ToSet(f) = {f[l] : l \in DOMAIN f}
      BY DEF ToSet
    <3>4. \A i : i \in BlindFrom(K) <=> \E l \in 1..C : s[l] = i
      BY <2>3 DEF Begins
    <3>5. ToSet(f) = {ReferenceEpisode(K, i) : i \in BlindFrom(K)}
      BY <3>2, <3>3, <3>4
    <3> QED BY <2>2, <2>3, <3>1, <3>5
  <2>5. \A i \in BlindFrom(K) : ReferenceEpisode(K, i).open = (BlindUntil(K, i) > Len(K))
    BY DEF ReferenceEpisode
  <2>6. (\E e \in ToSet(Episodes(R)) : e.open) <=> OpenEnded(K)
    BY <2>4, <2>5 DEF OpenEnded
  <2> QED BY <1>3, <2>6
<1>10. LimitStatus(R, TRUE) = IF hit THEN "breached" ELSE IF open THEN "undetermined" ELSE "respected"
  BY <1>8, <1>9 DEF LimitStatus
<1> QED BY <1>6, <1>7, <1>10

-----------------------------------------------------------------------------
(* The claims *)

\* A kind that is not about a person is as often among the rows as among those that are kept.
LEMMA CountSame ==
  ASSUME NEW R, NEW L, NEW K, NEW M, NEW r, Kept(R, L, K, M, r), NEW ev, ev \notin Human
  PROVE  Cardinality({i \in 1..M : K[i].ev = ev}) = Cardinality({i \in 1..L : R[i].ev = ev})
<1>1. /\ L \in Nat /\ M \in Nat /\ r \in [1..M -> 1..L] /\ \A i, l \in 1..M : i < l => r[i] < r[l]
      /\ \A i \in 1..M : K[i] = R[r[i]]
      /\ \A i \in 1..L : R[i].ev \notin Human => \E l \in 1..M : r[l] = i
  BY DEF Kept, Rows
<1>2. PICK A, B : A = {i \in 1..M : K[i].ev = ev} /\ B = {i \in 1..L : R[i].ev = ev}
  OBVIOUS
<1>3. IsFiniteSet(A)
  <2>1. IsFiniteSet(1..M)
    BY <1>1, FS_Interval
  <2>2. A \in SUBSET (1..M)
    BY <1>2
  <2> QED BY <2>1, <2>2, FS_Subset
<1>4. PICK f : f = [i \in A |-> r[i]]
  OBVIOUS
<1>5. f \in [A -> B]
  <2>1. \A i \in A : r[i] \in B
    BY <1>1, <1>2
  <2> QED BY <1>4, <2>1
<1>6. \A i, l \in A : f[i] = f[l] => i = l
  <2> SUFFICES ASSUME NEW i \in A, NEW l \in A, f[i] = f[l] PROVE i = l
    OBVIOUS
  <2>1. i \in 1..M /\ l \in 1..M /\ r[i] = r[l] /\ r[i] \in 1..L
    BY <1>1, <1>2, <1>4
  <2>2. ~(i < l) /\ ~(l < i)
    BY <1>1, <2>1
  <2> QED BY <2>1, <2>2
<1>7. \A j \in B : \E i \in A : f[i] = j
  <2> SUFFICES ASSUME NEW j \in B PROVE \E i \in A : f[i] = j
    OBVIOUS
  <2>1. PICK i \in 1..M : r[i] = j
    BY <1>1, <1>2
  <2>2. i \in A
    BY <1>1, <1>2, <2>1
  <2> QED BY <1>4, <2>1, <2>2
<1>8. f \in Injection(A, B) /\ f \in Surjection(A, B)
  BY <1>5, <1>6, <1>7 DEF Injection, Surjection, IsInjective
<1>9. Cardinality(A) = Cardinality(B)
  BY <1>3, <1>8, FS_Surjection
<1> QED BY <1>2, <1>9

\* The issuer's numbers are those of the verifier.
Claimed(K) ==
  [lockoutsTriggered |-> Cardinality({i \in DOMAIN K : K[i].ev = "LIMIT_BREACHED"}),
   ordersRejectedWhileLocked |->
     Cardinality({K[i].oid : i \in {j \in DOMAIN K : K[j].ev = "ORDER_REJECTED_LOCKED"}} \ {NoId}),
   clockAnomalies |-> <<Cardinality({i \in DOMAIN K : K[i].ev = "CLOCK_ANOMALY"}),
                        Cardinality({i \in DOMAIN K : K[i].ev = "CLOCK_SUSPECT"})>>,
   changeAttemptsWhileSealed |-> Cardinality({i \in DOMAIN K : K[i].ev = "CONFIG_CHANGE_REJECTED"})]
\* The numbers that are claimed are those that the verifier counts.
LEMMA NumbersAgree ==
  ASSUME NEW R, NEW L, NEW K, NEW M, NEW r, Kept(R, L, K, M, r)
  PROVE  Claimed(K) = Counts(R)
<1>1. /\ DOMAIN R = 1..L /\ DOMAIN K = 1..M /\ r \in [1..M -> 1..L]
      /\ \A i \in 1..M : K[i] = R[r[i]]
      /\ \A i \in 1..L : R[i].ev \notin Human => \E l \in 1..M : r[l] = i
  BY DEF Kept, Rows
<1>2. ASSUME NEW ev, ev \notin Human
      PROVE  Cardinality({i \in DOMAIN K : K[i].ev = ev}) = Count(R, ev)
  <2>1. Cardinality({i \in 1..M : K[i].ev = ev}) = Cardinality({i \in 1..L : R[i].ev = ev})
    BY <1>2, CountSame
  <2>2. Count(R, ev) = Cardinality({i \in DOMAIN R : R[i].ev = ev})
    BY DEF Count
  <2> QED BY <1>1, <2>1, <2>2
<1>3. {K[i].oid : i \in {j \in DOMAIN K : K[j].ev = "ORDER_REJECTED_LOCKED"}}
        = {e.oid : e \in {d \in ToSet(R) : d.ev = "ORDER_REJECTED_LOCKED"}}
  <2>1. PICK S, T : S = {K[i].oid : i \in {j \in DOMAIN K : K[j].ev = "ORDER_REJECTED_LOCKED"}}
                    /\ T = {e.oid : e \in {d \in ToSet(R) : d.ev = "ORDER_REJECTED_LOCKED"}}
    OBVIOUS
  <2>2. \A e : e \in ToSet(R) <=> \E i \in 1..L : e = R[i]
    BY <1>1 DEF ToSet
  <2>3. ASSUME NEW x \in S PROVE x \in T
    <3>1. PICK i \in 1..M : K[i].ev = "ORDER_REJECTED_LOCKED" /\ x = K[i].oid
      BY <1>1, <2>1
    <3>2. R[r[i]] \in ToSet(R) /\ K[i] = R[r[i]]
      BY <1>1, <2>2
    <3> QED BY <2>1, <3>1, <3>2
  <2>4. ASSUME NEW x \in T PROVE x \in S
    <3>1. PICK e \in ToSet(R) : e.ev = "ORDER_REJECTED_LOCKED" /\ x = e.oid
      BY <2>1
    <3>2. PICK i \in 1..L : e = R[i]
      BY <2>2
    <3>3. R[i].ev \notin Human
      BY <3>1, <3>2 DEF Human
    <3>4. PICK l \in 1..M : r[l] = i
      BY <1>1, <3>3
    <3>5. K[l] = e
      BY <1>1, <3>2, <3>4
    <3> QED BY <1>1, <2>1, <3>1, <3>5
  <2> QED BY <2>1, <2>3, <2>4
<1>4. "LIMIT_BREACHED" \notin Human /\ "CLOCK_ANOMALY" \notin Human /\ "CLOCK_SUSPECT" \notin Human
      /\ "CONFIG_CHANGE_REJECTED" \notin Human
  BY DEF Human
<1>5. PICK a, b, c, d, o :
        /\ a = Count(R, "LIMIT_BREACHED") /\ b = Count(R, "CLOCK_ANOMALY") /\ c = Count(R, "CLOCK_SUSPECT")
        /\ d = Count(R, "CONFIG_CHANGE_REJECTED")
        /\ o = Cardinality({e.oid : e \in {t \in ToSet(R) : t.ev = "ORDER_REJECTED_LOCKED"}} \ {NoId})
  OBVIOUS
<1>6. Counts(R) = [lockoutsTriggered |-> a, ordersRejectedWhileLocked |-> o, clockAnomalies |-> <<b, c>>,
                   changeAttemptsWhileSealed |-> d]
  BY <1>5 DEF Counts
<1>7. /\ Cardinality({i \in DOMAIN K : K[i].ev = "LIMIT_BREACHED"}) = a
      /\ Cardinality({i \in DOMAIN K : K[i].ev = "CLOCK_ANOMALY"}) = b
      /\ Cardinality({i \in DOMAIN K : K[i].ev = "CLOCK_SUSPECT"}) = c
      /\ Cardinality({i \in DOMAIN K : K[i].ev = "CONFIG_CHANGE_REJECTED"}) = d
      /\ Cardinality({K[i].oid : i \in {j \in DOMAIN K : K[j].ev = "ORDER_REJECTED_LOCKED"}} \ {NoId}) = o
  BY <1>2, <1>3, <1>4, <1>5
<1>8. Claimed(K) = [lockoutsTriggered |-> a, ordersRejectedWhileLocked |-> o, clockAnomalies |-> <<b, c>>,
                    changeAttemptsWhileSealed |-> d]
  BY <1>7, Zenon DEF Claimed
<1> QED BY <1>6, <1>8

\* Claims that agree with the rows are not contradicted.
Agree(claims, R) ==
  /\ \A k \in DOMAIN Counts(R) \cap DOMAIN claims : claims[k] = Counts(R)[k]
  /\ "failClosedEpisodes" \in DOMAIN claims => ~EpisodesDiffer(Episodes(R), claims.failClosedEpisodes)
  /\ "limitRespected" \in DOMAIN claims =>
       LimitCode(claims.limitRespected, LimitStatus(R, TRUE)) # "CLAIM_MISMATCH"
\* What the comparison says: a contradiction exactly when the claims do not agree.
LEMMA ComparedIs ==
  ASSUME NEW claims, NEW R
  PROVE  \E A \in SUBSET {<<"unverified", "CLAIM_ABSENT">>} : \E C \in SUBSET {<<"unverified", "LIMIT_UNDETERMINED">>} :
           CompareClaims(claims, R, TRUE)
             = A \cup (IF ~Agree(claims, R) THEN {<<"contradiction", "CLAIM_MISMATCH">>} ELSE {}) \cup C
<1>1. PICK n, l : n = Counts(R) /\ l = LimitCode(claims.limitRespected, LimitStatus(R, TRUE))
  OBVIOUS
<1>2. PICK w \in BOOLEAN :
        w <=> \/ \E k \in DOMAIN n \cap DOMAIN claims : claims[k] # n[k]
              \/ /\ "failClosedEpisodes" \in DOMAIN claims
                 /\ EpisodesDiffer(Episodes(R), claims.failClosedEpisodes)
              \/ "limitRespected" \in DOMAIN claims /\ l = "CLAIM_MISMATCH"
  OBVIOUS
<1>3. w <=> ~Agree(claims, R)
  BY <1>1, <1>2 DEF Agree
<1>4. PICK A : A = IF {k \in DOMAIN n \cup {"limitRespected", "failClosedEpisodes"} : k \notin DOMAIN claims} # {}
                   THEN {<<"unverified", "CLAIM_ABSENT">>} ELSE {}
  OBVIOUS
<1>5. PICK C : C = IF "limitRespected" \in DOMAIN claims /\ l = "LIMIT_UNDETERMINED"
                   THEN {<<"unverified", "LIMIT_UNDETERMINED">>} ELSE {}
  OBVIOUS
<1>6. CompareClaims(claims, R, TRUE)
        = A \cup (IF \/ \E k \in DOMAIN n \cap DOMAIN claims : claims[k] # n[k]
                     \/ /\ "failClosedEpisodes" \in DOMAIN claims
                        /\ EpisodesDiffer(Episodes(R), claims.failClosedEpisodes)
                     \/ "limitRespected" \in DOMAIN claims /\ l = "CLAIM_MISMATCH"
                  THEN {<<"contradiction", "CLAIM_MISMATCH">>} ELSE {}) \cup C
  BY <1>1, <1>4, <1>5, Zenon DEF CompareClaims
<1>7. CompareClaims(claims, R, TRUE) = A \cup (IF w THEN {<<"contradiction", "CLAIM_MISMATCH">>} ELSE {}) \cup C
  BY <1>2, <1>6, Zenon
<1>8. CompareClaims(claims, R, TRUE) = A \cup (IF ~Agree(claims, R) THEN {<<"contradiction", "CLAIM_MISMATCH">>} ELSE {}) \cup C
  BY <1>3, <1>7
<1> QED BY <1>4, <1>5, <1>8

\* Claims that agree are at most left unverified.
LEMMA ComparedTrue ==
  ASSUME NEW claims, NEW R, Agree(claims, R)
  PROVE  \A x \in CompareClaims(claims, R, TRUE) : x[1] = "unverified"
<1>1. PICK A \in SUBSET {<<"unverified", "CLAIM_ABSENT">>} :
        \E C \in SUBSET {<<"unverified", "LIMIT_UNDETERMINED">>} :
          CompareClaims(claims, R, TRUE)
            = A \cup (IF ~Agree(claims, R) THEN {<<"contradiction", "CLAIM_MISMATCH">>} ELSE {}) \cup C
  BY ComparedIs, Zenon
<1>2. PICK C \in SUBSET {<<"unverified", "LIMIT_UNDETERMINED">>} :
          CompareClaims(claims, R, TRUE)
            = A \cup (IF ~Agree(claims, R) THEN {<<"contradiction", "CLAIM_MISMATCH">>} ELSE {}) \cup C
  BY <1>1
<1>3. CompareClaims(claims, R, TRUE) = A \cup C
  BY <1>2
<1>4. \A x \in A \cup C : x[1] = "unverified"
  OBVIOUS
<1> QED BY <1>3, <1>4

\* And claims that do not are.
LEMMA ComparedFalse ==
  ASSUME NEW claims, NEW R, ~Agree(claims, R)
  PROVE  "CLAIM_MISMATCH" \in Channel(CompareClaims(claims, R, TRUE), "contradiction")
<1>1. <<"contradiction", "CLAIM_MISMATCH">> \in CompareClaims(claims, R, TRUE)
  BY ComparedIs
<1>2. PICK x, S : x = <<"contradiction", "CLAIM_MISMATCH">> /\ S = CompareClaims(claims, R, TRUE)
  OBVIOUS
<1>3. x \in S /\ x[1] = "contradiction" /\ x[2] = "CLAIM_MISMATCH"
  BY <1>1, <1>2
<1>4. "CLAIM_MISMATCH" \in Channel(S, "contradiction")
  BY <1>3 DEF Channel
<1> QED BY <1>2, <1>4

\* Equal lists of episodes do not differ.
LEMMA NoDifference == \A e : ~EpisodesDiffer(e, e)
BY DEF EpisodesDiffer

\* What a boolean says of the limit is never a mismatch with what is true.
LEMMA LegacyAgrees ==
  ASSUME NEW R
  PROVE  LimitCode(Legacy(ReferenceLimit(R)), ReferenceLimit(R)) # "CLAIM_MISMATCH"
<1>1. PICK x : x = ReferenceLimit(R)
  OBVIOUS
<1>2. x \in {"breached", "undetermined", "respected"}
  BY <1>1 DEF ReferenceLimit
<1>3. LimitCode(Legacy(x), x) # "CLAIM_MISMATCH"
  BY <1>2 DEF LimitCode, Legacy
<1> QED BY <1>1, <1>3

-----------------------------------------------------------------------------
(* The claims of a certificate *)

\* The rows of a certificate.
LEMMA CertRowsAre ==
  ASSUME Guarded, NEW p, Asked(p), NEW n, n = p.to - p.from + 1
  PROVE  /\ n \in Nat /\ n >= 1 /\ CertRows(p) \in Seq(Records) /\ Rows(CertRows(p), n)
         /\ CertRows(p) = [k \in 1..n |-> book[p.from + k - 1]]
<1>1. book \in Seq(Records) /\ Len(book) \in Nat /\ DOMAIN book = 1..Len(book)
      /\ \A i \in 1..Len(book) : book[i] \in Records /\ book[i].seq = i
  BY BookSays
<1>2. PICK b, x, y : b = book /\ x = p.from /\ y = p.to
  OBVIOUS
<1>3. x \in 1..Len(b) /\ y \in x..Len(b)
  BY <1>1, <1>2 DEF Asked
<1>4. PICK t : t = SubSeq(b, x, y)
  OBVIOUS
<1>5. t \in Seq(Records) /\ Len(t) = n /\ DOMAIN t = 1..n /\ \A k \in 1..n : t[k] = b[x + k - 1]
  <2>1. x \in 1..(Len(b) + 1) /\ y \in (x - 1)..Len(b) /\ y - x + 1 = n
    BY <1>1, <1>2, <1>3
  <2>2. LET u == SubSeq(b, x, y)
        IN /\ u \in Seq(Records) /\ Len(u) = y - x + 1 /\ DOMAIN u = 1..(y - x + 1)
           /\ \A k \in 1..(y - x + 1) : u[k] = b[x + k - 1]
    <3>1. b \in Seq(Records) /\ Len(b) \in Nat
      BY <1>1, <1>2
    <3> QED BY <2>1, <3>1, PartIs
  <2> QED BY <1>4, <2>1, <2>2
<1>6. n \in Nat /\ n >= 1
  BY <1>1, <1>2, <1>3
<1>7. CertRows(p) = t
  BY <1>2, <1>4 DEF CertRows
<1>8. \A k \in 1..n : x + k - 1 \in 1..Len(b) /\ t[k].seq # 0
  <2> TAKE k \in 1..n
  <2>1. x + k - 1 \in 1..Len(b)
    BY <1>1, <1>2, <1>3, <1>6
  <2>2. PICK i \in 1..Len(b) : i = x + k - 1
    BY <2>1
  <2>3. t[k].seq = i
    BY <1>1, <1>2, <1>5, <2>2
  <2>4. i # 0
    BY <1>1, <1>2, NumbersBeginAtOne
  <2> QED BY <2>1, <2>3, <2>4
<1>9. t = [k \in 1..n |-> b[x + k - 1]]
  BY <1>5
<1>10. Rows(t, n)
  <2>1. t \in [1..n -> Records]
    BY <1>5
  <2> QED BY <1>5, <1>6, <1>8, <2>1 DEF Rows
<1> QED BY <1>2, <1>5, <1>6, <1>7, <1>9, <1>10

\* A segment that holds the range has these rows.
LEMMA RangeRows ==
  ASSUME Guarded, NEW p, Asked(p), NEW f, NEW a, NEW m, Segment(f, a, m), a < p.from, p.to <= a + m
  PROVE  EventsInRange(f, p.from, p.to) = CertRows(p)
<1>1. a \in Nat /\ m \in Nat /\ Len(book) \in Nat
  BY BookSays DEF Segment
<1>2. PICK u, v : u = p.from /\ v = p.to
  OBVIOUS
<1>2a. u \in 1..Len(book) /\ v \in u..Len(book) /\ a < u /\ v <= a + m
  BY <1>1, <1>2, BookSays DEF Asked
<1>3. PICK x, y, n : x = u - a /\ y = v - a /\ n = v - u + 1
  OBVIOUS
<1>3a. x \in Int /\ y \in Int /\ n \in Int /\ u \in Int /\ v \in Int
  BY <1>1, <1>2a, <1>3
<1>4. x \in 1..(m + 1) /\ y \in (x - 1)..m /\ \A i \in 1..m : a + i \in u..v <=> i \in x..y
  BY <1>1, <1>2a, <1>3, <1>3a
<1>5. Stretch(EventsInRange(f, p.from, p.to), a + x - 1, y - x + 1)
  BY <1>2, <1>4, RowsAre
<1>6. y - x + 1 = n /\ \A k \in 1..n : a + x - 1 + k = u + k - 1
  BY <1>1, <1>2a, <1>3, <1>3a
<1>7. EventsInRange(f, p.from, p.to) = [k \in 1..n |-> book[u + k - 1]]
  BY <1>5, <1>6 DEF Stretch
<1>8. CertRows(p) = [k \in 1..n |-> book[u + k - 1]]
  BY <1>2, <1>3, CertRowsAre
<1> QED BY <1>7, <1>8

\* The episodes that a certificate lists.
Listed(p, eps) ==
  CASE p.flaw = "episodes" -> Front(eps)
    [] p.flaw = "reasons" -> [eps EXCEPT ![Len(eps)].reasons = @ (+) SetToBag({"SEAL_EXPIRED"})]
    [] p.flaw = "open" -> [eps EXCEPT ![Len(eps)].open = ~@]
    [] p.flaw = "preceding" -> [eps EXCEPT ![Len(eps)].precedingEvent = "SEAL_EXPIRED"]
    [] OTHER -> eps

\* What a certificate claims, field by field.
Said(p, K, c) ==
  /\ DOMAIN c = {"lockoutsTriggered", "ordersRejectedWhileLocked", "clockAnomalies",
                 "changeAttemptsWhileSealed", "limitRespected", "failClosedEpisodes"}
  /\ c.lockoutsTriggered = IF p.flaw = "lockouts" THEN FalseNumber(Claimed(K).lockoutsTriggered)
                           ELSE Claimed(K).lockoutsTriggered
  /\ c.ordersRejectedWhileLocked = IF p.flaw = "rejected" THEN FalseNumber(Claimed(K).ordersRejectedWhileLocked)
                                   ELSE Claimed(K).ordersRejectedWhileLocked
  /\ c.clockAnomalies = IF p.flaw = "clock" THEN <<FalseNumber(Claimed(K).clockAnomalies[1]), Claimed(K).clockAnomalies[2]>>
                        ELSE Claimed(K).clockAnomalies
  /\ c.changeAttemptsWhileSealed = IF p.flaw = "changes" THEN FalseNumber(Claimed(K).changeAttemptsWhileSealed)
                                   ELSE Claimed(K).changeAttemptsWhileSealed
  /\ c.limitRespected = IF p.flaw = "limit" THEN p.limit ELSE Legacy(ReferenceLimit(K))
  /\ c.failClosedEpisodes = Listed(p, ReferenceEpisodes(K))
\* A certificate claims what is counted, but for its flaw.
LEMMA ClaimsSay ==
  ASSUME NEW p, NEW K, K = NotHuman(CertRows(p))
  PROVE  Said(p, K, ClaimsOf(p))
<1>1. PICK c : c = ClaimsOf(p)
  OBVIOUS
<1>2. PICK e, l : /\ l = (IF p.flaw = "limit" THEN p.limit ELSE Legacy(ReferenceLimit(K)))
                  /\ e = Listed(p, ReferenceEpisodes(K))
  OBVIOUS
<1>3. PICK n : n = Claimed(K)
  OBVIOUS
<1>4. c = [lockoutsTriggered |-> IF p.flaw = "lockouts" THEN FalseNumber(n.lockoutsTriggered) ELSE n.lockoutsTriggered,
           ordersRejectedWhileLocked |-> IF p.flaw = "rejected" THEN FalseNumber(n.ordersRejectedWhileLocked)
                                         ELSE n.ordersRejectedWhileLocked,
           clockAnomalies |-> <<IF p.flaw = "clock" THEN FalseNumber(n.clockAnomalies[1]) ELSE n.clockAnomalies[1],
                                n.clockAnomalies[2]>>,
           changeAttemptsWhileSealed |-> IF p.flaw = "changes" THEN FalseNumber(n.changeAttemptsWhileSealed)
                                         ELSE n.changeAttemptsWhileSealed,
           limitRespected |-> l, failClosedEpisodes |-> e]
  BY <1>1, <1>2, <1>3 DEF ClaimsOf, Claimed, Listed
<1> QED BY <1>1, <1>2, <1>3, <1>4 DEF Said, Claimed

-----------------------------------------------------------------------------
(* An honest certificate *)

\* A segment that holds the range is judged whole, and the claims are compared with the rows.
Heard(cert, f, p) ==
  /\ StopCode(cert, f) = "none" /\ Intact(cert, f) /\ Missing(cert, f) = {} /\ ~Ends(cert, f)
  /\ Effective(cert, f) = p.to
  /\ Compared(cert, f) = RangeCoversItsDay(cert.day, f, p.from, p.to)
                           \cup CompareClaims(cert.claims, CertRows(p), TRUE)
\* Over a segment that holds the range, the claims are heard.
LEMMA HeldRange ==
  ASSUME Guarded, NEW p, Asked(p), NEW f, NEW a, NEW m, Segment(f, a, m), a < p.from, p.to <= a + m,
         NEW cert, cert.from = p.from, cert.to = p.to, cert.dialect = "guardian-core-v1"
  PROVE  Heard(cert, f, p)
<1>1. a \in Nat /\ m \in Nat /\ Len(book) \in Nat /\ DOMAIN f = 1..m
  BY BookSays DEF Segment
<1>2. PICK u, v : u = p.from /\ v = p.to
  OBVIOUS
<1>3. u \in 1..Len(book) /\ v \in u..Len(book) /\ a < u /\ v <= a + m
  BY <1>1, <1>2, BookSays DEF Asked
<1>4. u \in Nat /\ v \in Nat /\ u <= v /\ u \in (a + 1)..(a + m) /\ u \in u..v
  BY <1>1, <1>3
<1>5. ChainBreak(f, u, v) = 0
  BY <1>4, SegmentIntact
<1>6. Intact(cert, f)
  BY <1>2, <1>5 DEF Intact
<1>7. Missing(cert, f) = {}
  <2>1. \A e : e \in ToSet(f) <=> \E k \in (a + 1)..(a + m) : e = book[k]
    <3>1. Copied(f, a, m)
      BY SegmentSays
    <3> QED BY <3>1 DEF Copied
  <2>2. ASSUME NEW k \in u..v PROVE \E e \in ToSet(f) : e.seq = k
    <3>1. k \in (a + 1)..(a + m) /\ k \in 1..Len(book)
      BY <1>1, <1>3
    <3>2. book[k] \in ToSet(f) /\ book[k].seq = k
      BY <2>1, <3>1, BookSays
    <3> QED BY <3>2
  <2>3. \A k : k \notin Missing(cert, f)
    BY <1>2, <2>2, MissingIs
  <2> QED BY <2>3
<1>8. StopCode(cert, f) = "none"
  <2>1. f # <<>> /\ \A i \in DOMAIN f : f[i].dialect = "guardian-core-v1"
    <3>1. Copied(f, a, m)
      BY SegmentSays
    <3>2. m # 0
      BY <1>1, <1>4
    <3>3. 1 \in DOMAIN f
      BY <1>1, <3>2
    <3> QED BY <1>1, <3>1, <3>3 DEF Copied
  <2> QED BY <1>2, <1>4, <2>1, IsRead
<1>9. ~Ends(cert, f)
  BY <1>7 DEF Ends, Truncated
<1>10. Effective(cert, f) = v
  BY <1>2, <1>9 DEF Effective
<1>11. EventsInRange(f, u, v) = CertRows(p)
  BY <1>2, RangeRows
<1>12. Intact(cert, f) = TRUE
  BY <1>2, <1>5 DEF Intact
<1>13. Compared(cert, f) = RangeCoversItsDay(cert.day, f, u, v) \cup CompareClaims(cert.claims, CertRows(p), TRUE)
  BY <1>2, <1>9, <1>10, <1>11, <1>12 DEF Compared
<1> QED BY <1>2, <1>6, <1>7, <1>8, <1>9, <1>10, <1>13 DEF Heard

\* The rows of a certificate, and those of them that are not about a person.
LEMMA CertKept ==
  ASSUME Guarded, NEW p, Asked(p), NEW R, R = CertRows(p), NEW K, K = NotHuman(R)
  PROVE  \E L : \E M, r : Kept(R, L, K, M, r)
<1>1. PICK n : n = p.to - p.from + 1
  OBVIOUS
<1>2. Rows(R, n)
  BY <1>1, CertRowsAre
<1> QED BY <1>2, NotHumanIs

Misstated == {"lockouts", "rejected", "clock", "changes", "limit", "episodes", "reasons", "open", "preceding"}

\* What is claimed is true, or is about a limit that nobody could see.
Fair(p) ==
  \/ p.flaw \notin Misstated
  \/ p.flaw = "limit" /\ p.limit \in LimitValues \ {"1"} /\ ReferenceLimit(CertRows(p)) = "undetermined"

\* Claims that state nothing false agree with the verifier's.
LEMMA HonestClaims ==
  ASSUME Guarded, NEW p, Asked(p), Fair(p)
  PROVE  Agree(ClaimsOf(p), CertRows(p))
<1>1. PICK R, K, c : R = CertRows(p) /\ K = NotHuman(R) /\ c = ClaimsOf(p)
  OBVIOUS
<1>2. PICK L : \E M, r : Kept(R, L, K, M, r)
  BY <1>1, CertKept
<1>3. PICK M, r : Kept(R, L, K, M, r)
  BY <1>2
<1>4. Said(p, K, c)
  BY <1>1, ClaimsSay
<1>5. Claimed(K) = Counts(R)
  BY <1>3, NumbersAgree
<1>6. Episodes(R) = ReferenceEpisodes(K)
  <2>1. Plain(K, M)
    BY <1>3 DEF Kept, Plain
  <2> QED BY <1>3, <2>1, EpisodesSame, EpisodesAgree
<1>7. ReferenceLimit(K) = ReferenceLimit(R) /\ LimitStatus(R, TRUE) = ReferenceLimit(R)
  <2>1. R \in Seq(Records)
    BY <1>1, CertRowsAre
  <2> QED BY <1>3, <2>1, LimitAgrees
<1>8. /\ c.lockoutsTriggered = Claimed(K).lockoutsTriggered
      /\ c.ordersRejectedWhileLocked = Claimed(K).ordersRejectedWhileLocked
      /\ c.clockAnomalies = Claimed(K).clockAnomalies
      /\ c.changeAttemptsWhileSealed = Claimed(K).changeAttemptsWhileSealed
      /\ c.failClosedEpisodes = ReferenceEpisodes(K)
  BY <1>4 DEF Said, Listed, Misstated, Fair
<1>9. \A k \in DOMAIN Counts(R) \cap DOMAIN c : c[k] = Counts(R)[k]
  <2>1. DOMAIN Counts(R) = {"lockoutsTriggered", "ordersRejectedWhileLocked", "clockAnomalies", "changeAttemptsWhileSealed"}
    BY DEF Counts
  <2> QED BY <1>5, <1>8, <2>1
<1>10. ~EpisodesDiffer(Episodes(R), c.failClosedEpisodes)
  BY <1>6, <1>8, NoDifference
<1>11. LimitCode(c.limitRespected, LimitStatus(R, TRUE)) # "CLAIM_MISMATCH"
  <2>1. CASE p.flaw = "limit"
    <3>1. /\ p.limit \in {"true", "false", "respected", "breached", "undetermined"}
          /\ ReferenceLimit(R) = "undetermined"
      BY <1>1, <2>1 DEF Fair, Misstated, LimitValues
    <3>2. c.limitRespected = p.limit
      BY <1>4, <2>1 DEF Said
    <3> QED BY <1>7, <3>1, <3>2 DEF LimitCode
  <2>2. CASE p.flaw # "limit"
    <3>1. c.limitRespected = Legacy(ReferenceLimit(K))
      BY <1>4, <2>2 DEF Said
    <3> QED BY <1>7, <3>1, LegacyAgrees
  <2> QED BY <2>1, <2>2
<1> QED BY <1>1, <1>9, <1>10, <1>11 DEF Agree

\* A certificate that claims nothing is not contradicted.
LEMMA SilentClaims == \A R : Agree(<<>>, R)
<1>1. DOMAIN <<>> = {}
  OBVIOUS
<1> QED BY <1>1 DEF Agree

\* Over a segment that holds its range, an honest certificate is verified.
LEMMA HonestOver ==
  ASSUME Guarded, NEW p, Asked(p), Whole(p), p.flaw \in {"none", "silent", "rotated", "limit"}, Fair(p),
         NEW a, NEW m, Segment(Copy(p), a, m), a < p.from, p.to <= a + m, p.anchor = 0 \/ p.anchor > a,
         p.anchor <= a + m
  PROVE  ExitCode(Told(p)) = 0 /\ Told(p).reached = (IF p.anchor > 0 THEN "L2" ELSE "L1")
<1>1. PICK cert, file, anchors : cert = Certificate(p) /\ file = Copy(p) /\ anchors = Anchors(p)
  OBVIOUS
<1>2. p.flaw \in Honest
  BY DEF Honest, Accidents
<1>3. cert.dialect = "guardian-core-v1" /\ cert.from = p.from /\ cert.to = p.to /\ cert.day = DayOf(p)
  BY <1>1, <1>2, HonestDocument
<1>4. Heard(cert, file, p)
  BY <1>1, <1>3, HeldRange
<1>5. Standing(file, anchors) = anchors
  <2>1. CASE p.anchor = 0
    BY <1>1, <2>1 DEF Anchors, Standing
  <2>2. CASE p.anchor # 0
    <3>1. PICK n : n = p.anchor
      OBVIOUS
    <3>2. n \in (a + 1)..(a + m) /\ n \in 1..Len(book)
      <4>1. a \in Nat /\ m \in Nat /\ Len(book) \in Nat /\ n \in 0..Len(book)
        BY <3>1, BookSays DEF Asked, Segment
      <4> QED BY <2>2, <3>1, <4>1
    <3>3. PICK x : x = [seq |-> n, hash |-> book[n].hash] /\ anchors = {x}
      BY <1>1, <2>2, <3>1 DEF Anchors
    <3>4. book[n] \in ToSet(file) /\ book[n].seq = x.seq /\ book[n].hash = x.hash
      <4>1. Copied(file, a, m)
        BY <1>1, SegmentSays
      <4>2. book[n] \in ToSet(file)
        BY <3>2, <4>1 DEF Copied
      <4> QED BY <3>2, <3>3, <4>2, BookSays
    <3> QED BY <3>3, <3>4 DEF Standing
  <2> QED BY <2>1, <2>2
<1>6. Agree(cert.claims, CertRows(p))
  <2>1. cert.claims = (IF p.flaw = "silent" THEN <<>> ELSE ClaimsOf(p))
    BY <1>1, CertificateFields
  <2> QED BY <1>2, <2>1, HonestClaims, SilentClaims
<1>7. Channel(Compared(cert, file), "contradiction") = {}
  <2>1. PICK A, B : A = RangeCoversItsDay(DayOf(p), file, p.from, p.to) /\ B = CompareClaims(cert.claims, CertRows(p), TRUE)
    OBVIOUS
  <2>2. Channel(A, "contradiction") = {}
    BY <1>1, <2>1, NothingHidden
  <2>3. \A x \in B : x[1] = "unverified"
    BY <1>6, <2>1, ComparedTrue
  <2>4. Compared(cert, file) = A \cup B
    BY <1>3, <1>4, <2>1 DEF Heard
  <2> QED BY <2>2, <2>3, <2>4 DEF Channel
<1>8. Intact(cert, file) /\ Missing(cert, file) = {} /\ ~Ends(cert, file) /\ StopCode(cert, file) = "none"
  BY <1>4 DEF Heard
<1>9. p.anchor \in Nat
  BY BookSays DEF Asked
<1>10. Against(cert, file, anchors) = {}
  BY <1>1, <1>2, <1>5, <1>7, <1>8, <1>9, NotContradicted
<1>11. Layer(cert, file, anchors) = (IF p.anchor > 0 THEN "L2" ELSE "L1")
  BY <1>1, <1>2, <1>5, <1>8, <1>9, LayerReached
<1>12. PICK rep : rep = VerifyCertificate(cert, file, anchors, TRUE)
  OBVIOUS
<1>13. /\ rep.contradictions = Against(cert, file, anchors)
       /\ rep.unevaluable = (IF Ends(cert, file) THEN {"LEDGER_TRUNCATED"} ELSE {})
       /\ rep.reached = Layer(cert, file, anchors)
  BY <1>8, <1>12, Reports
<1>14. ExitCode(rep) = 0
  BY <1>8, <1>10, <1>13 DEF ExitCode
<1>15. Told(p) = rep
  BY <1>1, <1>12 DEF Told
<1> QED BY <1>11, <1>13, <1>14, <1>15

\* An honest certificate of a whole session is verified at the layer it declares, for every ledger
\* a guardian may write, however far it has grown since, and from every segment that holds the range.
THEOREM HonestIsHeard == Spec => []HonestIsVerified
<1>1. Guarded /\ Judgement => HonestIsVerified
  <2> SUFFICES ASSUME Guarded, Judgement, IsShown, WholeSession, shown.lost = 0,
                      \/ shown.flaw \in {"none", "silent"}
                      \/ shown.flaw = "rotated" /\ shown.at < shown.from /\ shown.anchor \notin 1..shown.at
               PROVE  exit = 0 /\ report.reached = (IF shown.anchor > 0 THEN "L2" ELSE "L1")
    BY DEF HonestIsVerified
  <2>1. PICK p : p = shown
    OBVIOUS
  <2>2. Asked(p) /\ exit = Answer(p) /\ report = Told(p)
    BY <2>1 DEF Judgement
  <2>3. Whole(p)
    BY <2>1 DEF WholeSession, Whole, DayOf
  <2>4. Answer(p) = ExitCode(Told(p))
    <3>1. p.flaw \notin Unreadable
      BY <2>1 DEF Unreadable
    <3> QED BY <2>1, <2>2, <3>1, AnswersWhole
  <2>5. ExitCode(Told(p)) = 0 /\ Told(p).reached = (IF p.anchor > 0 THEN "L2" ELSE "L1")
    <3>1. Len(book) \in Nat /\ p.from \in 1..Len(book) /\ p.to \in p.from..Len(book) /\ p.anchor \in 0..Len(book)
      BY <2>2, BookSays DEF Asked
    <3>2. CASE p.flaw \in {"none", "silent"}
      <4>1. Segment(Copy(p), 0, Len(book))
        <5>1. Copy(p) = book
          BY <3>2 DEF Copy
        <5> QED BY <5>1, WholeCopy
      <4>2. 0 < p.from /\ p.to <= 0 + Len(book) /\ (p.anchor = 0 \/ p.anchor > 0) /\ p.anchor <= 0 + Len(book)
        BY <3>1
      <4> QED BY <2>2, <2>3, <3>2, <4>1, <4>2, HonestOver DEF Fair, Misstated
    <3>3. CASE p.flaw = "rotated" /\ p.at < p.from /\ p.anchor \notin 1..p.at
      <4>1. p.at \in 1..Len(book) /\ Segment(Copy(p), p.at, Len(book) - p.at)
        BY <2>2, <3>3, RotatedCopy
      <4>2. PICK a, m : a = p.at /\ m = Len(book) - a
        OBVIOUS
      <4>3. a < p.from /\ p.to <= a + m /\ (p.anchor = 0 \/ p.anchor > a) /\ p.anchor <= a + m
        BY <3>1, <3>3, <4>1, <4>2
      <4> QED BY <2>2, <2>3, <3>3, <4>1, <4>2, <4>3, HonestOver DEF Fair, Misstated
    <3> QED BY <2>1, <3>2, <3>3
  <2> QED BY <2>1, <2>2, <2>4, <2>5
<1> QED BY <1>1, LedgerIsTold, PTL

\* While the guardian could not see whether the limit was respected, nothing the certificate
\* says of the limit is held against its holder.
THEOREM BlindIsHeard == Spec => []BlindIsNotCharged
<1>1. Guarded /\ Judgement => BlindIsNotCharged
  <2> SUFFICES ASSUME Guarded, Judgement, IsShown, WholeSession, shown.lost = 0, shown.flaw = "limit",
                      shown.limit # "1", ReferenceLimit(CertRows(shown)) = "undetermined"
               PROVE  exit = 0
    BY DEF BlindIsNotCharged
  <2>1. PICK p : p = shown
    OBVIOUS
  <2>2. Asked(p) /\ exit = Answer(p)
    BY <2>1 DEF Judgement
  <2>3. Whole(p) /\ Fair(p)
    <3>1. p.limit \in LimitValues
      BY <2>1, <2>2 DEF Asked
    <3> QED BY <2>1, <3>1 DEF WholeSession, Whole, DayOf, Fair
  <2>4. Answer(p) = ExitCode(Told(p))
    <3>1. p.flaw \notin Unreadable
      BY <2>1 DEF Unreadable
    <3> QED BY <2>1, <2>2, <3>1, AnswersWhole
  <2>5. Segment(Copy(p), 0, Len(book))
    <3>1. Copy(p) = book
      BY <2>1 DEF Copy
    <3> QED BY <3>1, WholeCopy
  <2>6. 0 < p.from /\ p.to <= 0 + Len(book) /\ (p.anchor = 0 \/ p.anchor > 0) /\ p.anchor <= 0 + Len(book)
    <3>1. Len(book) \in Nat /\ p.from \in 1..Len(book) /\ p.to \in p.from..Len(book) /\ p.anchor \in 0..Len(book)
      BY <2>2, BookSays DEF Asked
    <3> QED BY <3>1
  <2>7. ExitCode(Told(p)) = 0
    BY <2>1, <2>2, <2>3, <2>5, <2>6, HonestOver
  <2> QED BY <2>2, <2>4, <2>7
<1> QED BY <1>1, LedgerIsTold, PTL

-----------------------------------------------------------------------------
(* False claims *)

\* A number that is not what was counted.
LEMMA OtherNumber == \A n \in Nat : FalseNumber(n) # n
BY DEF FalseNumber

\* Whoever counts everything meets the episodes that are left without the entries about persons.
LEMMA BlindStays ==
  ASSUME NEW R, NEW L, NEW K, NEW M, NEW r, Kept(R, L, K, M, r), BlindFrom(R) # {}
  PROVE  BlindFrom(K) # {}
<1>1. PICK i \in 1..L : R[i].ev = "FAIL_CLOSED_ENTERED"
  BY DEF BlindFrom, Kept, Rows
<1>2. PICK k \in 1..M : r[k] = i
  BY <1>1 DEF Kept, Human
<1>3. PICK E : E = {l \in 1..M : K[l].ev = "FAIL_CLOSED_ENTERED"}
  OBVIOUS
<1>4. E \subseteq Nat /\ E # {}
  BY <1>1, <1>2, <1>3 DEF Kept
<1>5. PICK m \in E : \A x \in E : m <= x
  BY <1>4, FiniteMin
<1>6. M \in Nat /\ DOMAIN K = 1..M
  BY DEF Kept, Rows
<1>7. \A j \in 1..(m - 1) : K[j].ev # "FAIL_CLOSED_ENTERED"
  <2> SUFFICES ASSUME NEW j \in 1..(m - 1), K[j].ev = "FAIL_CLOSED_ENTERED" PROVE FALSE
    OBVIOUS
  <2>1. m \in 1..M
    BY <1>3, <1>5
  <2>2. j \in 1..M /\ ~(m <= j)
    BY <1>6, <2>1
  <2>3. j \in E
    BY <1>3, <2>2
  <2> QED BY <1>5, <2>2, <2>3
<1>8. m \in BlindFrom(K)
  BY <1>3, <1>5, <1>6, <1>7 DEF BlindFrom
<1> QED BY <1>8

\* What an episode says that can be compared, and what it never says.
Comparable(e) ==
  /\ {"open", "reasons", "precedingEvent"} \subseteq DOMAIN e
  /\ e.open \in BOOLEAN /\ e.precedingEvent # "SEAL_EXPIRED" /\ "SEAL_EXPIRED" \notin DOMAIN e.reasons
\* An episode of the issuer's account says nothing of a kind that is never written.
LEMMA EpisodeSays ==
  ASSUME NEW K, NEW M, Rows(K, M), NEW i \in 1..M
  PROVE  Comparable(ReferenceEpisode(K, i))
<1>1. \A k \in 1..M : K[k].ev # "SEAL_EXPIRED"
  BY DEF Rows, Records, Kinds, Material, Boundary, Human
<1>2. M \in Nat /\ Len(K) = M
  BY DEF Rows
<1>3. PICK x : x = BlindUntil(K, i)
  OBVIOUS
<1>4. x \in Nat /\ x <= M + 1
  <2>1. PICK S : S = {k \in i..M : K[k].ev = "FAIL_CLOSED_CLEARED"} \cup {M + 1}
    OBVIOUS
  <2>2. x = Min(S)
    BY <1>2, <1>3, <2>1 DEF BlindUntil
  <2>3. S \subseteq Nat /\ S # {} /\ \A y \in S : y <= M + 1
    BY <1>2, <2>1
  <2>4. PICK m \in S : \A y \in S : m <= y
    BY <2>3, FiniteMin
  <2>5. x \in S
    BY <2>2, <2>4 DEF Min
  <2> QED BY <2>3, <2>5
<1>5. PICK b : b = (i > 1 /\ K[i - 1].ev \notin Boundary)
  OBVIOUS
<1>5a. b => i - 1 \in 1..M
  <2>1. b => i > 1
    BY <1>5, Zenon
  <2> QED BY <1>2, <2>1
<1>6. PICK T : T = {k \in (i + 1)..(x - 1) : K[k].ev \notin Boundary} \cup (IF b THEN {i - 1} ELSE {})
  OBVIOUS
<1>7. T \subseteq 1..M
  BY <1>2, <1>4, <1>5a, <1>6
<1>8. PICK e : e = ReferenceEpisode(K, i)
  OBVIOUS
<1>9. e = [seq |-> K[i].seq, open |-> x > M, precedingSeq |-> IF b THEN K[i - 1].seq ELSE 0,
           precedingEvent |-> IF b THEN K[i - 1].ev ELSE "none",
           reasons |-> [ev \in {K[k].ev : k \in T} |-> Cardinality({k \in T : K[k].ev = ev})]]
  BY <1>2, <1>3, <1>5, <1>6, <1>8 DEF ReferenceEpisode
<1>10. {"open", "reasons", "precedingEvent"} \subseteq DOMAIN e /\ e.open \in BOOLEAN
  BY <1>9
<1>11. e.precedingEvent # "SEAL_EXPIRED"
  <2>1. CASE b
    <3>1. i - 1 \in 1..M
      BY <1>5a, <2>1
    <3> QED BY <1>1, <1>9, <2>1, <3>1
  <2> QED BY <1>9, <2>1
<1>12. "SEAL_EXPIRED" \notin DOMAIN e.reasons
  <2>1. DOMAIN e.reasons = {K[k].ev : k \in T}
    BY <1>9
  <2> QED BY <1>1, <1>7, <2>1
<1> QED BY <1>8, <1>10, <1>11, <1>12 DEF Comparable

\* Episodes that are not listed as they were are found different.
LEMMA EpisodesDisagree ==
  ASSUME NEW K, NEW M, Rows(K, M), BlindFrom(K) # {}, NEW eps, eps = ReferenceEpisodes(K),
         NEW p, p.flaw \in {"episodes", "reasons", "open", "preceding"}
  PROVE  EpisodesDiffer(eps, Listed(p, eps))
<1>1. PICK C, s : Begins(K, M, C, s) /\ eps = Ended(K, s, C)
  BY ReferenceIs
<1>2. /\ C \in Nat /\ DOMAIN eps = 1..C /\ Len(eps) = C /\ eps \in Seq({ReferenceEpisode(K, i) : i \in 1..M})
      /\ \A l \in 1..C : eps[l] = ReferenceEpisode(K, s[l]) /\ s[l] \in 1..M
  BY <1>1 DEF Begins, Ended
<1>3. C >= 1
  <2>1. \E k : k \in 1..C
    BY <1>1 DEF Begins
  <2> QED BY <1>2, <2>1
<1>4. PICK last : last = eps[C]
  OBVIOUS
<1>5. Comparable(last)
  <2>1. C \in 1..C
    BY <1>2, <1>3
  <2> QED BY <1>2, <1>4, <2>1, EpisodeSays
<1>6. C \in DOMAIN eps
  BY <1>2, <1>3
<1>7. CASE p.flaw = "episodes"
  <2>1. Listed(p, eps) = SubSeq(eps, 1, C - 1)
    BY <1>2, <1>7 DEF Listed, Front
  <2>2. Len(SubSeq(eps, 1, C - 1)) = C - 1
    BY <1>2, <1>3
  <2> QED BY <1>2, <2>1, <2>2 DEF EpisodesDiffer
<1>8. CASE p.flaw = "reasons"
  <2>1. PICK B : B = last.reasons (+) SetToBag({"SEAL_EXPIRED"})
    OBVIOUS
  <2>2. Listed(p, eps) = [eps EXCEPT ![C].reasons = B]
    BY <1>2, <1>4, <1>8, <2>1 DEF Listed
  <2>3. "SEAL_EXPIRED" \in DOMAIN B
    BY <2>1 DEF (+), SetToBag, BagToSet
  <2>4. B # last.reasons
    BY <1>5, <2>3 DEF Comparable
  <2>5. [eps EXCEPT ![C].reasons = B][C].reasons = B
    BY <1>4, <1>5, <1>6 DEF Comparable
  <2> QED BY <1>4, <1>6, <2>2, <2>4, <2>5 DEF EpisodesDiffer
<1>9. CASE p.flaw = "open"
  <2>1. PICK B : B = ~last.open
    OBVIOUS
  <2>2. Listed(p, eps) = [eps EXCEPT ![C].open = B]
    BY <1>2, <1>4, <1>9, <2>1 DEF Listed
  <2>4. B # last.open
    BY <1>5, <2>1 DEF Comparable
  <2>5. [eps EXCEPT ![C].open = B][C].open = B
    BY <1>4, <1>5, <1>6 DEF Comparable
  <2> QED BY <1>4, <1>6, <2>2, <2>4, <2>5 DEF EpisodesDiffer
<1>10. CASE p.flaw = "preceding"
  <2>2. Listed(p, eps) = [eps EXCEPT ![C].precedingEvent = "SEAL_EXPIRED"]
    BY <1>2, <1>10 DEF Listed
  <2>4. "SEAL_EXPIRED" # last.precedingEvent
    BY <1>5 DEF Comparable
  <2>5. [eps EXCEPT ![C].precedingEvent = "SEAL_EXPIRED"][C].precedingEvent = "SEAL_EXPIRED"
    BY <1>4, <1>5, <1>6 DEF Comparable
  <2> QED BY <1>4, <1>6, <2>2, <2>4, <2>5 DEF EpisodesDiffer
<1> QED BY <1>7, <1>8, <1>9, <1>10

\* The numbers that are claimed are numbers.
LEMMA NumbersAre ==
  ASSUME NEW K, NEW M, Rows(K, M)
  PROVE  /\ Claimed(K).lockoutsTriggered \in Nat /\ Claimed(K).ordersRejectedWhileLocked \in Nat
         /\ Claimed(K).clockAnomalies[1] \in Nat /\ Claimed(K).changeAttemptsWhileSealed \in Nat
<1>1. M \in Nat /\ DOMAIN K = 1..M
  BY DEF Rows
<1>2. IsFiniteSet(1..M)
  BY <1>1, FS_Interval
<1>3. \A ev : IsFiniteSet({i \in 1..M : K[i].ev = ev}) /\ Cardinality({i \in 1..M : K[i].ev = ev}) \in Nat
  <2> TAKE ev
  <2>1. IsFiniteSet({i \in 1..M : K[i].ev = ev})
    <3>1. {i \in 1..M : K[i].ev = ev} \subseteq 1..M
      OBVIOUS
    <3> QED BY <1>2, <3>1, FS_Subset
  <2> QED BY <2>1, FS_CardinalityType
<1>4. Cardinality({K[i].oid : i \in {j \in DOMAIN K : K[j].ev = "ORDER_REJECTED_LOCKED"}} \ {NoId}) \in Nat
  <2>1. PICK J : J = {j \in 1..M : K[j].ev = "ORDER_REJECTED_LOCKED"}
    OBVIOUS
  <2>2. IsFiniteSet(J)
    BY <1>3, <2>1
  <2>3. IsFiniteSet({K[i].oid : i \in J})
    <3>1. PICK f : f = [i \in J |-> K[i].oid]
      OBVIOUS
    <3>2. {K[i].oid : i \in J} = {f[i] : i \in J}
      BY <3>1
    <3>3. f \in Surjection(J, {f[i] : i \in J})
      BY <3>1 DEF Surjection
    <3>4. IsFiniteSet({f[i] : i \in J})
      BY <2>2, <3>3, FS_Surjection
    <3> QED BY <3>2, <3>4
  <2>4. IsFiniteSet({K[i].oid : i \in J} \ {NoId})
    <3>1. {K[i].oid : i \in J} \ {NoId} \subseteq {K[i].oid : i \in J}
      OBVIOUS
    <3> QED BY <2>3, <3>1, FS_Subset
  <2> QED BY <1>1, <2>1, <2>4, FS_CardinalityType
<1>5. \A ev : Cardinality({i \in DOMAIN K : K[i].ev = ev}) \in Nat
  BY <1>1, <1>3
<1> QED BY <1>4, <1>5 DEF Claimed

\* What is false about a claim, and when it is.
Lies(p) ==
  /\ p.flaw \in Misstated
  /\ p.flaw = "limit" => /\ ReferenceLimit(CertRows(p)) # "undetermined"
                         /\ p.limit \notin {ReferenceLimit(CertRows(p)), Legacy(ReferenceLimit(CertRows(p)))}

\* A limit that was seen, and that something else is said of.
LEMMA LimitBelied ==
  ASSUME NEW R, NEW said \in LimitValues, ReferenceLimit(R) # "undetermined",
         said \notin {ReferenceLimit(R), Legacy(ReferenceLimit(R))}
  PROVE  LimitCode(said, ReferenceLimit(R)) = "CLAIM_MISMATCH"
<1>1. PICK l : l = ReferenceLimit(R)
  OBVIOUS
<1>2. l \in {"breached", "respected"}
  BY <1>1 DEF ReferenceLimit
<1>3. CASE l = "breached"
  BY <1>1, <1>3 DEF LimitCode, Legacy, LimitValues
<1>4. CASE l = "respected"
  BY <1>1, <1>4 DEF LimitCode, Legacy, LimitValues
<1> QED BY <1>2, <1>3, <1>4

\* Claims that state something false do not agree with the verifier's.
LEMMA FalseClaims ==
  ASSUME Guarded, NEW p, Asked(p), Lies(p)
  PROVE  ~Agree(ClaimsOf(p), CertRows(p))
<1>1. PICK R, K, c : R = CertRows(p) /\ K = NotHuman(R) /\ c = ClaimsOf(p)
  OBVIOUS
<1>2. PICK L : \E M, r : Kept(R, L, K, M, r)
  BY <1>1, CertKept
<1>3. PICK M, r : Kept(R, L, K, M, r)
  BY <1>2
<1>4. Said(p, K, c)
  BY <1>1, ClaimsSay
<1>5. Claimed(K) = Counts(R)
  BY <1>3, NumbersAgree
<1>6. Episodes(R) = ReferenceEpisodes(K)
  <2>1. Plain(K, M)
    BY <1>3 DEF Kept, Plain
  <2> QED BY <1>3, <2>1, EpisodesSame, EpisodesAgree
<1>7. LimitStatus(R, TRUE) = ReferenceLimit(R)
  <2>1. R \in Seq(Records)
    BY <1>1, CertRowsAre
  <2> QED BY <1>3, <2>1, LimitAgrees
<1>8. /\ Claimed(K).lockoutsTriggered \in Nat /\ Claimed(K).ordersRejectedWhileLocked \in Nat
      /\ Claimed(K).clockAnomalies[1] \in Nat /\ Claimed(K).changeAttemptsWhileSealed \in Nat
  <2>1. Rows(K, M)
    BY <1>3 DEF Kept
  <2> QED BY <2>1, NumbersAre
<1>9. DOMAIN Counts(R) = {"lockoutsTriggered", "ordersRejectedWhileLocked", "clockAnomalies", "changeAttemptsWhileSealed"}
  BY DEF Counts
<1>10. DOMAIN c = {"lockoutsTriggered", "ordersRejectedWhileLocked", "clockAnomalies",
                   "changeAttemptsWhileSealed", "limitRespected", "failClosedEpisodes"}
  BY <1>4 DEF Said
<1>11. SUFFICES \/ \E k \in DOMAIN Counts(R) : c[k] # Counts(R)[k]
                \/ EpisodesDiffer(Episodes(R), c.failClosedEpisodes)
                \/ LimitCode(c.limitRespected, LimitStatus(R, TRUE)) = "CLAIM_MISMATCH"
  BY <1>1, <1>9, <1>10 DEF Agree
<1>12. CASE p.flaw = "lockouts"
  <2>1. c.lockoutsTriggered = FalseNumber(Claimed(K).lockoutsTriggered)
    BY <1>4, <1>12 DEF Said
  <2>2. c["lockoutsTriggered"] # Counts(R)["lockoutsTriggered"]
    BY <1>5, <1>8, <2>1, OtherNumber
  <2> QED BY <1>9, <2>2
<1>13. CASE p.flaw = "rejected"
  <2>1. c.ordersRejectedWhileLocked = FalseNumber(Claimed(K).ordersRejectedWhileLocked)
    BY <1>4, <1>13 DEF Said
  <2>2. c["ordersRejectedWhileLocked"] # Counts(R)["ordersRejectedWhileLocked"]
    BY <1>5, <1>8, <2>1, OtherNumber
  <2> QED BY <1>9, <2>2
<1>14. CASE p.flaw = "clock"
  <2>1. c.clockAnomalies = <<FalseNumber(Claimed(K).clockAnomalies[1]), Claimed(K).clockAnomalies[2]>>
    BY <1>4, <1>14 DEF Said
  <2>2. c.clockAnomalies[1] # Claimed(K).clockAnomalies[1]
    BY <1>8, <2>1, OtherNumber
  <2>3. c["clockAnomalies"] # Counts(R)["clockAnomalies"]
    BY <1>5, <2>2
  <2> QED BY <1>9, <2>3
<1>15. CASE p.flaw = "changes"
  <2>1. c.changeAttemptsWhileSealed = FalseNumber(Claimed(K).changeAttemptsWhileSealed)
    BY <1>4, <1>15 DEF Said
  <2>2. c["changeAttemptsWhileSealed"] # Counts(R)["changeAttemptsWhileSealed"]
    BY <1>5, <1>8, <2>1, OtherNumber
  <2> QED BY <1>9, <2>2
<1>16. CASE p.flaw = "limit"
  <2>1. c.limitRespected = p.limit
    BY <1>4, <1>16 DEF Said
  <2>2. p.limit \in LimitValues
    BY <1>16 DEF Asked
  <2>3. ReferenceLimit(R) # "undetermined" /\ p.limit \notin {ReferenceLimit(R), Legacy(ReferenceLimit(R))}
    BY <1>1, <1>16 DEF Lies
  <2> QED BY <1>7, <2>1, <2>2, <2>3, LimitBelied
<1>17. CASE p.flaw \in {"episodes", "reasons", "open", "preceding"}
  <2>1. c.failClosedEpisodes = Listed(p, ReferenceEpisodes(K))
    BY <1>4 DEF Said
  <2>2. BlindFrom(R) # {}
    BY <1>1, <1>17 DEF Asked, Inapplicable, CertRows
  <2>3. BlindFrom(K) # {} /\ Rows(K, M)
    BY <1>3, <2>2, BlindStays DEF Kept
  <2>4. PICK eps : eps = ReferenceEpisodes(K)
    OBVIOUS
  <2>5. EpisodesDiffer(eps, Listed(p, eps))
    BY <1>17, <2>3, <2>4, EpisodesDisagree
  <2> QED BY <1>6, <2>1, <2>4, <2>5
<1> QED BY <1>12, <1>13, <1>14, <1>15, <1>16, <1>17 DEF Lies, Misstated

-----------------------------------------------------------------------------
(* A false statement *)

\* A document whose hash is wrong is contradicted, whatever else is read.
LEMMA HashIsHeard ==
  ASSUME NEW cert, NEW file, NEW anchors, HashCodes(cert) # {}
  PROVE  VerifyCertificate(cert, file, anchors, TRUE).contradictions # {}
<1>1. PICK code : code = StopCode(cert, file)
  OBVIOUS
<1>2. CASE code = "none"
  BY <1>1, <1>2, Contradicts
<1>3. CASE code # "none"
  <2>1. PICK r : r = VerifyCertificate(cert, file, anchors, TRUE)
    OBVIOUS
  <2>2. Charges(r, cert, code)
    BY <1>1, <1>3, <2>1, StopsWith
  <2> QED BY <2>1, <2>2 DEF Charges
<1> QED BY <1>2, <1>3

\* The fields of the document that a statement may falsify.
Document == {"filler", "belied", "reworded", "trades", "overstated", "bad level", "forged"}

\* A statement over the whole ledger is read to the end of the range.
LEMMA StatementIsRead ==
  ASSUME Guarded, NEW p, Asked(p), p.flaw \in Misstated \cup Document, NEW cert, cert = Certificate(p)
  PROVE  Copy(p) = book /\ Heard(cert, book, p) /\ cert.hash = "matches" /\ cert.claims = ClaimsOf(p)
<1>1. Copy(p) = book
  BY DEF Copy, Misstated, Document
<1>2. /\ cert.dialect = "guardian-core-v1" /\ cert.from = p.from /\ cert.to = p.to
      /\ cert.hash = "matches" /\ cert.claims = ClaimsOf(p)
  BY CertificateFields DEF Misstated, Document
<1>3. Segment(book, 0, Len(book)) /\ 0 < p.from /\ p.to <= 0 + Len(book)
  <2>1. Len(book) \in Nat /\ p.from \in 1..Len(book) /\ p.to \in p.from..Len(book)
    BY BookSays DEF Asked
  <2> QED BY <2>1, WholeCopy
<1>4. Heard(cert, book, p)
  BY <1>2, <1>3, HeldRange
<1> QED BY <1>1, <1>2, <1>4

\* A false claim is contradicted.
LEMMA LieIsFound ==
  ASSUME Guarded, NEW p, Asked(p), Lies(p)
  PROVE  Told(p).contradictions # {}
<1>1. PICK cert : cert = Certificate(p)
  OBVIOUS
<1>2. Copy(p) = book /\ Heard(cert, book, p) /\ cert.claims = ClaimsOf(p)
  BY <1>1, StatementIsRead DEF Lies
<1>3. "CLAIM_MISMATCH" \in Channel(CompareClaims(cert.claims, CertRows(p), TRUE), "contradiction")
  BY <1>2, FalseClaims, ComparedFalse
<1>4. CompareClaims(cert.claims, CertRows(p), TRUE) \subseteq Compared(cert, book) /\ StopCode(cert, book) = "none"
  BY <1>2 DEF Heard
<1>5. Channel(Compared(cert, book), "contradiction") # {}
  BY <1>3, <1>4 DEF Channel
<1> QED BY <1>1, <1>2, <1>4, <1>5, Contradicts DEF Told

\* A document that says what it must not, or claims a layer it does not have, is contradicted.
LEMMA DocumentIsFound ==
  ASSUME Guarded, NEW p, Asked(p), p.flaw \in Document
  PROVE  Told(p).contradictions # {}
<1>1. PICK cert : cert = Certificate(p)
  OBVIOUS
<1>2. Copy(p) = book /\ StopCode(cert, book) = "none" /\ cert.hash = "matches"
  BY <1>1, StatementIsRead DEF Heard
<1>3. SUFFICES \/ RuleFive(cert.leaves) # {}
               \/ LevelCodes(cert.level, Layer(cert, book, Anchors(p))) # {}
               \/ ~cert.limitations \/ cert.trades \/ SignatureStatus(cert, TRUE) = "INVALID"
  BY <1>1, <1>2, Contradicts DEF Told
<1>4. CASE p.flaw = "filler"
  <2>1. PICK l : l = [key |-> "tool", shape |-> "filler"]
    OBVIOUS
  <2>2. l \in cert.leaves
    BY <1>1, <1>4, <2>1, CertificateFields
  <2>3. l.shape = "filler" /\ l.key \notin PersonSupplied \cup CopiedFromEvidence
    BY <2>1 DEF PersonSupplied, CopiedFromEvidence
  <2> QED BY <2>2, <2>3 DEF RuleFive
<1>5. CASE p.flaw = "belied"
  <2>1. PICK l : l = [key |-> "sealHash", shape |-> "text"]
    OBVIOUS
  <2>2. l \in cert.leaves
    BY <1>1, <1>5, <2>1, CertificateFields
  <2>3. l.key \in DOMAIN Promise /\ l.shape \notin {Promise[l.key], "null"}
    BY <2>1 DEF Promise
  <2> QED BY <2>2, <2>3 DEF RuleFive
<1>6. CASE p.flaw = "reworded"
  BY <1>1, <1>6, CertificateFields
<1>7. CASE p.flaw = "trades"
  BY <1>1, <1>7, CertificateFields
<1>8. CASE p.flaw = "overstated"
  <2>1. cert.level = "L3" /\ cert.signature = "none"
    BY <1>1, <1>8, CertificateFields
  <2>2. Layer(cert, book, Anchors(p)) \in {"L1", "L2"}
    <3>1. SignatureStatus(cert, TRUE) # "VALID"
      BY <2>1 DEF SignatureStatus
    <3>2. Intact(cert, book)
      BY <1>1, <1>8, StatementIsRead DEF Heard, Document
    <3> QED BY <1>2, <3>1, <3>2 DEF Layer, Reached
  <2>3. \A l \in {"L1", "L2"} : LevelCodes("L3", l) # {}
    <3>1. LevelCodes("L3", "L1") # {} /\ LevelCodes("L3", "L2") # {}
      BY DEF LevelCodes, Rank
    <3> QED BY <3>1
  <2> QED BY <2>1, <2>2, <2>3
<1>9. CASE p.flaw = "bad level"
  <2>1. cert.level = "L9"
    BY <1>1, <1>9, CertificateFields
  <2> QED BY <2>1 DEF LevelCodes, Rank
<1>10. CASE p.flaw = "forged"
  <2>1. cert.signature = "not genuine"
    BY <1>1, <1>10, CertificateFields
  <2> QED BY <2>1 DEF SignatureStatus
<1> QED BY <1>4, <1>5, <1>6, <1>7, <1>8, <1>9, <1>10 DEF Document

\* A range is not empty and does not end after itself.
LEMMA RangeIsOne ==
  ASSUME NEW n \in Nat, NEW u \in 1..n, NEW v \in u..n
  PROVE  n # 0 /\ v + 1 > v
OBVIOUS

\* A document that does not say what it is about is contradicted before the ledger is read.
LEMMA VagueIsFound ==
  ASSUME Guarded, NEW p, Asked(p), p.flaw \in {"no dialect", "no range"}
  PROVE  Told(p).contradictions # {}
<1>1. PICK cert, r : cert = Certificate(p) /\ r = VerifyCertificate(cert, book, Anchors(p), TRUE)
  OBVIOUS
<1>2. r = Told(p)
  <2>1. Copy(p) = book
    BY DEF Copy
  <2> QED BY <1>1, <2>1 DEF Told
<1>3. CASE p.flaw = "no dialect"
  <2>1. cert.dialect = "none"
    BY <1>1, <1>3, CertificateFields
  <2>2. StopCode(cert, book) = "DIALECT_MISSING"
    BY <2>1 DEF StopCode
  <2>3. Charges(r, cert, "DIALECT_MISSING")
    BY <1>1, <2>2, StopsWith
  <2> QED BY <1>2, <2>3 DEF Charges
<1>4. CASE p.flaw = "no range"
  <2>1. cert.dialect = "guardian-core-v1" /\ cert.from = p.to + 1 /\ cert.to = p.to
    BY <1>1, <1>4, CertificateFields
  <2>2. PICK n, u, v : n = Len(book) /\ u = p.from /\ v = p.to
    OBVIOUS
  <2>2a. n \in Nat /\ u \in 1..n /\ v \in u..n
    BY <2>2, BookSays DEF Asked
  <2>3. cert.from > cert.to
    <3>1. v + 1 > v
      BY <2>2a, RangeIsOne
    <3> QED BY <2>1, <2>2, <3>1
  <2>4. ~DialectMismatch(book, "guardian-core-v1")
    <3>1. book # <<>>
      <4>1. n # 0
        BY <2>2a, RangeIsOne
      <4>2. Len(<<>>) = 0
        OBVIOUS
      <4> QED BY <2>2, <4>1, <4>2, Zenon
    <3> QED BY <3>1, BookSays DEF DialectMismatch
  <2>5. StopCode(cert, book) = "RANGE_MISSING"
    BY <2>1, <2>3, <2>4 DEF StopCode, Dialects
  <2>6. Charges(r, cert, "RANGE_MISSING")
    BY <1>1, <2>5, StopsWith
  <2> QED BY <1>2, <2>6 DEF Charges
<1> QED BY <1>3, <1>4

\* A false statement over an intact ledger is contradicted, be it about the account, the document
\* or the layer; an edited document is contradicted also over the ledger of another dialect.
THEOREM FalseIsFound == Spec => []FalseStatementIsFound
<1>1. Guarded /\ Judgement => FalseStatementIsFound
  <2> SUFFICES ASSUME Guarded, Judgement, IsShown,
                      \/ shown.flaw \in (Statements \ {"limit"}) \cup {"edited over alien"}
                      \/ shown.flaw = "limit" /\ Lies(shown)
               PROVE  exit = 1
    BY DEF FalseStatementIsFound, Lies, Misstated
  <2>1. PICK p : p = shown
    OBVIOUS
  <2>2. Asked(p) /\ exit = Answer(p)
    BY <2>1 DEF Judgement
  <2>3. p.flaw \notin Unreadable
    BY <2>1 DEF Statements, Unreadable
  <2>4. Told(p).contradictions # {}
    <3>1. CASE p.flaw \in {"edited", "no hash", "edited over alien"}
      <4>1. HashCodes(Certificate(p)) # {}
        BY <3>1, CertificateFields DEF HashCodes
      <4> QED BY <4>1, HashIsHeard DEF Told
    <3>2. CASE p.flaw \in {"no dialect", "no range"}
      BY <2>2, <3>2, VagueIsFound
    <3>3. CASE p.flaw \in Document
      BY <2>2, <3>3, DocumentIsFound
    <3>4. CASE p.flaw \in Misstated
      <4>1. Lies(p)
        BY <2>1, <3>4 DEF Lies
      <4> QED BY <2>2, <4>1, LieIsFound
    <3> QED BY <2>1, <3>1, <3>2, <3>3, <3>4 DEF Statements, Document, Misstated
  <2> QED BY <2>2, <2>3, <2>4, Answers
<1> QED BY <1>1, LedgerIsTold, PTL

-----------------------------------------------------------------------------
(* The times of the ledger *)

Turns == {"GUARDIAN_STARTED", "GUARDIAN_STOPPED"}
Quiet(b, x, y) == \A j \in x..y : b[j].ev \notin Turns

\* Entry k is the last that the process which watched a seal has written.
Over(b, s, k, mode) ==
  \/ /\ k > s.seq /\ Quiet(b, s.seq + 1, k - 1)
     /\ b[k].ev = "GUARDIAN_STOPPED" /\ s.until = b[k].ts
  \/ /\ Quiet(b, s.seq + 1, k) /\ b[k].ts <= s.until
     /\ IF k = Len(b) THEN mode # "up" ELSE b[k + 1].ev = "GUARDIAN_STARTED"
\* What the history says of a seal is what the ledger says, or what it cannot say of a crash.
Watching(b, s, mode) ==
  /\ s \in [seq : Nat, at : Int, until : Int]
  /\ s.seq \in 1..Len(b) /\ b[s.seq].ev = "SEAL_CREATED" /\ s.at = b[s.seq].ts
  /\ \/ s.until = Unknown /\ mode = "up" /\ Quiet(b, s.seq + 1, Len(b))
     \/ s.until \in Nat /\ \E k \in s.seq..Len(b) : Over(b, s, k, mode)
\* The clock of a ledger goes forward, up to now.
Clocked(b, t) ==
  /\ \A i \in 1..Len(b) : b[i].ts \in Nat /\ b[i].ts <= t
  /\ \A i, j \in 1..Len(b) : i < j => b[i].ts <= b[j].ts
\* A shutdown is followed by a start.
StopsTold(b) ==
  \A i \in 1..(Len(b) - 1) : b[i].ev = "GUARDIAN_STOPPED" => b[i + 1].ev = "GUARDIAN_STARTED"
Timed ==
  /\ StopsTold(book)
  /\ skew = 0 => Clocked(book, now) /\ \A s \in seals : Watching(book, s, ModeOf(up, died))

\* A ledger with one more entry.
Longer(c, b, L, e) ==
  /\ L \in Nat /\ Len(b) = L /\ Len(c) = L + 1 /\ c[L + 1] = e /\ \A i \in 1..L : c[i] = b[i]

\* What is over stays over.
LEMMA OverOn ==
  ASSUME NEW c, NEW b, NEW L, NEW e, Longer(c, b, L, e), NEW s, s.seq \in 1..L, NEW k \in s.seq..L,
         NEW mode, Over(b, s, k, mode), mode = "up" \/ e.ev = "GUARDIAN_STARTED", NEW after
  PROVE  Over(c, s, k, after)
<1>1. L \in Nat /\ Len(b) = L /\ Len(c) = L + 1 /\ c[L + 1] = e /\ \A i \in 1..L : c[i] = b[i]
  BY DEF Longer
<1>2. PICK q : q = s.seq
  OBVIOUS
<1>3. q \in 1..L /\ k \in 1..L /\ k # L + 1 /\ c[k] = b[k]
  BY <1>1, <1>2
<1>4. \A y : y \in Int /\ y <= k => (Quiet(b, q + 1, y) => Quiet(c, q + 1, y))
  <2> SUFFICES ASSUME NEW y \in Int, y <= k, Quiet(b, q + 1, y), NEW j \in (q + 1)..y PROVE c[j].ev \notin Turns
    BY DEF Quiet
  <2>1. j \in 1..L
    BY <1>1, <1>3
  <2> QED BY <1>1, <2>1 DEF Quiet
<1>5. CASE k > q /\ Quiet(b, q + 1, k - 1) /\ b[k].ev = "GUARDIAN_STOPPED" /\ s.until = b[k].ts
  <2>1. Quiet(c, q + 1, k - 1)
    BY <1>3, <1>4, <1>5
  <2> QED BY <1>2, <1>3, <1>5, <2>1 DEF Over
<1>6. CASE Quiet(b, q + 1, k) /\ b[k].ts <= s.until /\ k # L /\ b[k + 1].ev = "GUARDIAN_STARTED"
  <2>1. Quiet(c, q + 1, k)
    BY <1>3, <1>4, <1>6
  <2>2. c[k + 1] = b[k + 1]
    <3>1. k + 1 \in 1..L
      BY <1>1, <1>3, <1>6
    <3> QED BY <1>1, <3>1
  <2> QED BY <1>1, <1>2, <1>3, <1>6, <2>1, <2>2 DEF Over
<1>7. CASE Quiet(b, q + 1, k) /\ b[k].ts <= s.until /\ k = L /\ e.ev = "GUARDIAN_STARTED"
  <2>1. Quiet(c, q + 1, k)
    BY <1>3, <1>4, <1>7
  <2> QED BY <1>1, <1>2, <1>3, <1>7, <2>1 DEF Over
<1> QED BY <1>1, <1>2, <1>5, <1>6, <1>7 DEF Over

\* What is known of a seal, with the number of its entry.
Sealed(b, s, q) ==
  q = s.seq /\ q \in 1..Len(b) /\ b[q].ev = "SEAL_CREATED" /\ s.at = b[q].ts /\ s \in [seq : Nat, at : Int, until : Int]
\* A seal stays where it is.
LEMMA SealedOn ==
  ASSUME NEW c, NEW b, NEW L, NEW e, Longer(c, b, L, e), NEW s, NEW mode, Watching(b, s, mode)
  PROVE  \E q \in 1..L : Sealed(b, s, q) /\ Sealed(c, s, q)
<1>1. L \in Nat /\ Len(b) = L /\ Len(c) = L + 1 /\ c[L + 1] = e /\ \A i \in 1..L : c[i] = b[i]
  BY DEF Longer
<1>2. PICK q : q = s.seq
  OBVIOUS
<1>3. q \in 1..L /\ b[q].ev = "SEAL_CREATED" /\ s.at = b[q].ts /\ s \in [seq : Nat, at : Int, until : Int]
  BY <1>1, <1>2 DEF Watching
<1>4. q \in 1..(L + 1) /\ c[q] = b[q]
  BY <1>1, <1>3
<1> QED BY <1>1, <1>2, <1>3, <1>4 DEF Sealed

\* Whoever watches goes on watching when something is written.
LEMMA WritesOn ==
  ASSUME NEW c, NEW b, NEW L, NEW e, Longer(c, b, L, e), e.ev \notin Turns,
         NEW s, Watching(b, s, "up")
  PROVE  Watching(c, s, "up")
<1>1. L \in Nat /\ Len(b) = L /\ Len(c) = L + 1 /\ c[L + 1] = e /\ \A i \in 1..L : c[i] = b[i]
  BY DEF Longer
<1>2. PICK q \in 1..L : Sealed(b, s, q) /\ Sealed(c, s, q)
  BY SealedOn
<1>3. CASE s.until = Unknown /\ Quiet(b, q + 1, L)
  <2>1. Quiet(c, q + 1, L + 1)
    <3> SUFFICES ASSUME NEW j \in (q + 1)..(L + 1) PROVE c[j].ev \notin Turns
      BY DEF Quiet
    <3>1. j = L + 1 \/ (j \in (q + 1)..L /\ j \in 1..L)
      BY <1>1
    <3> QED BY <1>1, <1>3, <3>1 DEF Quiet
  <2> QED BY <1>1, <1>2, <1>3, <2>1 DEF Watching, Sealed
<1>4. CASE s.until \in Nat /\ \E k \in q..L : Over(b, s, k, "up")
  <2>1. PICK k \in q..L : Over(b, s, k, "up")
    BY <1>4
  <2>2. Over(c, s, k, "up")
    BY <1>2, <2>1, OverOn DEF Sealed
  <2>3. k \in q..(L + 1)
    BY <1>1
  <2> QED BY <1>1, <1>2, <1>4, <2>2, <2>3 DEF Watching, Sealed
<1> QED BY <1>1, <1>2, <1>3, <1>4 DEF Watching, Sealed

\* A start watches none of the seals that were there.
LEMMA StartsOn ==
  ASSUME NEW c, NEW b, NEW L, NEW e, Longer(c, b, L, e), e.ev = "GUARDIAN_STARTED",
         NEW mode, mode # "up", NEW s, Watching(b, s, mode)
  PROVE  Watching(c, s, "up")
<1>1. L \in Nat /\ Len(b) = L /\ Len(c) = L + 1 /\ c[L + 1] = e /\ \A i \in 1..L : c[i] = b[i]
  BY DEF Longer
<1>2. PICK q \in 1..L : Sealed(b, s, q) /\ Sealed(c, s, q)
  BY SealedOn
<1>3. PICK k \in q..L : Over(b, s, k, mode) /\ s.until \in Nat
  BY <1>1, <1>2 DEF Watching, Sealed
<1>4. Over(c, s, k, "up")
  BY <1>2, <1>3, OverOn DEF Sealed
<1>5. k \in q..(L + 1)
  BY <1>1
<1> QED BY <1>1, <1>2, <1>3, <1>4, <1>5 DEF Watching, Sealed

\* The seal when the process that may have watched it has ended.
EndedAt(s, until) == IF s.until = Unknown THEN [s EXCEPT !.until = until] ELSE s
\* What a process that ends leaves of a seal: it was watched until then, or until before.
LEMMA EndedSays ==
  ASSUME NEW s \in [seq : Nat, at : Int, until : Int], NEW until \in Nat
  PROVE  /\ s.until = Unknown => /\ EndedAt(s, until).seq = s.seq /\ EndedAt(s, until).at = s.at
                                 /\ EndedAt(s, until).until = until
                                 /\ EndedAt(s, until) \in [seq : Nat, at : Int, until : Int]
         /\ s.until # Unknown => EndedAt(s, until) = s
BY DEF EndedAt

\* A shutdown ends what the process watches.
LEMMA StopsOn ==
  ASSUME NEW c, NEW b, NEW L, NEW e, Longer(c, b, L, e), e.ev = "GUARDIAN_STOPPED", e.ts \in Nat,
         NEW s, Watching(b, s, "up")
  PROVE  Watching(c, EndedAt(s, e.ts), "stopped")
<1>1. L \in Nat /\ Len(b) = L /\ Len(c) = L + 1 /\ c[L + 1] = e /\ \A i \in 1..L : c[i] = b[i]
  BY DEF Longer
<1>2. PICK q \in 1..L : Sealed(b, s, q) /\ Sealed(c, s, q)
  BY SealedOn
<1>3. PICK t : t = EndedAt(s, e.ts)
  OBVIOUS
<1>4. CASE s.until = Unknown /\ Quiet(b, q + 1, L)
  <2>1. t.seq = s.seq /\ t.at = s.at /\ t.until = e.ts /\ t \in [seq : Nat, at : Int, until : Int]
    BY <1>2, <1>3, <1>4, EndedSays DEF Sealed
  <2>2. Quiet(c, q + 1, L)
    <3> SUFFICES ASSUME NEW j \in (q + 1)..L PROVE c[j].ev \notin Turns
      BY DEF Quiet
    <3>1. j \in 1..L
      BY <1>1
    <3> QED BY <1>1, <1>4, <3>1 DEF Quiet
  <2>3. L + 1 > q /\ L + 1 - 1 = L /\ L + 1 \in q..(L + 1) /\ L + 1 \in Nat
    BY <1>1
  <2>4. Over(c, t, L + 1, "stopped")
    BY <1>1, <1>2, <2>1, <2>2, <2>3 DEF Over, Sealed
  <2> QED BY <1>1, <1>2, <1>3, <2>1, <2>3, <2>4 DEF Watching, Sealed
<1>5. CASE s.until \in Nat /\ \E k \in q..L : Over(b, s, k, "up")
  <2>1. PICK k \in q..L : Over(b, s, k, "up")
    BY <1>5
  <2>2. t = s
    BY <1>2, <1>3, <1>5, EndedSays DEF Unknown, Sealed
  <2>3. Over(c, s, k, "stopped")
    BY <1>2, <2>1, OverOn DEF Sealed
  <2>4. k \in q..(L + 1)
    BY <1>1
  <2> QED BY <1>1, <1>2, <1>3, <1>5, <2>2, <2>3, <2>4 DEF Watching, Sealed
<1> QED BY <1>1, <1>2, <1>4, <1>5 DEF Watching, Sealed

\* So does a crash, which the ledger does not show.
LEMMA CrashesOn ==
  ASSUME NEW b, NEW L \in Nat, Len(b) = L, NEW t \in Nat, Clocked(b, t), NEW u \in Nat, t <= u,
         NEW s, Watching(b, s, "up")
  PROVE  Watching(b, EndedAt(s, u), "died")
<1>1. PICK q : q = s.seq
  OBVIOUS
<1>2. q \in 1..L /\ b[q].ev = "SEAL_CREATED" /\ s.at = b[q].ts /\ s \in [seq : Nat, at : Int, until : Int]
  BY <1>1 DEF Watching
<1>3. PICK z : z = EndedAt(s, u)
  OBVIOUS
<1>4. CASE s.until = Unknown /\ Quiet(b, q + 1, L)
  <2>1. z.seq = s.seq /\ z.at = s.at /\ z.until = u /\ z \in [seq : Nat, at : Int, until : Int]
    BY <1>2, <1>3, <1>4, EndedSays
  <2>2. b[L].ts <= u
    <3>1. L \in 1..L
      BY <1>2
    <3>2. b[L].ts \in Nat /\ b[L].ts <= t
      BY <3>1 DEF Clocked
    <3> QED BY <3>2
  <2>3. L \in q..L
    BY <1>2
  <2>4. Over(b, z, L, "died")
    BY <1>1, <1>4, <2>1, <2>2 DEF Over
  <2> QED BY <1>1, <1>2, <1>3, <2>1, <2>3, <2>4 DEF Watching
<1>5. CASE s.until \in Nat /\ \E k \in q..L : Over(b, s, k, "up")
  <2>1. PICK k \in q..L : Over(b, s, k, "up")
    BY <1>5
  <2>2. z = s
    BY <1>2, <1>3, <1>5, EndedSays DEF Unknown
  <2>3. Over(b, s, k, "died")
    BY <2>1 DEF Over
  <2> QED BY <1>1, <1>2, <1>3, <1>5, <2>2, <2>3 DEF Watching
<1> QED BY <1>1, <1>4, <1>5 DEF Watching

\* Whoever writes a seal watches it.
LEMMA SealsOn ==
  ASSUME NEW c, NEW b, NEW L, NEW e, Longer(c, b, L, e), e.ev = "SEAL_CREATED", e.ts \in Nat
  PROVE  Watching(c, [seq |-> L + 1, at |-> e.ts, until |-> Unknown], "up")
<1>1. L \in Nat /\ Len(c) = L + 1 /\ c[L + 1] = e
  BY DEF Longer
<1>2. PICK s : s = [seq |-> L + 1, at |-> e.ts, until |-> Unknown]
  OBVIOUS
<1>3. s.seq = L + 1 /\ s.at = e.ts /\ s.until = Unknown /\ s \in [seq : Nat, at : Int, until : Int]
  BY <1>1, <1>2 DEF Unknown
<1>4. Quiet(c, L + 1 + 1, L + 1)
  BY <1>1 DEF Quiet
<1>5. L + 1 \in 1..(L + 1)
  BY <1>1
<1> QED BY <1>1, <1>2, <1>3, <1>4, <1>5 DEF Watching

\* The clock of a longer ledger, and what follows its shutdowns.
LEMMA ClockedOn ==
  ASSUME NEW c, NEW b, NEW L, NEW e, Longer(c, b, L, e), NEW t \in Nat, NEW u \in Nat, t <= u,
         Clocked(b, t), e.ts = u
  PROVE  Clocked(c, u)
<1>1. L \in Nat /\ Len(b) = L /\ Len(c) = L + 1 /\ c[L + 1] = e /\ \A i \in 1..L : c[i] = b[i]
  BY DEF Longer
<1>2. \A i \in 1..L : c[i].ts \in Nat /\ c[i].ts <= t
  BY <1>1 DEF Clocked
<1>3. \A i \in 1..(L + 1) : i = L + 1 \/ i \in 1..L
  BY <1>1
<1>4. \A i \in 1..(L + 1) : c[i].ts \in Nat /\ c[i].ts <= u
  <2> TAKE i \in 1..(L + 1)
  <2>1. CASE i = L + 1
    BY <1>1, <2>1
  <2>2. CASE i \in 1..L
    BY <1>2, <2>2
  <2> QED BY <1>3, <2>1, <2>2
<1>5. ASSUME NEW i \in 1..(L + 1), NEW j \in 1..(L + 1), i < j PROVE c[i].ts <= c[j].ts
  <2>1. i \in 1..L
    BY <1>1, <1>5
  <2>2. CASE j = L + 1
    BY <1>1, <1>4, <2>2
  <2>3. CASE j \in 1..L
    BY <1>1, <1>5, <2>1, <2>3 DEF Clocked
  <2> QED BY <1>3, <2>2, <2>3
<1> QED BY <1>1, <1>4, <1>5 DEF Clocked
\* A shutdown that a start follows stays told.
LEMMA StopsToldOn ==
  ASSUME NEW c, NEW b, NEW L, NEW e, Longer(c, b, L, e), StopsTold(b),
         L \in 1..L /\ b[L].ev = "GUARDIAN_STOPPED" => e.ev = "GUARDIAN_STARTED"
  PROVE  StopsTold(c)
<1>1. L \in Nat /\ Len(b) = L /\ Len(c) = L + 1 /\ c[L + 1] = e /\ \A i \in 1..L : c[i] = b[i]
  BY DEF Longer
<1>2. SUFFICES ASSUME NEW i \in 1..L, c[i].ev = "GUARDIAN_STOPPED" PROVE c[i + 1].ev = "GUARDIAN_STARTED"
  BY <1>1 DEF StopsTold
<1>3. CASE i = L
  BY <1>1, <1>2, <1>3
<1>4. CASE i \in 1..(L - 1)
  <2>1. i + 1 \in 1..L
    BY <1>1, <1>4
  <2> QED BY <1>1, <1>2, <1>4, <2>1 DEF StopsTold
<1> QED BY <1>1, <1>3, <1>4

\* A write: one more entry, at the time it is then.
LEMMA WriteTimes ==
  ASSUME Guarded, NEW ev \in Kinds, NEW oid \in Nat, NEW d \in Nat, Write(ev, oid, d)
  PROVE  \E e \in Records :
           /\ Longer(book', book, Len(book), e) /\ e.ev = ev /\ skew' = skew
           /\ now' \in Nat /\ now <= now' /\ (skew = 0 => e.ts = now')
<1>1. PICK p \in theme.pauses : book' = Append(book, Entry(ev, oid, d, p)) /\ now' = now + p /\ skew' = skew
  BY DEF Write
<1>2. p \in Nat /\ now \in Nat /\ book \in Seq(Records) /\ skew \in {0, -2}
  BY <1>1, CertSessionAssumption DEF Guarded, Chained
<1>3. PICK e \in Records : e = Entry(ev, oid, d, p) /\ e.ev = ev
  BY <1>2, EntrySays
<1>4. e.ts = now + p + skew
  BY <1>3 DEF Entry
<1>5. Longer(book', book, Len(book), e)
  BY <1>1, <1>2, <1>3, Appended DEF Longer
<1>6. now' \in Nat /\ now <= now' /\ (skew = 0 => e.ts = now')
  BY <1>1, <1>2, <1>4
<1> QED BY <1>1, <1>3, <1>5, <1>6

\* The times stay told.
LEMMA TimedStep ==
  ASSUME Guarded, Timed, GuardianNext
  PROVE  Timed'
<1>0. /\ book \in Seq(Records) /\ StartsTold(book, ModeOf(up, died), crashed) /\ now \in Nat /\ day \in Nat
      /\ up \in BOOLEAN /\ died \in BOOLEAN /\ skew \in {0, -2} /\ Len(book) \in Nat /\ StopsTold(book)
      /\ Count(book, "DAY_OPENED") \in Nat
  <2>1. book \in Seq(Records)
    BY DEF Guarded, Chained
  <2>2. Len(book) \in Nat
    BY <2>1
  <2>3. Count(book, "DAY_OPENED") \in Nat
    BY <2>1, CountType
  <2> QED BY <2>1, <2>2, <2>3, Zenon DEF Guarded, Timed
<1>1. up => ModeOf(up, died) = "up" /\ (Len(book) \in 1..Len(book) => book[Len(book)].ev # "GUARDIAN_STOPPED")
  <2> SUFFICES ASSUME up, Len(book) \in 1..Len(book)
               PROVE  ModeOf(up, died) = "up" /\ book[Len(book)].ev # "GUARDIAN_STOPPED"
    BY DEF ModeOf
  <2>1. book # <<>>
    <3>1. Len(<<>>) = 0
      OBVIOUS
    <3> QED BY <3>1
  <2> QED BY <1>0, <2>1 DEF ModeOf, StartsTold
<1>2. ASSUME NEW e \in Records, Longer(book', book, Len(book), e), up, skew' = skew,
             now' \in Nat, now <= now', skew = 0 => e.ts = now',
             ModeOf(up', died') = IF e.ev = "GUARDIAN_STOPPED" THEN "stopped" ELSE "up",
             e.ev # "GUARDIAN_STARTED",
             \A t \in seals' : \/ t \in seals /\ e.ev # "GUARDIAN_STOPPED"
                               \/ e.ev = "GUARDIAN_STOPPED" /\ \E s \in seals : t = EndedAt(s, now')
                               \/ e.ev = "SEAL_CREATED" /\ t = [seq |-> Len(book) + 1, at |-> now', until |-> Unknown]
      PROVE  Timed'
  <2>1. StopsTold(book')
    BY <1>0, <1>1, <1>2, StopsToldOn
  <2>2. ASSUME skew = 0 PROVE Clocked(book', now') /\ \A t \in seals' : Watching(book', t, ModeOf(up', died'))
    <3>1. Clocked(book, now) /\ e.ts = now' /\ \A s \in seals : Watching(book, s, "up")
      BY <1>1, <1>2, <2>2 DEF Timed
    <3>2. Clocked(book', now')
      BY <1>0, <1>2, <3>1, ClockedOn
    <3>3. ASSUME NEW t \in seals' PROVE Watching(book', t, ModeOf(up', died'))
      <4>1. CASE t \in seals /\ e.ev # "GUARDIAN_STOPPED"
        BY <1>2, <3>1, <4>1, WritesOn DEF Turns
      <4>2. CASE e.ev = "GUARDIAN_STOPPED" /\ \E s \in seals : t = EndedAt(s, now')
        BY <1>2, <3>1, <4>2, StopsOn
      <4>3. CASE e.ev = "SEAL_CREATED" /\ t = [seq |-> Len(book) + 1, at |-> now', until |-> Unknown]
        BY <1>2, <3>1, <4>3, SealsOn
      <4> QED BY <1>2, <3>3, <4>1, <4>2, <4>3
    <3> QED BY <3>2, <3>3
  <2> QED BY <1>2, <2>1, <2>2 DEF Timed
<1>3. CASE GuardianStarts
  <2>1. PICK e \in Records :
           /\ Longer(book', book, Len(book), e) /\ e.ev = "GUARDIAN_STARTED" /\ skew' = skew
           /\ now' \in Nat /\ now <= now' /\ (skew = 0 => e.ts = now')
    BY <1>0, <1>3, WriteTimes DEF GuardianStarts, Kinds, NoId
  <2>2. seals' = seals /\ ModeOf(up', died') = "up" /\ ModeOf(up, died) # "up"
    BY <1>3 DEF GuardianStarts, ModeOf
  <2>3. StopsTold(book')
    BY <1>0, <2>1, StopsToldOn
  <2>4. ASSUME skew = 0 PROVE Clocked(book', now') /\ \A t \in seals' : Watching(book', t, ModeOf(up', died'))
    <3>1. Clocked(book, now) /\ e.ts = now' /\ \A s \in seals : Watching(book, s, ModeOf(up, died))
      BY <2>1, <2>4 DEF Timed
    <3>2. Clocked(book', now')
      BY <1>0, <2>1, <3>1, ClockedOn
    <3>3. \A s \in seals : Watching(book', s, "up")
      BY <2>1, <2>2, <3>1, StartsOn
    <3> QED BY <2>2, <3>2, <3>3
  <2> QED BY <2>1, <2>3, <2>4 DEF Timed
<1>4. CASE GuardianStops
  <2>1. PICK e \in Records :
           /\ Longer(book', book, Len(book), e) /\ e.ev = "GUARDIAN_STOPPED" /\ skew' = skew
           /\ now' \in Nat /\ now <= now' /\ (skew = 0 => e.ts = now')
    BY <1>0, <1>4, WriteTimes DEF GuardianStops, Kinds, NoId
  <2>2. ASSUME NEW t \in seals' PROVE \E s \in seals : t = EndedAt(s, now')
    BY <1>4, Zenon DEF GuardianStops, Watched, EndedAt
  <2>3. up /\ ModeOf(up', died') = "stopped"
    BY <1>0, <1>4 DEF GuardianStops, ModeOf, Guarded
  <2> QED BY <1>2, <2>1, <2>2, <2>3
<1>5. CASE GuardianCrashes
  <2>1. up /\ ModeOf(up, died) = "up" /\ ModeOf(up', died') = "died" /\ book' = book /\ skew' = skew /\ now' = now + 1
    BY <1>5 DEF GuardianCrashes, ModeOf
  <2>2. ASSUME NEW t \in seals' PROVE \E s \in seals : t = EndedAt(s, now')
    BY <1>5, Zenon DEF GuardianCrashes, Watched, EndedAt
  <2>3. now' \in Nat /\ now <= now'
    BY <1>0, <2>1
  <2>4. ASSUME skew = 0 PROVE Clocked(book, now') /\ \A t \in seals' : Watching(book, t, "died")
    <3>1. Clocked(book, now) /\ \A s \in seals : Watching(book, s, "up")
      BY <2>1, <2>4 DEF Timed
    <3>2. \A s \in seals : Watching(book, EndedAt(s, now'), "died")
      BY <1>0, <2>3, <3>1, CrashesOn
    <3>3. Clocked(book, now')
      BY <1>0, <2>3, <3>1 DEF Clocked
    <3> QED BY <2>2, <3>2, <3>3
  <2> QED BY <1>0, <2>1, <2>4 DEF Timed
<1>6. CASE SealCreated
  <2>1. PICK e \in Records :
           /\ Longer(book', book, Len(book), e) /\ e.ev = "SEAL_CREATED" /\ skew' = skew
           /\ now' \in Nat /\ now <= now' /\ (skew = 0 => e.ts = now')
    BY <1>0, <1>6, WriteTimes DEF SealCreated, Kinds, NoId
  <2>2. ASSUME NEW t \in seals', t \notin seals PROVE t = [seq |-> Len(book) + 1, at |-> now', until |-> Unknown]
    <3>1. Len(book') = Len(book) + 1
      BY <2>1 DEF Longer
    <3> QED BY <1>6, <2>2, <3>1 DEF SealCreated
  <2>3. up /\ ModeOf(up', died') = "up"
    BY <1>6 DEF SealCreated, ModeOf
  <2> QED BY <1>2, <2>1, <2>2, <2>3
<1>7. ASSUME NEW ev \in Kinds, ev \notin {"GUARDIAN_STARTED", "GUARDIAN_STOPPED", "SEAL_CREATED"}, NEW oid \in Nat,
             NEW d \in Nat, Write(ev, oid, d), up, up' = up, seals' = seals
      PROVE  Timed'
  <2>1. PICK e \in Records :
           /\ Longer(book', book, Len(book), e) /\ e.ev = ev /\ skew' = skew
           /\ now' \in Nat /\ now <= now' /\ (skew = 0 => e.ts = now')
    BY <1>7, WriteTimes
  <2>2. ModeOf(up', died') = "up"
    BY <1>7 DEF ModeOf
  <2> QED BY <1>2, <1>7, <2>1, <2>2
<1>8. CASE DayOpened
  <2>1. PICK d \in Nat : d = day'
    BY <1>0, <1>8 DEF DayOpened
  <2>2. Write("DAY_OPENED", NoId, d) /\ up /\ up' = up /\ seals' = seals
    BY <1>8, <2>1 DEF DayOpened
  <2> QED BY <1>7, <2>2 DEF Kinds, NoId
<1>9. CASE DayClosed
  BY <1>0, <1>7, <1>9 DEF DayClosed, Kinds, NoId
<1>10. CASE ClockBack
  <2>1. book' = book /\ skew' = -2
    BY <1>10 DEF ClockBack
  <2>2. skew' # 0
    BY <2>1
  <2> QED BY <1>0, <2>1, <2>2 DEF Timed
<1>11. ASSUME NEW ev \in theme.kinds \cap Observed,
              NEW oid \in IF ev = "ORDER_REJECTED_LOCKED" THEN {NoId, 1, 2} ELSE {NoId},
              Observes(ev, oid)
       PROVE  Timed'
  <2>1. ev \in Kinds /\ oid \in Nat /\ ev \notin {"GUARDIAN_STARTED", "GUARDIAN_STOPPED", "SEAL_CREATED"}
    BY DEF Observed, Kinds, Material, Boundary, Human, NoId
  <2> QED BY <1>0, <1>7, <1>11, <2>1 DEF Observes
<1> QED BY <1>3, <1>4, <1>5, <1>6, <1>8, <1>9, <1>10, <1>11 DEF GuardianNext

\* The times are told of every ledger.
LEMMA TimedInit == Init => Timed
<1> SUFFICES ASSUME Init PROVE Timed
  OBVIOUS
<1>1. book = <<>> /\ now = 0 /\ seals = {}
  BY DEF Init
<1>2. Len(book) = 0
  BY <1>1
<1> QED BY <1>1, <1>2 DEF Timed, StopsTold, Clocked

\* Every step keeps what is told of the times.
LEMMA TimedKept ==
  ASSUME Guarded, Timed, [Next]_vars
  PROVE  Timed'
<1>1. CASE GuardianNext
  BY <1>1, TimedStep
<1>2. ASSUME UNCHANGED <<book, now, skew, seals, up, died>> PROVE Timed'
  BY <1>2 DEF Timed, StopsTold, Clocked, ModeOf, Watching, Over, Quiet
<1>3. CASE ShowNext
  <2>1. PICK p : Asked(p) /\ Show(p)
    BY <1>3, ShowAsks
  <2> QED BY <1>2, <2>1 DEF Show, guardianVars
<1>4. CASE UNCHANGED vars
  BY <1>2, <1>4 DEF vars
<1> QED BY <1>1, <1>3, <1>4, NextIs

\* The ledger says when a seal was written and until when it was watched, and the history of the
\* seals agrees with it.
THEOREM TimesAreTold == Spec => []Timed
<1>1. Guarded /\ Judgement /\ Timed /\ [Next]_vars => Timed'
  BY TimedKept
<1> QED BY <1>1, TimedInit, LedgerIsTold, PTL DEF Spec

-----------------------------------------------------------------------------
(* What is said of the times *)

\* A certificate without a flaw is judged over the entries of its range.
Timing(r, u, v, n, rows) ==
  /\ u \in 1..Len(book) /\ v \in u..Len(book) /\ n = v - u + 1
  /\ rows = [k \in 1..n |-> book[u + k - 1]] /\ rows = EventsInRange(book, u, v)
  /\ r.continuity = Continuity(book, "guardian-core-v1", u, v)
  /\ r.backwards = BackwardsTimestamps(book, u, v)
\* Such is every certificate without a flaw.
LEMMA TimingIs ==
  ASSUME Guarded, NEW p, Asked(p), p.flaw = "none"
  PROVE  \E n, rows : Timing(Told(p), p.from, p.to, n, rows)
<1>1. PICK cert, file, anchors : cert = Certificate(p) /\ file = Copy(p) /\ anchors = Anchors(p)
  OBVIOUS
<1>2. file = book
  BY <1>1 DEF Copy
<1>3. cert.from = p.from /\ cert.to = p.to /\ cert.dialect = "guardian-core-v1"
  BY <1>1 DEF Certificate
<1>4. Segment(file, 0, Len(book))
  BY <1>2, WholeCopy
<1>5. PICK L : L = Len(book)
  OBVIOUS
<1>6. L \in Nat /\ p.from \in 1..L /\ p.to \in p.from..L
  BY <1>5, BookSays DEF Asked
<1>7. 0 < p.from /\ p.to <= 0 + L
  BY <1>6
<1>8. Heard(cert, file, p)
  BY <1>3, <1>4, <1>5, <1>7, HeldRange
<1>9. PICK n : n = p.to - p.from + 1
  OBVIOUS
<1>10. CertRows(p) = [k \in 1..n |-> book[p.from + k - 1]]
  BY <1>9, CertRowsAre
<1>11. EventsInRange(file, p.from, p.to) = CertRows(p)
  BY <1>4, <1>5, <1>7, RangeRows
<1>12. Told(p) = VerifyCertificate(cert, file, anchors, TRUE)
  BY <1>1 DEF Told
<1>13. /\ Told(p).continuity = Continuity(file, cert.dialect, cert.from, Effective(cert, file))
       /\ Told(p).backwards = BackwardsTimestamps(file, cert.from, Effective(cert, file))
  BY <1>8, <1>12, Reports DEF Heard
<1>14. Effective(cert, file) = p.to
  BY <1>8 DEF Heard
<1>15. Timing(Told(p), p.from, p.to, n, CertRows(p))
  BY <1>2, <1>3, <1>5, <1>6, <1>9, <1>10, <1>11, <1>13, <1>14 DEF Timing
<1> QED BY <1>15

\* The clock is seen to go back where it did.
LEMMA BackwardsIs ==
  ASSUME Guarded, NEW r, NEW u, NEW v, NEW n, NEW rows, Timing(r, u, v, n, rows)
  PROVE  (r.backwards # {}) = (\E i \in u..(v - 1) : book[i + 1].ts < book[i].ts)
<1>1. Len(book) \in Nat
  BY BookSays
<1>2. u \in Nat /\ v \in Nat /\ n \in Nat /\ u <= v /\ n = v - u + 1
  BY <1>1 DEF Timing
<1>3. DOMAIN rows = 1..n /\ \A k \in 1..n : rows[k] = book[u + k - 1]
  BY DEF Timing
<1>4. Len(rows) = n
  BY <1>2 DEF Timing
<1>5. r.backwards = {<<rows[i].seq, rows[i + 1].seq>> : i \in {j \in 1..(n - 1) : rows[j + 1].ts < rows[j].ts}}
  BY <1>4 DEF Timing, BackwardsTimestamps
<1>6. r.backwards # {} <=> \E j \in 1..(n - 1) : rows[j + 1].ts < rows[j].ts
  BY <1>5
<1>7. ASSUME NEW j \in 1..(n - 1)
      PROVE  /\ u + j - 1 \in u..(v - 1) /\ rows[j] = book[u + j - 1] /\ rows[j + 1] = book[(u + j - 1) + 1]
  <2>1. j \in 1..n /\ j + 1 \in 1..n /\ u + (j + 1) - 1 = (u + j - 1) + 1 /\ u + j - 1 \in u..(v - 1)
    BY <1>2
  <2>2. rows[j + 1] = book[u + (j + 1) - 1]
    BY <1>3, <2>1
  <2> QED BY <1>3, <2>1, <2>2
<1>8. ASSUME NEW i \in u..(v - 1) PROVE \E j \in 1..(n - 1) : u + j - 1 = i
  <2>1. i - u + 1 \in 1..(n - 1) /\ u + (i - u + 1) - 1 = i
    BY <1>2
  <2> QED BY <2>1
<1>9. (\E j \in 1..(n - 1) : rows[j + 1].ts < rows[j].ts) <=> (\E i \in u..(v - 1) : book[i + 1].ts < book[i].ts)
  <2>1. ASSUME NEW j \in 1..(n - 1), rows[j + 1].ts < rows[j].ts PROVE \E i \in u..(v - 1) : book[i + 1].ts < book[i].ts
    BY <1>7, <2>1
  <2>2. ASSUME NEW i \in u..(v - 1), book[i + 1].ts < book[i].ts PROVE \E j \in 1..(n - 1) : rows[j + 1].ts < rows[j].ts
    <3>1. PICK j \in 1..(n - 1) : u + j - 1 = i
      BY <1>8
    <3> QED BY <1>7, <2>2, <3>1
  <2> QED BY <2>1, <2>2
<1> QED BY <1>6, <1>9

-----------------------------------------------------------------------------
(* Sums over a set, in any order *)

SumStep(g, f, pick, s, first) ==
  IF s = {} THEN 0
  ELSE IF first THEN f[pick[s]] + g[s \ {pick[s]}] ELSE g[s \ {pick[s]}] + f[pick[s]]
SumEq(g, f, pick, D, first) == g = [s \in D |-> SumStep(g, f, pick, s, first)]
Picks(pick, T) == \A s \in SUBSET T : s # {} => pick[s] \in s
IsSum(g, f, T) ==
  /\ IsFiniteSet(T) /\ f \in [T -> Int]
  /\ \E pick, first : Picks(pick, T) /\ SumEq(g, f, pick, SUBSET T, first)

\* Removing an element from a finite set.
LEMMA Smaller ==
  ASSUME NEW s, NEW x, x \in s, IsFiniteSet(s)
  PROVE  /\ IsFiniteSet(s \ {x}) /\ Cardinality(s) \in Nat /\ Cardinality(s \ {x}) \in Nat
         /\ Cardinality(s \ {x}) = Cardinality(s) - 1
BY FS_RemoveElement, FS_CardinalityType

\* There is a sum, whatever is picked first.
LEMMA SumExists ==
  ASSUME NEW T, IsFiniteSet(T), NEW f, NEW pick, Picks(pick, T), NEW first
  PROVE  \E g : SumEq(g, f, pick, SUBSET T, first)
<1> DEFINE Sub(n) == {s \in SUBSET T : Cardinality(s) <= n}
           P == {n \in Nat : \E g : SumEq(g, f, pick, Sub(n), first)}
<1>0. \A s \in SUBSET T : IsFiniteSet(s) /\ Cardinality(s) \in Nat
  BY FS_Subset, FS_CardinalityType
<1>1. 0 \in P
  <2> DEFINE g == [s \in Sub(0) |-> 0]
  <2>1. ASSUME NEW s \in Sub(0) PROVE s = {}
    BY <1>0, FS_EmptySet
  <2>2. SumEq(g, f, pick, Sub(0), first)
    BY <2>1 DEF SumEq, SumStep
  <2> QED
    BY <2>2
<1>2. ASSUME NEW n \in Nat, n \in P PROVE n + 1 \in P
  <2>1. PICK g : SumEq(g, f, pick, Sub(n), first)
    BY <1>2
  <2> DEFINE h == [s \in Sub(n + 1) |-> SumStep(g, f, pick, s, first)]
  <2>2. ASSUME NEW u \in Sub(n) PROVE h[u] = g[u]
    <3>1. u \in Sub(n + 1)
      BY <1>0
    <3> QED
      BY <2>1, <3>1 DEF SumEq
  <2>3. ASSUME NEW s \in Sub(n + 1), s # {} PROVE s \ {pick[s]} \in Sub(n)
    <3>0. pick[s] \in s
      BY <2>3 DEF Picks
    <3>1. Cardinality(s \ {pick[s]}) = Cardinality(s) - 1
      BY <1>0, <3>0, Smaller
    <3> QED
      BY <3>1, <1>0
  <2>4. ASSUME NEW s \in Sub(n + 1) PROVE SumStep(g, f, pick, s, first) = SumStep(h, f, pick, s, first)
    <3>1. s # {} => h[s \ {pick[s]}] = g[s \ {pick[s]}]
      BY <2>2, <2>3
    <3> HIDE DEF h
    <3> QED BY <3>1 DEF SumStep
  <2>5. SumEq(h, f, pick, Sub(n + 1), first)
    <3> HIDE DEF Sub
    <3> QED
      BY <2>4 DEF SumEq
  <2> HIDE DEF h, Sub
  <2>6. \E k : SumEq(k, f, pick, Sub(n + 1), first)
    BY <2>5
  <2>7. n + 1 \in Nat
    OBVIOUS
  <2> QED
    BY <2>6, <2>7
<1>3. Cardinality(T) \in P
  <2> HIDE DEF P
  <2>1. Nat \subseteq P
    BY <1>1, <1>2, NatSetInduction
  <2> QED
    BY <2>1, FS_CardinalityType
<1>4. Sub(Cardinality(T)) = SUBSET T
  BY FS_Subset
<1> QED
  BY <1>3, <1>4

\* What a sum adds, one at a time.
LEMMA SumFacts ==
  ASSUME NEW T, NEW f, NEW g, IsSum(g, f, T)
  PROVE  /\ \A s \in SUBSET T : IsFiniteSet(s) /\ Cardinality(s) \in Nat
         /\ \A x \in T : f[x] \in Int
         /\ g[{}] = 0
         /\ \A s \in SUBSET T : s # {} =>
              \E c \in s : g[s] = f[c] + g[s \ {c}] \/ g[s] = g[s \ {c}] + f[c]
<1>1. PICK pick, first : Picks(pick, T) /\ SumEq(g, f, pick, SUBSET T, first)
  BY DEF IsSum
<1>2. IsFiniteSet(T) /\ f \in [T -> Int]
  BY DEF IsSum
<1>3. \A s \in SUBSET T : g[s] = SumStep(g, f, pick, s, first)
  BY <1>1 DEF SumEq
<1>4. \A s \in SUBSET T : IsFiniteSet(s) /\ Cardinality(s) \in Nat
  BY <1>2, FS_Subset, FS_CardinalityType
<1>5. g[{}] = 0
  BY <1>3 DEF SumStep
<1>6. ASSUME NEW s \in SUBSET T, s # {} PROVE \E c \in s : g[s] = f[c] + g[s \ {c}] \/ g[s] = g[s \ {c}] + f[c]
  <2>1. pick[s] \in s
    BY <1>1, <1>6 DEF Picks
  <2> QED BY <1>3, <1>6, <2>1 DEF SumStep
<1> QED BY <1>2, <1>4, <1>5, <1>6

\* A sum of numbers is a number.
LEMMA SumType ==
  ASSUME NEW T, NEW f, NEW g, IsSum(g, f, T)
  PROVE  \A s \in SUBSET T : g[s] \in Int
<1> DEFINE P == {n \in Nat : \A s \in SUBSET T : Cardinality(s) = n => g[s] \in Int}
<1>0. /\ \A s \in SUBSET T : IsFiniteSet(s) /\ Cardinality(s) \in Nat
      /\ \A x \in T : f[x] \in Int
      /\ g[{}] = 0
      /\ \A s \in SUBSET T : s # {} =>
              \E c \in s : g[s] = f[c] + g[s \ {c}] \/ g[s] = g[s \ {c}] + f[c]
  BY SumFacts
<1>1. 0 \in P
  <2> SUFFICES ASSUME NEW s \in SUBSET T, Cardinality(s) = 0 PROVE g[s] \in Int
    OBVIOUS
  <2>1. s = {}
    BY <1>0, FS_EmptySet
  <2> QED BY <1>0, <2>1
<1>2. ASSUME NEW n \in Nat, n \in P PROVE n + 1 \in P
  <2> SUFFICES ASSUME NEW s \in SUBSET T, Cardinality(s) = n + 1 PROVE g[s] \in Int
    OBVIOUS
  <2>1. s # {}
    BY FS_EmptySet
  <2>2. PICK c \in s : g[s] = f[c] + g[s \ {c}] \/ g[s] = g[s \ {c}] + f[c]
    BY <1>0, <2>1
  <2>3. Cardinality(s \ {c}) = n
    BY <1>0, <2>2, Smaller
  <2>4. g[s \ {c}] \in Int
    BY <1>2, <2>3
  <2>5. f[c] \in Int
    BY <1>0, <2>2
  <2> QED
      BY <2>2, <2>4, <2>5
<1>3. Nat \subseteq P
  <2> HIDE DEF P
  <2> QED
    BY <1>1, <1>2, NatSetInduction
<1> QED
  BY <1>0, <1>3

\* Any one can be added last.
LEMMA SumTakes ==
  ASSUME NEW T, NEW f, NEW g, NEW U, NEW z, IsSum(g, f, T), U \subseteq T, z \in U
  PROVE  g[U] = f[z] + g[U \ {z}]
<1> DEFINE P == {n \in Nat : \A s \in SUBSET T : Cardinality(s) = n => \A x \in s : g[s] = f[x] + g[s \ {x}]}
<1>0. /\ \A s \in SUBSET T : IsFiniteSet(s) /\ Cardinality(s) \in Nat
      /\ \A x \in T : f[x] \in Int
      /\ \A s \in SUBSET T : s # {} =>
              \E c \in s : g[s] = f[c] + g[s \ {c}] \/ g[s] = g[s \ {c}] + f[c]
  BY SumFacts
<1>0b. \A s \in SUBSET T : g[s] \in Int
  BY SumType
<1>1. 0 \in P
  BY <1>0, FS_EmptySet
<1>2. ASSUME NEW n \in Nat, n \in P PROVE n + 1 \in P
  <2> SUFFICES ASSUME NEW s \in SUBSET T, Cardinality(s) = n + 1, NEW x \in s PROVE g[s] = f[x] + g[s \ {x}]
    OBVIOUS
  <2>1. PICK c \in s : g[s] = f[c] + g[s \ {c}] \/ g[s] = g[s \ {c}] + f[c]
    BY <1>0
  <2>1a. f[c] \in Int /\ g[s \ {c}] \in Int
    BY <1>0, <1>0b
  <2>2. g[s] = f[c] + g[s \ {c}]
    BY <2>1, <2>1a
  <2>3. CASE x = c
    BY <2>2, <2>3
  <2>4. CASE x # c
    <3> DEFINE u == s \ {c}
               v == s \ {x}
    <3>1. Cardinality(u) = n /\ Cardinality(v) = n
      <4>1. IsFiniteSet(s)
        BY <1>0
      <4>2. Cardinality(s \ {c}) = Cardinality(s) - 1
        BY <4>1, Smaller
      <4>3. Cardinality(s \ {x}) = Cardinality(s) - 1
        BY <4>1, Smaller
      <4> QED BY <4>2, <4>3
    <3>2. u \in SUBSET T /\ v \in SUBSET T /\ x \in u /\ c \in v
      BY <2>1, <2>4
    <3>3. g[u] = f[x] + g[u \ {x}]
      BY <1>2, <3>1, <3>2
    <3>4. g[v] = f[c] + g[v \ {c}]
      BY <1>2, <3>1, <3>2
    <3>5. u \ {x} = v \ {c}
      OBVIOUS
    <3>6. f[x] \in Int /\ f[c] \in Int /\ g[u \ {x}] \in Int
      BY <1>0, <2>1, <1>0b
    <3> HIDE DEF u, v
    <3>7. g[s] = f[c] + g[u] /\ g[v] = f[c] + g[u \ {x}]
      BY <2>2, <3>4, <3>5 DEF u
    <3>8. g[s] = f[x] + g[v]
      BY <3>3, <3>6, <3>7
    <3> QED
      BY <3>8 DEF v
  <2> QED
    BY <2>3, <2>4
<1>3. Nat \subseteq P
  <2> HIDE DEF P
  <2> QED
    BY <1>1, <1>2, NatSetInduction
<1>4. Cardinality(U) \in P
  BY <1>0, <1>3
<1> QED
  BY <1>4

\* Two sums over the same numbers are the same.
LEMMA SumAgree ==
  ASSUME NEW T, NEW U, NEW f, NEW g, NEW e, NEW h, IsSum(g, f, T), IsSum(h, e, U),
         NEW S, S \subseteq T, S \subseteq U, \A x \in S : f[x] = e[x]
  PROVE  g[S] = h[S]
<1> DEFINE Q(s) == (\A x \in s : f[x] = e[x]) => g[s] = h[s]
           P == {n \in Nat : \A s \in SUBSET (T \cap U) : Cardinality(s) = n => Q(s)}
<1>0. /\ \A s \in SUBSET (T \cap U) : IsFiniteSet(s) /\ Cardinality(s) \in Nat
      /\ g[{}] = 0 /\ h[{}] = 0
  BY SumFacts
<1>0a. \A s \in SUBSET (T \cap U) : \A x \in s : g[s] = f[x] + g[s \ {x}] /\ h[s] = e[x] + h[s \ {x}]
  <2> SUFFICES ASSUME NEW s \in SUBSET (T \cap U), NEW x \in s
               PROVE  g[s] = f[x] + g[s \ {x}] /\ h[s] = e[x] + h[s \ {x}]
    OBVIOUS
  <2> HIDE DEF P, Q
  <2>1. s \subseteq T /\ s \subseteq U
    OBVIOUS
  <2>2. g[s] = f[x] + g[s \ {x}]
    BY <2>1, SumTakes
  <2>3. h[s] = e[x] + h[s \ {x}]
    BY <2>1, SumTakes
  <2> QED BY <2>2, <2>3
<1>1. 0 \in P
  BY <1>0, FS_EmptySet
<1>2. ASSUME NEW n \in Nat, n \in P PROVE n + 1 \in P
  <2> SUFFICES ASSUME NEW s \in SUBSET (T \cap U), Cardinality(s) = n + 1, \A x \in s : f[x] = e[x]
               PROVE  g[s] = h[s]
    OBVIOUS
  <2>1. s # {}
    BY FS_EmptySet
  <2>2. PICK c \in s : TRUE
    BY <2>1
  <2>3. Cardinality(s \ {c}) = n
    BY <1>0, <2>2, Smaller
  <2>4. g[s \ {c}] = h[s \ {c}]
    BY <1>2, <2>3
  <2> QED
    BY <2>2, <2>4, <1>0a
<1>3. Nat \subseteq P
  <2> HIDE DEF P
  <2> QED
    BY <1>1, <1>2, NatSetInduction
<1>4. Cardinality(S) \in P /\ S \in SUBSET (T \cap U)
  BY <1>0, <1>3
<1> QED
  BY <1>4

-----------------------------------------------------------------------------
(* The sum of a sequence *)

SumOf(s) == FoldLeft(+, 0, s)
\* It is a sum over the places of the sequence.
LEMMA SumOfIs ==
  ASSUME NEW s \in Seq(Int), NEW n \in Nat, n = Len(s)
  PROVE  \E f, g : f = [i \in 1..n |-> s[i]] /\ IsSum(g, f, 1..n) /\ SumOf(s) = g[1..n]
<1> DEFINE T == 1..n
           Eq(g) == g = [u \in SUBSET T |-> IF u = {} THEN 0 ELSE g[u \ {Max(u)}] + s[Max(u)]]
           c == CHOOSE g : Eq(g)
<1>0. PICK f : f = [i \in T |-> s[i]]
  OBVIOUS
<1>1. PICK pick : pick = [u \in SUBSET T |-> Max(u)]
  OBVIOUS
<1>2. IsFiniteSet(T)
  BY FS_Interval
<1>3. ASSUME NEW u \in SUBSET T, u # {} PROVE Max(u) \in u
  <2>0. T \subseteq Nat
    OBVIOUS
  <2> HIDE DEF T, Eq, c
  <2>1. u \subseteq Nat /\ IsFiniteSet(u)
    BY <1>2, <2>0, FS_Subset
  <2> QED BY <1>3, <2>1, MaxOf
<1>4. Picks(pick, T)
  BY <1>1, <1>3 DEF Picks
<1>5. ASSUME NEW g PROVE SumEq(g, f, pick, SUBSET T, FALSE) <=> Eq(g)
  <2>1. \A u \in SUBSET T : SumStep(g, f, pick, u, FALSE) = IF u = {} THEN 0 ELSE g[u \ {Max(u)}] + s[Max(u)]
    BY <1>0, <1>1, <1>3 DEF SumStep
  <2> QED BY <2>1 DEF SumEq
<1>6. \E g : Eq(g)
  <2> HIDE DEF Eq
  <2> QED BY <1>2, <1>4, <1>5, SumExists
<1>7. Eq(c)
  <2> HIDE DEF Eq
  <2> QED BY <1>6
<1>8. SumOf(s) = c[T]
  <2>1. DOMAIN s = T
    OBVIOUS
  <2> QED BY <2>1 DEF SumOf, FoldLeft, MapThenFoldSet
<1>9. f \in [T -> Int]
  BY <1>0
<1>10. IsSum(c, f, T)
  <2> HIDE DEF Eq, c, T
  <2> QED BY <1>2, <1>4, <1>5, <1>7, <1>9 DEF IsSum
<1> QED
  <2> HIDE DEF Eq, c
  <2> QED BY <1>0, <1>8, <1>10

\* One more number.
LEMMA SumAppended ==
  ASSUME NEW s \in Seq(Int), NEW x \in Int
  PROVE  SumOf(s) \in Int /\ SumOf(Append(s, x)) = SumOf(s) + x /\ SumOf(<<>>) = 0
<1>1. PICK n \in Nat : n = Len(s)
  OBVIOUS
<1>2. PICK t : t = Append(s, x)
  OBVIOUS
<1>3. t \in Seq(Int) /\ Len(t) = n + 1 /\ t[n + 1] = x /\ \A i \in 1..n : t[i] = s[i]
  BY <1>1, <1>2
<1>4. PICK f, g : f = [i \in 1..n |-> s[i]] /\ IsSum(g, f, 1..n) /\ SumOf(s) = g[1..n]
  BY <1>1, SumOfIs
<1>5. PICK e, h : e = [i \in 1..(n + 1) |-> t[i]] /\ IsSum(h, e, 1..(n + 1)) /\ SumOf(t) = h[1..(n + 1)]
  <2>1. n + 1 \in Nat
    OBVIOUS
  <2> QED BY <1>3, <2>1, SumOfIs
<1>6. n + 1 \in 1..(n + 1) /\ (1..(n + 1)) \ {n + 1} = 1..n /\ 1..n \subseteq 1..(n + 1)
  OBVIOUS
<1>7. h[1..(n + 1)] = e[n + 1] + h[1..n]
  <2>1. PICK S : S = 1..(n + 1)
    OBVIOUS
  <2>1a. IsSum(h, e, S) /\ S \subseteq S /\ n + 1 \in S
    BY <1>5, <1>6, <2>1
  <2>2. h[S] = e[n + 1] + h[S \ {n + 1}]
    BY <2>1a, SumTakes
  <2> QED BY <1>6, <2>1, <2>2
<1>8. e[n + 1] = x /\ \A i \in 1..n : f[i] = e[i]
  BY <1>3, <1>4, <1>5, <1>6
<1>9. g[1..n] = h[1..n]
  <2>1. PICK S : S = 1..n
    OBVIOUS
  <2>1a. PICK T : T = 1..(n + 1)
    OBVIOUS
  <2>2. S \subseteq S /\ S \subseteq T /\ \A i \in S : f[i] = e[i]
    BY <1>6, <1>8, <2>1, <2>1a
  <2>3. IsSum(g, f, S) /\ IsSum(h, e, T)
    BY <1>4, <1>5, <2>1, <2>1a
  <2>4. g[S] = h[S]
    BY <2>2, <2>3, SumAgree
  <2> QED BY <2>1, <2>4
<1>10. g[1..n] \in Int
  BY <1>4, SumType
<1>11. SumOf(<<>>) = 0
  <2>1. <<>> \in Seq(Int) /\ 0 \in Nat /\ Len(<<>>) = 0
    OBVIOUS
  <2>1a. PICK z, m : z = <<>> /\ m = 0 /\ z \in Seq(Int) /\ m \in Nat /\ m = Len(z)
    BY <2>1
  <2>1b. PICK d, k : IsSum(k, d, 1..m) /\ SumOf(z) = k[1..m]
    <3>1. z \in Seq(Int) /\ m \in Nat /\ m = Len(z)
      BY <2>1a
    <3> QED BY <3>1, SumOfIs
  <2>2. IsSum(k, d, 1..0) /\ SumOf(<<>>) = k[1..0]
    BY <2>1a, <2>1b
  <2>3. 1..0 = {}
    OBVIOUS
  <2> QED BY <2>2, <2>3, SumFacts
<1>12. SumOf(t) = x + SumOf(s) /\ SumOf(s) \in Int
  BY <1>4, <1>5, <1>7, <1>8, <1>9, <1>10, Zenon
<1>13. SumOf(t) = SumOf(s) + x
  BY <1>12
<1> QED BY <1>2, <1>11, <1>12, <1>13

-----------------------------------------------------------------------------
(* The loop over the times *)

\* What one entry changes of the times that the loop keeps.
Same(next, acc) == next.armed = acc.armed /\ next.since = acc.since /\ next.covered = acc.covered
Calm(next, acc) == next.unclean = acc.unclean /\ next.gaps = acc.gaps
Spell(acc, t) == IF acc.since = Unknown THEN 0 ELSE t - acc.since
WatchSeal(next, acc, e) ==
  next.armed /\ next.since = e.ts /\ next.covered = acc.covered /\ next.stop = acc.stop /\ Calm(next, acc)
WatchStop(next, acc, e) ==
  /\ next.armed = acc.armed /\ next.stop = e.ts /\ next.since = Unknown
  /\ next.covered = acc.covered + Spell(acc, e.ts) /\ Calm(next, acc)
WatchReturn(next, acc, e) ==
  /\ Same(next, acc) /\ next.stop = Unknown /\ next.gaps = Append(acc.gaps, e.ts - acc.stop)
  /\ next.unclean = acc.unclean
WatchRestart(next, acc, file, e) ==
  /\ next.armed = acc.armed /\ next.stop = Unknown /\ next.since = Unknown
  /\ next.covered = acc.covered + Spell(acc, acc.seen) /\ next.gaps = acc.gaps
  /\ next.unclean = acc.unclean + (IF PrecededByCleanStop(file, e) = "no" THEN 1 ELSE 0)
WatchOther(next, acc) == Same(next, acc) /\ next.stop = acc.stop /\ Calm(next, acc)
\* What one entry changes, by its kind.
LEMMA WatchSays ==
  ASSUME NEW file, NEW acc \in Watch, NEW e \in Records, NEW next, next = ContinuityStep(file, acc, e)
  PROVE  /\ next.seen = e.ts
         /\ e.ev = "SEAL_CREATED" => WatchSeal(next, acc, e)
         /\ e.ev = "GUARDIAN_STOPPED" => WatchStop(next, acc, e)
         /\ e.ev = "GUARDIAN_STARTED" /\ ~acc.armed => WatchOther(next, acc)
         /\ e.ev = "GUARDIAN_STARTED" /\ acc.armed /\ acc.stop # Unknown => WatchReturn(next, acc, e)
         /\ e.ev = "GUARDIAN_STARTED" /\ acc.armed /\ acc.stop = Unknown => WatchRestart(next, acc, file, e)
         /\ e.ev \notin {"SEAL_CREATED"} \cup Turns => WatchOther(next, acc)
<1>1. CASE e.ev = "SEAL_CREATED"
  <2>1. next = [acc EXCEPT !.since = e.ts, !.armed = TRUE, !.seen = e.ts]
    BY <1>1 DEF ContinuityStep
  <2> QED BY <1>1, <2>1 DEF Watch, WatchSeal, Calm, Turns
<1>2. CASE e.ev = "GUARDIAN_STOPPED"
  <2>1. next = [acc EXCEPT !.stop = e.ts, !.since = Unknown, !.seen = e.ts, !.covered = acc.covered + Spell(acc, e.ts)]
    BY <1>2 DEF ContinuityStep, Spell
  <2> QED BY <1>2, <2>1 DEF Watch, WatchStop, Calm, Turns
<1>3. CASE e.ev = "GUARDIAN_STARTED" /\ ~acc.armed
  <2>1. PICK c : c = acc.indeterminate + (IF /\ ~AnySealBefore(file, e) /\ PrecededByCleanStop(file, e) = "unknown"
                                             /\ ~e.fresh THEN 1 ELSE 0)
    OBVIOUS
  <2>2. next = [acc EXCEPT !.indeterminate = c, !.seen = e.ts]
    BY <1>3, <2>1 DEF ContinuityStep, Start
  <2> QED BY <1>3, <2>2 DEF Watch, WatchOther, Same, Calm, Turns
<1>4. CASE e.ev = "GUARDIAN_STARTED" /\ acc.armed /\ acc.stop # Unknown
  <2>1. PICK r : r = acc.restarts + 1
    OBVIOUS
  <2>2. PICK x : x = Append(acc.gaps, e.ts - acc.stop)
    OBVIOUS
  <2>3. next = [[acc EXCEPT !.restarts = r, !.seen = e.ts] EXCEPT !.gaps = x, !.stop = Unknown]
    BY <1>4, <2>1, <2>2 DEF ContinuityStep, Start, Watch
  <2> QED BY <1>4, <2>2, <2>3 DEF Watch, WatchReturn, Same, Turns
<1>5. CASE e.ev = "GUARDIAN_STARTED" /\ acc.armed /\ acc.stop = Unknown
  <2>1. PICK r, i : r = acc.restarts + 1 /\ i = acc.indeterminate + (IF PrecededByCleanStop(file, e) = "unknown" THEN 1 ELSE 0)
    OBVIOUS
  <2>2. PICK x : x = acc.unclean + (IF PrecededByCleanStop(file, e) = "no" THEN 1 ELSE 0)
    OBVIOUS
  <2>3. next = [acc EXCEPT !.restarts = r, !.seen = e.ts, !.indeterminate = i,
                           !.unclean = x, !.covered = acc.covered + Spell(acc, acc.seen), !.since = Unknown]
    BY <1>5, <2>1, <2>2 DEF ContinuityStep, Start, Watch, Spell
  <2> QED BY <1>5, <2>2, <2>3 DEF Watch, WatchRestart, Turns
<1>6. CASE e.ev \notin {"SEAL_CREATED"} \cup Turns
  <2>1. next = [acc EXCEPT !.seen = e.ts]
    BY <1>6 DEF ContinuityStep, Turns
  <2> QED BY <1>6, <2>1 DEF Watch, WatchOther, Same, Calm, Turns
<1> QED BY <1>1, <1>2, <1>3, <1>4, <1>5, <1>6 DEF Turns

\* In the whole ledger a start is judged by the entry before it.
LEMMA PrecededIs ==
  ASSUME Guarded, NEW n \in 1..Len(book), n > 1
  PROVE  PrecededByCleanStop(book, book[n]) = IF book[n - 1].ev = "GUARDIAN_STOPPED" THEN "yes" ELSE "no"
<1>1. Len(book) \in Nat /\ ToSet(book) = {book[i] : i \in 1..Len(book)} /\ \A k \in 1..Len(book) : book[k].seq = k
  BY BookSays
<1>2. n - 1 \in 1..Len(book) /\ book[n].seq = n /\ book[n - 1].seq = n - 1
  BY <1>1
<1>3. PICK earlier : earlier = {e \in ToSet(book) : e.seq < book[n].seq}
  OBVIOUS
<1>4. PICK last : last = CHOOSE e \in earlier : \A d \in earlier : d.seq <= e.seq
  OBVIOUS
<1>5. \A e : e \in earlier <=> \E k \in 1..Len(book) : e = book[k] /\ k < n
  BY <1>1, <1>2, <1>3
<1>6. book[n - 1] \in earlier
  BY <1>2, <1>5
<1>7. \A d \in earlier : d.seq <= book[n - 1].seq
  <2> SUFFICES ASSUME NEW d \in earlier PROVE d.seq <= n - 1
    BY <1>2
  <2>1. PICK k \in 1..Len(book) : d = book[k] /\ k < n
    BY <1>5
  <2> QED BY <1>1, <2>1
<1>8. last \in earlier /\ \A d \in earlier : d.seq <= last.seq
  BY <1>4, <1>6, <1>7
<1>9. PICK j \in 1..Len(book) : last = book[j] /\ j < n
  BY <1>5, <1>8
<1>10. n - 1 <= j
  BY <1>1, <1>2, <1>6, <1>8, <1>9
<1>11. last = book[n - 1]
  <2>1. j = n - 1
    BY <1>1, <1>9, <1>10
  <2> QED BY <1>9, <2>1
<1> QED BY <1>3, <1>4, <1>6, <1>11 DEF PrecededByCleanStop

\* A seal is among the entries from u to j.
Sealing(u, j) == \E k \in u..j : book[k].ev = "SEAL_CREATED"
\* What the loop knows when it has read the entries from u to j; g sums up the gaps.
Tracked(acc, g, u, j) ==
  /\ acc \in Watch
  /\ acc.armed <=> Sealing(u, j)
  /\ acc.stop = IF j >= u /\ book[j].ev = "GUARDIAN_STOPPED" THEN book[j].ts ELSE Unknown
  /\ acc.unclean = 0 => SumOf(acc.gaps) = g[u..j]
\* The time without a guardian before an entry.
GapAt(u, i) ==
  IF book[i].ev = "GUARDIAN_STARTED" /\ Sealing(u, i - 1) THEN book[i].ts - book[i - 1].ts ELSE 0
\* Every shutdown of the range is under a seal of the range.
NotStale(u, v) == \A i \in u..v : book[i].ev = "GUARDIAN_STOPPED" => Sealing(u, i - 1)
\* A range of a ledger whose clock was never set back, and the sum of its gaps.
Run(u, v, f, g) ==
  /\ Guarded /\ Timed /\ skew = 0 /\ u \in 1..Len(book) /\ v \in u..Len(book) /\ NotStale(u, v)
  /\ f = [i \in u..v |-> GapAt(u, i)] /\ IsSum(g, f, u..v)

\* What is known of such a range.
LEMMA RunSays ==
  ASSUME NEW u, NEW v, NEW f, NEW g, Run(u, v, f, g)
  PROVE  /\ Len(book) \in Nat /\ u \in Nat /\ v \in Nat /\ u >= 1 /\ v >= u /\ v <= Len(book)
         /\ \A i \in 1..Len(book) : book[i] \in Records /\ book[i].ts \in Nat /\ book[i].ts # Unknown
         /\ \A i, j \in 1..Len(book) : i < j => book[i].ts <= book[j].ts
         /\ \A i \in 1..(Len(book) - 1) : book[i].ev = "GUARDIAN_STOPPED" => book[i + 1].ev = "GUARDIAN_STARTED"
         /\ \A i \in u..v : f[i] = GapAt(u, i)
<1>1. Guarded /\ Timed /\ skew = 0 /\ u \in 1..Len(book) /\ v \in u..Len(book) /\ f = [i \in u..v |-> GapAt(u, i)]
  BY DEF Run
<1>2. Len(book) \in Nat /\ \A i \in 1..Len(book) : book[i] \in Records
  BY <1>1, BookSays
<1>3. Clocked(book, now) /\ StopsTold(book)
  BY <1>1 DEF Timed
<1>4. \A i \in 1..Len(book) : book[i].ts \in Nat /\ book[i].ts # Unknown
  BY <1>3 DEF Clocked, Unknown
<1>5. u \in Nat /\ v \in Nat /\ u >= 1 /\ v >= u /\ v <= Len(book)
  BY <1>1, <1>2
<1>6. \A i, j \in 1..Len(book) : i < j => book[i].ts <= book[j].ts
  BY <1>3 DEF Clocked
<1>7. \A i \in 1..(Len(book) - 1) : book[i].ev = "GUARDIAN_STOPPED" => book[i + 1].ev = "GUARDIAN_STARTED"
  BY <1>3 DEF StopsTold
<1>8. \A i \in u..v : f[i] = GapAt(u, i)
  BY <1>1
<1> QED BY <1>2, <1>4, <1>5, <1>6, <1>7, <1>8

\* A seal is among one more entry when it was, or is that entry.
LEMMA SealingOn ==
  ASSUME NEW u \in Nat, NEW j \in Nat, u <= j + 1
  PROVE  Sealing(u, j + 1) <=> Sealing(u, j) \/ book[j + 1].ev = "SEAL_CREATED"
<1>1. \A k : k \in u..(j + 1) <=> k \in u..j \/ k = j + 1
  OBVIOUS
<1> QED BY <1>1 DEF Sealing

\* One more entry.
LEMMA TrackedStep ==
  ASSUME NEW u, NEW v, NEW f, NEW g, Run(u, v, f, g), NEW j \in Nat, u <= j + 1, j + 1 <= v,
         NEW acc, Tracked(acc, g, u, j), NEW next, next = ContinuityStep(book, acc, book[j + 1])
  PROVE  Tracked(next, g, u, j + 1)
<1>1. /\ Len(book) \in Nat /\ u \in Nat /\ v \in Nat /\ u >= 1 /\ v >= u /\ v <= Len(book) /\ Guarded
      /\ \A k \in 1..Len(book) : book[k] \in Records /\ book[k].ts \in Nat /\ book[k].ts # Unknown
      /\ \A k \in 1..(Len(book) - 1) : book[k].ev = "GUARDIAN_STOPPED" => book[k + 1].ev = "GUARDIAN_STARTED"
      /\ \A k \in u..v : f[k] = GapAt(u, k)
      /\ NotStale(u, v) /\ IsSum(g, f, u..v)
  BY RunSays DEF Run
<1>2. PICK i \in Nat : i = j + 1
  OBVIOUS
<1>3. i \in u..v /\ i \in 1..Len(book) /\ i - 1 = j /\ i >= u
  BY <1>1, <1>2
<1>4. PICK e \in Records : e = book[i] /\ e.ts \in Nat /\ e.ts # Unknown /\ next = ContinuityStep(book, acc, e)
  BY <1>1, <1>2, <1>3
<1>5. acc \in Watch /\ (acc.armed <=> Sealing(u, j)) /\ (acc.unclean = 0 => SumOf(acc.gaps) = g[u..j])
  BY DEF Tracked
<1>6. next \in Watch /\ next.armed = (acc.armed \/ e.ev = "SEAL_CREATED")
  BY <1>4, <1>5, WatchStep
<1>7. next.armed <=> Sealing(u, i)
  BY <1>1, <1>2, <1>4, <1>5, <1>6, SealingOn
<1>8. j >= u /\ book[j].ev = "GUARDIAN_STOPPED" => e.ev = "GUARDIAN_STARTED" /\ acc.armed
  <2> SUFFICES ASSUME j >= u, book[j].ev = "GUARDIAN_STOPPED" PROVE e.ev = "GUARDIAN_STARTED" /\ acc.armed
    OBVIOUS
  <2>1. j \in 1..(Len(book) - 1) /\ j \in u..v
    BY <1>1, <1>2, <1>3
  <2>2. e.ev = "GUARDIAN_STARTED"
    BY <1>1, <1>2, <1>4, <2>1
  <2>3. Sealing(u, j - 1)
    BY <1>1, <2>1 DEF NotStale
  <2>4. Sealing(u, j)
    <3>1. \A k : k \in u..(j - 1) => k \in u..j
      BY <1>1
    <3> QED BY <2>3, <3>1 DEF Sealing
  <2> QED BY <1>5, <2>2, <2>4
<1>9. g[u..i] = f[i] + g[u..j] /\ f[i] = GapAt(u, i) /\ f[i] \in Int /\ g[u..j] \in Int
  <2>1. PICK S, R, T : S = u..i /\ R = u..j /\ T = u..v
    OBVIOUS
  <2>2. S \subseteq T /\ R \subseteq T /\ i \in S /\ R = S \ {i}
    BY <1>1, <1>2, <1>3, <2>1
  <2>3. IsSum(g, f, T)
    BY <1>1, <2>1
  <2>4. g[S] = f[i] + g[S \ {i}]
    <3>1. PICK z : z = i
      OBVIOUS
    <3>2. S \subseteq T /\ z \in S
      BY <2>2, <3>1
    <3>3. g[S] = f[z] + g[S \ {z}]
      BY <2>3, <3>2, SumTakes
    <3> QED BY <3>1, <3>3
  <2>5. g[R] \in Int
    BY <2>2, <2>3, SumType
  <2>6. f[i] \in Int
    BY <2>2, <2>3, SumFacts
  <2> QED BY <1>1, <1>3, <2>1, <2>2, <2>4, <2>5, <2>6
<1>10. Unknown \in Int /\ acc.stop \in Int /\ acc.unclean \in Nat /\ acc.gaps \in Seq(Int)
  BY <1>5 DEF Unknown, Watch
<1>11. CASE e.ev = "GUARDIAN_STOPPED"
  <2>1. next.stop = e.ts /\ next.unclean = acc.unclean /\ next.gaps = acc.gaps
    BY <1>4, <1>5, <1>11, WatchSays DEF WatchStop, Calm
  <2>2. f[i] = 0
    BY <1>4, <1>9, <1>11 DEF GapAt
  <2> QED BY <1>2, <1>3, <1>4, <1>5, <1>6, <1>7, <1>9, <1>11, <2>1, <2>2 DEF Tracked
<1>12. ASSUME next.stop = acc.stop, next.unclean = acc.unclean, next.gaps = acc.gaps,
              e.ev \notin Turns \/ (e.ev = "GUARDIAN_STARTED" /\ ~acc.armed)
       PROVE  Tracked(next, g, u, j + 1)
  <2>1. f[i] = 0
    BY <1>3, <1>4, <1>5, <1>9, <1>12 DEF GapAt, Turns
  <2>2. acc.stop = Unknown
    BY <1>8, <1>12 DEF Tracked, Turns
  <2>3. e.ev # "GUARDIAN_STOPPED"
    BY <1>12 DEF Turns
  <2>4. g[u..i] = g[u..j]
    BY <1>9, <2>1
  <2> QED BY <1>2, <1>4, <1>5, <1>6, <1>7, <1>12, <2>2, <2>3, <2>4 DEF Tracked
<1>13. CASE e.ev \notin Turns \/ (e.ev = "GUARDIAN_STARTED" /\ ~acc.armed)
  <2>1. next.stop = acc.stop /\ next.unclean = acc.unclean /\ next.gaps = acc.gaps
    BY <1>4, <1>5, <1>13, WatchSays DEF WatchSeal, WatchOther, Calm, Turns
  <2> QED BY <1>12, <1>13, <2>1
<1>14. CASE e.ev = "GUARDIAN_STARTED" /\ acc.armed /\ acc.stop # Unknown
  <2>1. next.stop = Unknown /\ next.unclean = acc.unclean /\ next.gaps = Append(acc.gaps, e.ts - acc.stop)
    <3>1. WatchReturn(next, acc, e)
      BY <1>4, <1>5, <1>14, WatchSays
    <3> QED BY <3>1 DEF WatchReturn
  <2>2. j >= u /\ book[j].ev = "GUARDIAN_STOPPED" /\ acc.stop = book[j].ts
    BY <1>14 DEF Tracked
  <2>3. f[i] = e.ts - acc.stop
    BY <1>3, <1>4, <1>5, <1>9, <1>14, <2>2 DEF GapAt
  <2>4. SumOf(next.gaps) = SumOf(acc.gaps) + (e.ts - acc.stop) /\ e.ts - acc.stop \in Int
    <3>1. PICK x \in Int : x = e.ts - acc.stop
      BY <1>4, <1>10
    <3>2. SumOf(Append(acc.gaps, x)) = SumOf(acc.gaps) + x
      BY <1>10, SumAppended
    <3> QED BY <2>1, <3>1, <3>2
  <2>5. next.unclean = 0 => SumOf(next.gaps) = g[u..i]
    BY <1>5, <1>9, <2>1, <2>3, <2>4
  <2> QED BY <1>2, <1>4, <1>6, <1>7, <1>14, <2>1, <2>5 DEF Tracked
<1>15. CASE e.ev = "GUARDIAN_STARTED" /\ acc.armed /\ acc.stop = Unknown
  <2>1. next.stop = Unknown /\ next.unclean = acc.unclean + (IF PrecededByCleanStop(book, e) = "no" THEN 1 ELSE 0)
    BY <1>4, <1>5, <1>15, WatchSays DEF WatchRestart
  <2>2. j >= u
    BY <1>1, <1>5, <1>15 DEF Sealing
  <2>3. book[j].ev # "GUARDIAN_STOPPED"
    <3>1. j \in 1..Len(book)
      BY <1>1, <1>2, <1>3, <2>2
    <3> QED BY <1>1, <1>15, <2>2, <3>1 DEF Tracked
  <2>4. PrecededByCleanStop(book, e) = "no"
    <3>1. i > 1
      BY <1>1, <1>2, <2>2
    <3> QED BY <1>1, <1>3, <1>4, <2>3, <3>1, PrecededIs
  <2>5. next.unclean # 0
    BY <1>10, <2>1, <2>4
  <2> QED BY <1>2, <1>4, <1>6, <1>7, <1>15, <2>1, <2>5 DEF Tracked
<1> QED BY <1>11, <1>13, <1>14, <1>15 DEF Turns

\* The only seal of a range.
OnlySeal(u, v, q) ==
  /\ q \in u..v /\ book[q].ev = "SEAL_CREATED" /\ \A k \in u..v : book[k].ev = "SEAL_CREATED" => k = q
\* The first shutdown or start after it.
Turned(acc, q, i) ==
  /\ Quiet(book, q + 1, i - 1)
  /\ \/ book[i].ev = "GUARDIAN_STOPPED" /\ acc.covered = book[i].ts - book[q].ts
     \/ book[i].ev = "GUARDIAN_STARTED" /\ acc.covered = book[i - 1].ts - book[q].ts /\ acc.unclean > 0
\* How long the loop knows the seal to have been watched, when it has read the entries from u to j.
Timing1(acc, q, j) ==
  /\ j < q => acc.since = Unknown /\ acc.covered = 0
  /\ j >= q => \/ Quiet(book, q + 1, j) /\ acc.since = book[q].ts /\ acc.covered = 0
               \/ acc.since = Unknown /\ \E i \in (q + 1)..j : Turned(acc, q, i)
Covering(acc, u, q, j) == (j >= u => acc.seen = book[j].ts) /\ Timing1(acc, q, j)

\* It stays quiet when the next entry neither stops nor starts the guardian.
LEMMA QuietOn ==
  ASSUME NEW q \in Nat, NEW j \in Nat, q <= j
  PROVE  Quiet(book, q + 1, j + 1) <=> Quiet(book, q + 1, j) /\ book[j + 1].ev \notin Turns
<1>1. \A k : k \in (q + 1)..(j + 1) <=> k \in (q + 1)..j \/ k = j + 1
  OBVIOUS
<1> QED BY <1>1 DEF Quiet

\* One more entry keeps what is known of how long the seal was watched.
LEMMA CoveringStep ==
  ASSUME NEW u, NEW v, NEW f, NEW g, Run(u, v, f, g), NEW j \in Nat, u <= j + 1, j + 1 <= v,
         NEW q, OnlySeal(u, v, q),
         NEW acc, Tracked(acc, g, u, j), Covering(acc, u, q, j),
         NEW next, next = ContinuityStep(book, acc, book[j + 1])
  PROVE  Covering(next, u, q, j + 1)
<1>1. /\ Len(book) \in Nat /\ u \in Nat /\ v \in Nat /\ u >= 1 /\ v >= u /\ v <= Len(book) /\ Guarded
      /\ \A k \in 1..Len(book) : book[k] \in Records /\ book[k].ts \in Nat /\ book[k].ts # Unknown
  BY RunSays DEF Run
<1>2. PICK i \in Nat : i = j + 1
  OBVIOUS
<1>3. i \in u..v /\ i \in 1..Len(book) /\ i - 1 = j /\ i >= u /\ q \in Nat /\ q \in 1..Len(book) /\ q >= u /\ q <= v
  <2>1. q \in u..v
    BY DEF OnlySeal
  <2>2. i \in u..v /\ i \in 1..Len(book) /\ i - 1 = j /\ i >= u
    BY <1>1, <1>2
  <2>3. q \in Nat /\ q \in 1..Len(book) /\ q >= u /\ q <= v
    BY <1>1, <2>1
  <2> QED BY <2>2, <2>3
<1>4. PICK e \in Records : e = book[i] /\ e.ts \in Nat /\ e.ts # Unknown /\ next = ContinuityStep(book, acc, e)
  BY <1>1, <1>2, <1>3
<1>5. acc \in Watch /\ (acc.armed <=> Sealing(u, j))
  BY DEF Tracked
<1>6. next.seen = e.ts
  BY <1>4, <1>5, WatchSays
<1>7. acc.covered \in Int /\ acc.since \in Int /\ acc.seen \in Int /\ acc.unclean \in Nat /\ Unknown \in Int
  BY <1>5 DEF Watch, Unknown
<1>8. book[q].ts \in Nat /\ book[q].ts # Unknown /\ book[q].ev = "SEAL_CREATED"
  BY <1>1, <1>3 DEF OnlySeal
<1>9. acc.armed <=> q <= j
  <2>1. q <= j => q \in u..j
    BY <1>3
  <2>2. \A k \in u..j : k \in u..v /\ k <= j
    BY <1>1, <1>2, <1>3
  <2> QED BY <1>5, <1>8, <2>1, <2>2 DEF Sealing, OnlySeal
<1>10. SUFFICES Timing1(next, q, i)
  BY <1>2, <1>4, <1>6 DEF Covering
<1>11. Timing1(acc, q, j)
  BY DEF Covering
<1>12. CASE e.ev = "SEAL_CREATED"
  <2>1. i = q
    BY <1>3, <1>4, <1>12 DEF OnlySeal
  <2>2. acc.covered = 0
    BY <1>2, <1>3, <1>11, <2>1 DEF Timing1
  <2>3. WatchSeal(next, acc, e)
    BY <1>4, <1>5, <1>12, WatchSays
  <2>4. next.since = book[q].ts /\ next.covered = 0
    BY <1>4, <2>1, <2>2, <2>3 DEF WatchSeal
  <2>5. Quiet(book, q + 1, i)
    BY <1>3, <2>1 DEF Quiet
  <2> QED BY <1>3, <2>1, <2>4, <2>5 DEF Timing1
<1>13. CASE e.ev # "SEAL_CREATED" /\ i < q
  <2>1. j < q /\ ~acc.armed
    BY <1>2, <1>3, <1>9, <1>13
  <2>2. acc.since = Unknown /\ acc.covered = 0
    BY <1>11, <2>1 DEF Timing1
  <2>3. next.since = Unknown /\ next.covered = 0
    <3>1. CASE e.ev = "GUARDIAN_STOPPED"
      <4>1. WatchStop(next, acc, e)
        BY <1>4, <1>5, <3>1, WatchSays
      <4> QED BY <2>2, <4>1 DEF WatchStop, Spell
    <3>2. CASE e.ev # "GUARDIAN_STOPPED"
      <4>1. WatchOther(next, acc)
        BY <1>4, <1>5, <1>13, <2>1, <3>2, WatchSays DEF Turns
      <4> QED BY <2>2, <4>1 DEF WatchOther, Same
    <3> QED BY <3>1, <3>2
  <2> QED BY <1>13, <1>3, <2>3 DEF Timing1
<1>14. ASSUME e.ev # "SEAL_CREATED", i >= q PROVE Timing1(next, q, i)
  <2>1. q <= j /\ acc.armed /\ j \in 1..Len(book) /\ j >= u
    <3>1. i # q
      BY <1>4, <1>8, <1>14
    <3>2. q <= j
      BY <1>2, <1>3, <1>14, <3>1
    <3> QED BY <1>1, <1>2, <1>3, <1>9, <3>2
  <2>2. Quiet(book, q + 1, i) <=> Quiet(book, q + 1, j) /\ e.ev \notin Turns
    BY <1>2, <1>3, <1>4, <2>1, QuietOn
  <2>3. next.unclean >= acc.unclean
    <3>1. next.unclean = acc.unclean \/ next.unclean = acc.unclean + 1
      BY <1>4, <1>5, WatchStep
    <3> QED BY <1>7, <3>1
  <2>4. next.unclean \in Nat
    <3>1. next \in Watch
      BY <1>4, <1>5, WatchStep
    <3> QED BY <3>1 DEF Watch
  <2>5. CASE Quiet(book, q + 1, j) /\ acc.since = book[q].ts /\ acc.covered = 0
    <3>1. acc.stop = Unknown /\ book[j].ev # "GUARDIAN_STOPPED"
      <4>1. j = q \/ j \in (q + 1)..j
        BY <1>3, <2>1
      <4>2. book[j].ev # "GUARDIAN_STOPPED"
        BY <1>8, <2>5, <4>1 DEF Quiet, Turns
      <4> QED BY <4>2 DEF Tracked
    <3>2. CASE e.ev \notin Turns
      <4>1. WatchOther(next, acc)
        BY <1>4, <1>5, <1>14, <3>2, WatchSays
      <4>2. next.since = book[q].ts /\ next.covered = 0
        BY <2>5, <4>1 DEF WatchOther, Same
      <4> QED BY <1>3, <1>14, <2>2, <2>5, <3>2, <4>2 DEF Timing1
    <3>3. CASE e.ev = "GUARDIAN_STOPPED"
      <4>1. WatchStop(next, acc, e)
        BY <1>4, <1>5, <3>3, WatchSays
      <4>2. next.since = Unknown /\ next.covered = e.ts - book[q].ts
        BY <1>4, <1>7, <1>8, <2>5, <4>1 DEF WatchStop, Spell
      <4>3. Turned(next, q, i) /\ i \in (q + 1)..i
        BY <1>2, <1>3, <1>4, <2>1, <2>5, <3>3, <4>2 DEF Turned
      <4> QED BY <1>3, <1>14, <4>2, <4>3 DEF Timing1
    <3>4. CASE e.ev = "GUARDIAN_STARTED"
      <4>1. WatchRestart(next, acc, book, e)
        BY <1>4, <1>5, <2>1, <3>1, <3>4, WatchSays
      <4>2. PrecededByCleanStop(book, e) = "no"
        <5>1. i > 1
          BY <1>1, <1>2, <2>1
        <5> QED BY <1>1, <1>3, <1>4, <3>1, <5>1, PrecededIs
      <4>3. acc.seen = book[j].ts
        BY <2>1 DEF Covering
      <4>4. next.since = Unknown /\ next.covered = book[j].ts - book[q].ts /\ next.unclean > 0
        <5>1. book[j].ts \in Nat
          BY <1>1, <2>1
        <5> QED BY <1>7, <1>8, <2>5, <4>1, <4>2, <4>3, <5>1 DEF WatchRestart, Spell
      <4>5. Turned(next, q, i) /\ i \in (q + 1)..i
        BY <1>2, <1>3, <1>4, <2>1, <2>5, <3>4, <4>4 DEF Turned
      <4> QED BY <1>3, <1>14, <4>4, <4>5 DEF Timing1
    <3> QED BY <3>2, <3>3, <3>4 DEF Turns
  <2>6. CASE acc.since = Unknown /\ \E k \in (q + 1)..j : Turned(acc, q, k)
    <3>1. PICK k \in (q + 1)..j : Turned(acc, q, k)
      BY <2>6
    <3>2. next.since = Unknown /\ next.covered = acc.covered
      <4>1. CASE e.ev \notin Turns \/ (e.ev = "GUARDIAN_STARTED" /\ acc.stop # Unknown)
        <5>1. Same(next, acc)
          BY <1>4, <1>5, <1>14, <2>1, <4>1, WatchSays DEF WatchOther, WatchReturn, Turns
        <5> QED BY <2>6, <5>1 DEF Same
      <4>2. CASE e.ev = "GUARDIAN_STOPPED"
        <5>1. WatchStop(next, acc, e)
          BY <1>4, <1>5, <4>2, WatchSays
        <5> QED BY <1>7, <2>6, <5>1 DEF WatchStop, Spell
      <4>3. CASE e.ev = "GUARDIAN_STARTED" /\ acc.stop = Unknown
        <5>1. WatchRestart(next, acc, book, e)
          BY <1>4, <1>5, <2>1, <4>3, WatchSays
        <5> QED BY <1>7, <2>6, <5>1 DEF WatchRestart, Spell
      <4> QED BY <4>1, <4>2, <4>3 DEF Turns
    <3>3. Turned(next, q, k)
      <4>1. acc.unclean > 0 => next.unclean > 0
        BY <1>7, <2>3, <2>4
      <4> QED BY <3>1, <3>2, <4>1 DEF Turned
    <3>4. k \in (q + 1)..i
      BY <1>2, <1>3
    <3> QED BY <1>3, <1>14, <3>2, <3>3, <3>4 DEF Timing1
  <2> QED BY <1>11, <2>1, <2>5, <2>6 DEF Timing1
<1>15. i < q \/ i >= q
  BY <1>3
<1> QED BY <1>12, <1>13, <1>14, <1>15

-----------------------------------------------------------------------------
(* What the loop ends with *)

\* The loop over a range.
Loop(after, u, v, n, rows) ==
  /\ n = v - u + 1 /\ rows = [k \in 1..n |-> book[u + k - 1]] /\ Watches(after, book, rows, n)
\* At the end of the range the loop knows its gaps, and how long its only seal was watched.
LEMMA LoopEnds ==
  ASSUME NEW u, NEW v, NEW f, NEW g, Run(u, v, f, g), NEW L, NEW rows, NEW after, Loop(after, u, v, L, rows)
  PROVE  Tracked(after[L], g, u, v) /\ \A q : OnlySeal(u, v, q) => Covering(after[L], u, q, v)
<1>1. Len(book) \in Nat /\ u \in Nat /\ v \in Nat /\ u >= 1 /\ v >= u /\ v <= Len(book)
  BY RunSays
<1>2. L \in Nat /\ L = v - u + 1
  BY <1>1 DEF Loop
<1>3. /\ after[0] = NothingSeen
      /\ \A k \in 0..(L - 1) : after[k + 1] = ContinuityStep(book, after[k], rows[k + 1])
  <2>1. PICK b : b = book
    OBVIOUS
  <2>2. Watches(after, b, rows, L) /\ L \in Nat
    BY <1>2, <2>1 DEF Loop
  <2>3. /\ after[0] = NothingSeen
        /\ \A k \in 0..(L - 1) : after[k + 1] = ContinuityStep(b, after[k], rows[k + 1])
    BY <2>2, WatchRuns
  <2> QED BY <2>1, <2>3
<1>4. \A k \in 1..L : rows[k] = book[u + k - 1]
  BY DEF Loop
<1> DEFINE All(acc, j) == Tracked(acc, g, u, j) /\ \A q : OnlySeal(u, v, q) => Covering(acc, u, q, j)
           P == {n \in Nat : n <= L => All(after[n], u + n - 1)}
<1>5. 0 \in P
  <2>1. NothingSeen \in Watch
    BY DEF NothingSeen, Watch, Unknown
  <2>2. PICK j \in Nat : j = u - 1 /\ j = u + 0 - 1 /\ j < u
    BY <1>1
  <2>3. u..j = {}
    BY <1>1, <2>2
  <2>4. g[u..j] = 0
    <3>1. IsSum(g, f, u..v)
      BY DEF Run
    <3> QED BY <2>3, <3>1, SumFacts
  <2>5. NothingSeen.armed = FALSE /\ NothingSeen.stop = Unknown /\ NothingSeen.gaps = <<>> /\ NothingSeen.since = Unknown
        /\ NothingSeen.covered = 0
    BY DEF NothingSeen
  <2>6. SumOf(<<>>) = 0
    <3>1. <<>> \in Seq(Int) /\ 0 \in Int
      OBVIOUS
    <3> QED BY <3>1, SumAppended
  <2>7. ~Sealing(u, j) /\ ~(j >= u)
    BY <1>1, <2>2, <2>3 DEF Sealing
  <2>8. Tracked(NothingSeen, g, u, j)
    BY <2>1, <2>4, <2>5, <2>6, <2>7 DEF Tracked
  <2>9. ASSUME NEW q, OnlySeal(u, v, q) PROVE Covering(NothingSeen, u, q, j)
    <3>1. j < q
      BY <1>1, <2>2, <2>9 DEF OnlySeal
    <3>2. ~(j >= q)
      BY <1>1, <2>9, <3>1 DEF OnlySeal
    <3> QED BY <2>5, <2>7, <3>1, <3>2 DEF Covering, Timing1
  <2> QED BY <1>3, <2>2, <2>8, <2>9
<1>6. ASSUME NEW n \in Nat, n \in P PROVE n + 1 \in P
  <2> SUFFICES ASSUME n + 1 <= L PROVE All(after[n + 1], u + (n + 1) - 1)
    OBVIOUS
  <2>1. All(after[n], u + n - 1)
    BY <1>2, <1>6
  <2>2. PICK j \in Nat : j = u + n - 1 /\ u <= j + 1 /\ j + 1 <= v /\ j + 1 = u + (n + 1) - 1
    BY <1>1, <1>2
  <2>3. n \in 0..(L - 1) /\ n + 1 \in 1..L
    BY <1>2
  <2>4. after[n + 1] = ContinuityStep(book, after[n], book[j + 1])
    BY <1>3, <1>4, <2>2, <2>3
  <2>5. PICK acc, next : acc = after[n] /\ next = after[n + 1]
    OBVIOUS
  <2>6. Tracked(acc, g, u, j) /\ \A q : OnlySeal(u, v, q) => Covering(acc, u, q, j)
    BY <2>1, <2>2, <2>5
  <2>7. next = ContinuityStep(book, acc, book[j + 1])
    BY <2>4, <2>5
  <2>8. Tracked(next, g, u, j + 1)
    BY <2>2, <2>6, <2>7, TrackedStep
  <2>9. ASSUME NEW q, OnlySeal(u, v, q) PROVE Covering(next, u, q, j + 1)
    BY <2>2, <2>6, <2>7, <2>9, CoveringStep
  <2> QED BY <2>2, <2>5, <2>8, <2>9
<1>7. L \in P
  <2> HIDE DEF P
  <2>1. Nat \subseteq P
    BY <1>5, <1>6, NatSetInduction
  <2> QED BY <1>2, <2>1
<1>8. All(after[L], u + L - 1) /\ u + L - 1 = v
  BY <1>1, <1>2, <1>7
<1> QED BY <1>8

-----------------------------------------------------------------------------
(* What is published of it *)

At(rows, ev) == SelectInSeq(rows, LAMBDA e : e.ev = ev)
EndOf(rows) == rows[IF At(rows, "DAY_CLOSED") = 0 THEN Len(rows) ELSE At(rows, "DAY_CLOSED")].ts
WholeOf(rows) ==
  IF At(rows, "SEAL_CREATED") = 0 THEN 0 ELSE EndOf(rows) - rows[At(rows, "SEAL_CREATED")].ts
LoopOf(file, rows) ==
  CHOOSE f : f = [n \in 0..Len(rows) |-> IF n = 0 THEN NothingSeen
                                         ELSE ContinuityStep(file, f[n - 1], rows[n])]
LongestOf(gaps) == IF gaps = <<>> THEN 0 ELSE Max(ToSet(gaps))
Published(rows, acc) ==
  [supported |-> TRUE, restarts |-> acc.restarts, unclean |-> acc.unclean, indeterminate |-> acc.indeterminate,
   whole |-> WholeOf(rows), isBound |-> acc.unclean + acc.indeterminate > 0,
   coverage |-> Coverage(acc.covered + (IF acc.since = Unknown THEN 0 ELSE EndOf(rows) - acc.since),
                         WholeOf(rows), acc.unclean + acc.indeterminate > 0),
   unmonitored |-> IF acc.unclean > 0 THEN Unknown ELSE SumOf(acc.gaps),
   longestGap |-> IF acc.unclean > 0 THEN Unknown ELSE LongestOf(acc.gaps)]
\* It is what continuity publishes, by name.
LEMMA ContinuityIs ==
  ASSUME NEW file, NEW dialect, NEW from, NEW to
  PROVE  Continuity(file, dialect, from, to) =
           IF \/ dialect # "guardian-core-v1"
              \/ ~\E e \in ToSet(EventsInRange(file, from, to)) : e.ev \in Lifecycle
           THEN NoContinuity
           ELSE Published(EventsInRange(file, from, to),
                          LoopOf(file, EventsInRange(file, from, to))[Len(EventsInRange(file, from, to))])
BY Zenon DEF Continuity, Published, At, EndOf, WholeOf, SumOf, LongestOf, LoopOf

\* What is published, in terms of the end of the loop.
Figures(c, rows, acc) ==
  /\ c.isBound = (acc.unclean + acc.indeterminate > 0)
  /\ c.unmonitored = IF acc.unclean > 0 THEN Unknown ELSE SumOf(acc.gaps)
  /\ c.coverage = Coverage(acc.covered + (IF acc.since = Unknown THEN 0 ELSE EndOf(rows) - acc.since),
                           WholeOf(rows), acc.unclean + acc.indeterminate > 0)
\* There is a loop behind the figures.
LEMMA FiguresAre ==
  ASSUME NEW file, NEW dialect, NEW from, NEW to, NEW rows, rows = EventsInRange(file, from, to),
         NEW L \in Nat, L = Len(rows), NEW c, c = Continuity(file, dialect, from, to), c.supported
  PROVE  \E after : Watches(after, file, rows, L) /\ Figures(c, rows, after[L])
<1>1. PICK after : after = LoopOf(file, rows)
  OBVIOUS
<1>2. Watches(after, file, rows, L)
  <2>1. \E f : Watches(f, file, rows, Len(rows))
    BY WatchExists
  <2> QED BY <1>1, <2>1 DEF Watches, LoopOf
<1>3. ~NoContinuity.supported
  BY DEF NoContinuity
<1>4. c = Published(rows, after[L])
  BY <1>1, <1>3, ContinuityIs
<1>5. PICK acc : acc = after[L]
  OBVIOUS
<1>6. Figures(c, rows, acc)
  BY <1>4, <1>5 DEF Published, Figures
<1> QED BY <1>2, <1>5, <1>6

\* The first entry of a kind.
LEMMA AtIs ==
  ASSUME NEW rows, NEW L \in Nat, Len(rows) = L, NEW ev
  PROVE  \/ At(rows, ev) = 0 /\ \A i \in 1..L : rows[i].ev # ev
         \/ At(rows, ev) \in 1..L /\ rows[At(rows, ev)].ev = ev /\ \A i \in 1..L : rows[i].ev = ev => At(rows, ev) <= i
<1>1. PICK I : I = {i \in 1..L : rows[i].ev = ev}
  OBVIOUS
<1>2. At(rows, ev) = IF I # {} THEN Min(I) ELSE 0
  BY <1>1 DEF At, SelectInSeq
<1>3. I # {} => Min(I) \in I /\ \A y \in I : Min(I) <= y
  <2> SUFFICES ASSUME I # {} PROVE Min(I) \in I /\ \A y \in I : Min(I) <= y
    OBVIOUS
  <2>1. I \subseteq Nat
    BY <1>1
  <2>2. \E m \in I : \A x \in I : m <= x
    BY <2>1, FiniteMin
  <2> QED BY <2>2 DEF Min
<1> QED BY <1>1, <1>2, <1>3

-----------------------------------------------------------------------------
(* How long a seal was watched *)

\* The smaller of two numbers.
LEMMA MinOfTwo == ASSUME NEW x \in Int, NEW y \in Int PROVE Min({x, y}) = IF x <= y THEN x ELSE y
<1>1. \A z \in {x, y} : (\A w \in {x, y} : z <= w) <=> z = IF x <= y THEN x ELSE y
  OBVIOUS
<1>2. (IF x <= y THEN x ELSE y) \in {x, y}
  OBVIOUS
<1> QED BY <1>1, <1>2 DEF Min
\* The greater of two numbers.
LEMMA MaxOfTwo == ASSUME NEW x \in Int, NEW y \in Int PROVE Max({x, y}) = IF x >= y THEN x ELSE y
<1>1. \A z \in {x, y} : (\A w \in {x, y} : z >= w) <=> z = IF x >= y THEN x ELSE y
  OBVIOUS
<1>2. (IF x >= y THEN x ELSE y) \in {x, y}
  OBVIOUS
<1> QED BY <1>1, <1>2 DEF Max

\* What is published of a coverage is what was covered, within the whole.
LEMMA CoverageSays ==
  ASSUME NEW covered \in Int, NEW whole \in Int, NEW bound \in BOOLEAN, Coverage(covered, whole, bound) # Unknown
  PROVE  whole > 0 /\ Coverage(covered, whole, bound) =
                        (IF covered <= 0 THEN 0 ELSE IF whole <= covered THEN whole ELSE covered)
<1>1. PICK x \in Int : x = Min({whole, covered}) /\ x = IF whole <= covered THEN whole ELSE covered
  BY MinOfTwo
<1>2. PICK y \in Int : y = Max({0, x}) /\ y = IF 0 >= x THEN 0 ELSE x
  <2>1. 0 \in Int
    OBVIOUS
  <2> QED BY <2>1, MaxOfTwo
<1>3. PICK P : P = (whole <= 0 \/ (bound /\ 10 * y < 9 * whole))
  OBVIOUS
<1>4. Coverage(covered, whole, bound) = IF P THEN Unknown ELSE y
  <2>1. Coverage(covered, whole, bound) = IF whole <= 0 \/ (bound /\ 10 * y < 9 * whole) THEN Unknown ELSE y
    BY <1>1, <1>2, Zenon DEF Coverage
  <2> QED BY <1>3, <2>1, Zenon
<1>5. ~P /\ Coverage(covered, whole, bound) = y
  BY <1>4, Zenon
<1>6. whole > 0
  <2>1. ~(whole <= 0)
    BY <1>3, <1>5, Zenon
  <2> QED BY <2>1
<1>7. y = (IF covered <= 0 THEN 0 ELSE IF whole <= covered THEN whole ELSE covered)
  BY <1>1, <1>2, <1>6
<1> QED BY <1>5, <1>6, <1>7, Zenon

\* Until when the seal was watched, as the first shutdown or start after it tells.
LEMMA UntilWhen ==
  ASSUME NEW u, NEW v, NEW f, NEW g, Run(u, v, f, g), NEW q, OnlySeal(u, v, q),
         NEW s, NEW mode, Watching(book, s, mode), s.seq = q
  PROVE  /\ Quiet(book, q + 1, v) =>
              s.until = Unknown \/ (s.until \in Nat /\ \A i \in 1..v : book[i].ts <= s.until)
         /\ \A i \in (q + 1)..v : Quiet(book, q + 1, i - 1) =>
              /\ book[i].ev = "GUARDIAN_STOPPED" => s.until = book[i].ts
              /\ book[i].ev = "GUARDIAN_STARTED" => s.until \in Nat /\ book[i - 1].ts <= s.until
<1>1. /\ Len(book) \in Nat /\ u \in Nat /\ v \in Nat /\ u >= 1 /\ v >= u /\ v <= Len(book)
      /\ \A k \in 1..Len(book) : book[k].ts \in Nat
      /\ \A i, j \in 1..Len(book) : i < j => book[i].ts <= book[j].ts
  BY RunSays
<1>2. q \in Nat /\ q >= u /\ q <= v
  BY <1>1 DEF OnlySeal
<1>3. PICK L \in Nat : L = Len(book)
  BY <1>1
<1>4. PICK x : x = s.until
  OBVIOUS
<1>5. \/ x = Unknown /\ Quiet(book, q + 1, L)
      \/ x \in Nat /\ \E k \in q..L : Over(book, s, k, mode)
  BY <1>3, <1>4 DEF Watching
<1>6. ASSUME NEW i \in (q + 1)..L, book[i].ev \in Turns PROVE ~Quiet(book, q + 1, L)
  BY <1>6 DEF Quiet
<1>7. CASE x = Unknown /\ Quiet(book, q + 1, L)
  <2>1. ASSUME NEW i \in (q + 1)..v PROVE book[i].ev \notin Turns
    <3>1. i \in (q + 1)..L
      BY <1>1, <1>2, <1>3
    <3> QED BY <1>7, <3>1 DEF Quiet
  <2> QED BY <1>4, <1>7, <2>1 DEF Turns
<1>8. ASSUME NEW k \in q..L, x \in Nat, k > q, Quiet(book, q + 1, k - 1), book[k].ev = "GUARDIAN_STOPPED", x = book[k].ts
      PROVE  /\ Quiet(book, q + 1, v) =>
                  s.until = Unknown \/ (s.until \in Nat /\ \A i \in 1..v : book[i].ts <= s.until)
             /\ \A i \in (q + 1)..v : Quiet(book, q + 1, i - 1) =>
                  /\ book[i].ev = "GUARDIAN_STOPPED" => s.until = book[i].ts
                  /\ book[i].ev = "GUARDIAN_STARTED" => s.until \in Nat /\ book[i - 1].ts <= s.until
  <2>1. ASSUME Quiet(book, q + 1, v) PROVE \A i \in 1..v : book[i].ts <= x
    <3>1. k > v
      <4> SUFFICES ASSUME k <= v PROVE FALSE
        BY <1>1, <1>2, <1>3
      <4>1. k \in (q + 1)..v
        BY <1>1, <1>2, <1>3, <1>8
      <4> QED BY <1>8, <2>1, <4>1 DEF Quiet, Turns
    <3> TAKE i \in 1..v
    <3>2. i \in 1..Len(book) /\ k \in 1..Len(book) /\ i < k
      BY <1>1, <1>2, <1>3, <3>1
    <3> QED BY <1>1, <1>8, <3>2
  <2>2. ASSUME NEW i \in (q + 1)..v, Quiet(book, q + 1, i - 1), book[i].ev \in Turns PROVE i = k
    <3>1. ~(i < k)
      <4> SUFFICES ASSUME i < k PROVE FALSE
        OBVIOUS
      <4>1. i \in (q + 1)..(k - 1)
        BY <1>1, <1>2, <1>3
      <4> QED BY <1>8, <2>2, <4>1 DEF Quiet
    <3>2. ~(k < i)
      <4> SUFFICES ASSUME k < i PROVE FALSE
        OBVIOUS
      <4>1. k \in (q + 1)..(i - 1)
        BY <1>1, <1>2, <1>3, <1>8
      <4> QED BY <1>8, <2>2, <4>1 DEF Quiet, Turns
    <3> QED BY <1>1, <1>2, <1>3, <3>1, <3>2
  <2> QED BY <1>4, <1>8, <2>1, <2>2 DEF Turns
<1>9. ASSUME NEW k \in q..L, x \in Nat, Quiet(book, q + 1, k), book[k].ts <= x,
             k = L \/ book[k + 1].ev = "GUARDIAN_STARTED"
      PROVE  /\ Quiet(book, q + 1, v) =>
                  s.until = Unknown \/ (s.until \in Nat /\ \A i \in 1..v : book[i].ts <= s.until)
             /\ \A i \in (q + 1)..v : Quiet(book, q + 1, i - 1) =>
                  /\ book[i].ev = "GUARDIAN_STOPPED" => s.until = book[i].ts
                  /\ book[i].ev = "GUARDIAN_STARTED" => s.until \in Nat /\ book[i - 1].ts <= s.until
  <2>0. k \in 1..Len(book) /\ book[k].ts \in Nat
    BY <1>1, <1>2, <1>3
  <2>1. ASSUME Quiet(book, q + 1, v) PROVE \A i \in 1..v : book[i].ts <= x
    <3>1. k >= v
      <4> SUFFICES ASSUME k < v PROVE FALSE
        BY <1>1, <1>2, <1>3
      <4>1. k + 1 \in (q + 1)..v /\ k # L
        BY <1>1, <1>2, <1>3
      <4> QED BY <1>9, <2>1, <4>1 DEF Quiet, Turns
    <3> TAKE i \in 1..v
    <3>2. i \in 1..Len(book) /\ (i < k \/ i = k)
      BY <1>1, <1>2, <1>3, <3>1
    <3>3. book[i].ts \in Nat /\ book[i].ts <= book[k].ts
      BY <1>1, <2>0, <3>2
    <3> QED BY <1>9, <2>0, <3>3
  <2>2. ASSUME NEW i \in (q + 1)..v, Quiet(book, q + 1, i - 1), book[i].ev \in Turns
        PROVE i = k + 1 /\ book[i].ev = "GUARDIAN_STARTED"
    <3>1. ~(i <= k)
      <4> SUFFICES ASSUME i <= k PROVE FALSE
        OBVIOUS
      <4>1. i \in (q + 1)..k
        BY <1>1, <1>2, <1>3
      <4> QED BY <1>9, <2>2, <4>1 DEF Quiet
    <3>2. k # L
      BY <1>1, <1>2, <1>3, <3>1
    <3>3. ~(k + 1 < i)
      <4> SUFFICES ASSUME k + 1 < i PROVE FALSE
        OBVIOUS
      <4>1. k + 1 \in (q + 1)..(i - 1)
        BY <1>1, <1>2, <1>3
      <4> QED BY <1>9, <2>2, <3>2, <4>1 DEF Quiet, Turns
    <3>4. i = k + 1
      BY <1>1, <1>2, <1>3, <3>1, <3>3
    <3> QED BY <1>9, <3>2, <3>4
  <2>3. ASSUME NEW i \in (q + 1)..v, Quiet(book, q + 1, i - 1), book[i].ev \in Turns
        PROVE book[i].ev = "GUARDIAN_STARTED" /\ book[i - 1].ts <= x
    <3>1. i = k + 1 /\ book[i].ev = "GUARDIAN_STARTED"
      BY <2>2, <2>3
    <3>2. i - 1 = k
      BY <1>1, <1>2, <1>3, <3>1
    <3> QED BY <1>9, <3>1, <3>2
  <2> QED BY <1>4, <1>9, <2>1, <2>3 DEF Turns
<1>10. ASSUME NEW k \in q..L, Over(book, s, k, mode), x \in Nat
       PROVE  \/ k > q /\ Quiet(book, q + 1, k - 1) /\ book[k].ev = "GUARDIAN_STOPPED" /\ x = book[k].ts
              \/ Quiet(book, q + 1, k) /\ book[k].ts <= x /\ (k = L \/ book[k + 1].ev = "GUARDIAN_STARTED")
  BY <1>3, <1>4, <1>10 DEF Over
<1> QED BY <1>5, <1>7, <1>8, <1>9, <1>10

\* How long a seal was watched, up to an end.
WatchedFor(s, end) == (IF s.until = Unknown THEN end ELSE Min({s.until, end})) - s.at
\* It ends with the range or with the watch, whichever is first.
LEMMA WatchedIs ==
  ASSUME NEW s, NEW end \in Int, s.until \in Int
  PROVE  WatchedFor(s, end) = (IF s.until = Unknown \/ end <= s.until THEN end ELSE s.until) - s.at
<1>1. PICK x \in Int : x = s.until
  OBVIOUS
<1>2. Min({x, end}) = IF x <= end THEN x ELSE end
  BY MinOfTwo
<1> QED BY <1>1, <1>2 DEF WatchedFor

\* The coverage that is published of the only seal of a range is the time it was watched, or not
\* more of it when some shutdown was unclean.
LEMMA CoverageIs ==
  ASSUME NEW u, NEW v, NEW f, NEW g, Run(u, v, f, g), NEW q, OnlySeal(u, v, q),
         NEW acc \in Watch, Covering(acc, u, q, v),
         NEW s, NEW mode, Watching(book, s, mode), s.seq = q,
         NEW E \in u..v, NEW bound \in BOOLEAN, acc.unclean > 0 => bound,
         NEW c, c # Unknown,
         c = Coverage(acc.covered + (IF acc.since = Unknown THEN 0 ELSE book[E].ts - acc.since),
                      book[E].ts - book[q].ts, bound)
  PROVE  IF bound THEN c <= WatchedFor(s, book[E].ts) ELSE c = WatchedFor(s, book[E].ts)
<1>1. /\ Len(book) \in Nat /\ u \in Nat /\ v \in Nat /\ u >= 1 /\ v >= u /\ v <= Len(book)
      /\ \A k \in 1..Len(book) : book[k].ts \in Nat /\ book[k].ts # Unknown
      /\ \A i, j \in 1..Len(book) : i < j => book[i].ts <= book[j].ts
  BY RunSays
<1>2. q \in Nat /\ q >= u /\ q <= v /\ q \in 1..Len(book) /\ E \in 1..v /\ E \in 1..Len(book)
  BY <1>1 DEF OnlySeal
<1>3. PICK at \in Nat, end \in Nat : at = book[q].ts /\ end = book[E].ts /\ at # Unknown /\ end # Unknown
  BY <1>1, <1>2
<1>4. acc.covered \in Int /\ acc.since \in Int /\ acc.unclean \in Nat /\ Unknown \in Int /\ Unknown < 0
  BY DEF Watch, Unknown
<1>5. PICK covered \in Int : covered = acc.covered + (IF acc.since = Unknown THEN 0 ELSE end - acc.since)
  BY <1>4
<1>6. c = Coverage(covered, end - at, bound)
  BY <1>3, <1>5
<1>7. end - at > 0 /\ c = (IF covered <= 0 THEN 0 ELSE IF end - at <= covered THEN end - at ELSE covered)
  <2>1. PICK whole \in Int : whole = end - at
    OBVIOUS
  <2>2. Coverage(covered, whole, bound) # Unknown
    BY <1>6, <2>1
  <2>3. whole > 0 /\ Coverage(covered, whole, bound) =
                        (IF covered <= 0 THEN 0 ELSE IF whole <= covered THEN whole ELSE covered)
    BY <2>2, CoverageSays
  <2> QED BY <1>6, <2>1, <2>3
<1>8. s.at = at /\ s.until \in Int
  BY <1>2, <1>3, <1>4 DEF Watching
<1>9. PICK w : w = WatchedFor(s, end) /\ w = (IF s.until = Unknown \/ end <= s.until THEN end ELSE s.until) - at
  BY <1>8, WatchedIs
<1>10. /\ Quiet(book, q + 1, v) =>
             s.until = Unknown \/ (s.until \in Nat /\ \A i \in 1..v : book[i].ts <= s.until)
       /\ \A i \in (q + 1)..v : Quiet(book, q + 1, i - 1) =>
             /\ book[i].ev = "GUARDIAN_STOPPED" => s.until = book[i].ts
             /\ book[i].ev = "GUARDIAN_STARTED" => s.until \in Nat /\ book[i - 1].ts <= s.until
  BY UntilWhen
<1>11. \/ Quiet(book, q + 1, v) /\ acc.since = at /\ acc.covered = 0
       \/ acc.since = Unknown /\ \E i \in (q + 1)..v : Turned(acc, q, i)
  BY <1>2, <1>3 DEF Covering, Timing1
<1>12. CASE Quiet(book, q + 1, v) /\ acc.since = at /\ acc.covered = 0
  <2>1. covered = end - at
    BY <1>3, <1>5, <1>12
  <2>2. s.until = Unknown \/ end <= s.until
    BY <1>2, <1>3, <1>10, <1>12
  <2>3. w = end - at /\ c = end - at
    BY <1>7, <1>9, <2>1, <2>2
  <2> QED BY <1>3, <1>9, <2>3
<1>13. CASE acc.since = Unknown /\ \E i \in (q + 1)..v : Turned(acc, q, i)
  <2>1. PICK i \in (q + 1)..v : Turned(acc, q, i)
    BY <1>13
  <2>2. covered = acc.covered
    BY <1>4, <1>5, <1>13
  <2>3. i \in 1..Len(book) /\ i - 1 \in 1..Len(book) /\ q < i /\ q <= i - 1 /\ Quiet(book, q + 1, i - 1)
    BY <1>1, <1>2, <2>1 DEF Turned
  <2>4. CASE book[i].ev = "GUARDIAN_STOPPED" /\ acc.covered = book[i].ts - book[q].ts
    <3>1. PICK t \in Nat : t = book[i].ts /\ t # Unknown /\ at <= t
      BY <1>1, <1>2, <1>3, <2>3
    <3>2. s.until = t
      BY <1>10, <2>1, <2>3, <2>4, <3>1
    <3>3. covered = t - at
      BY <1>3, <2>2, <2>4, <3>1
    <3>4. w = (IF end <= t THEN end ELSE t) - at
      BY <1>9, <3>1, <3>2
    <3>5. w = c
      BY <1>7, <3>1, <3>3, <3>4
    <3>6. w \in Int
      BY <3>1, <3>4
    <3> QED BY <1>3, <1>9, <3>5, <3>6
  <2>5. CASE book[i].ev = "GUARDIAN_STARTED" /\ acc.covered = book[i - 1].ts - book[q].ts /\ acc.unclean > 0
    <3>1. PICK t \in Nat : t = book[i - 1].ts /\ at <= t
      <4>1. PICK k \in Nat : k = i - 1
        BY <1>1, <2>3
      <4>2. k \in 1..Len(book) /\ book[k].ts \in Nat /\ (k = q \/ q < k)
        BY <1>1, <1>2, <2>3, <4>1
      <4>3. at <= book[k].ts
        BY <1>1, <1>2, <1>3, <4>2
      <4> QED BY <4>1, <4>2, <4>3
    <3>2. s.until \in Nat /\ t <= s.until
      BY <1>10, <2>1, <2>3, <2>5, <3>1
    <3>3. covered = t - at
      BY <1>3, <2>2, <2>5, <3>1
    <3>4. s.until # Unknown
      BY <1>4, <3>2
    <3>5. w = (IF end <= s.until THEN end ELSE s.until) - at
      BY <1>9, <3>4
    <3>6. c <= w
      BY <1>7, <3>1, <3>2, <3>3, <3>5
    <3> QED BY <1>3, <1>9, <2>5, <3>6
  <2> QED BY <2>1, <2>4, <2>5 DEF Turned
<1> QED BY <1>11, <1>12, <1>13

-----------------------------------------------------------------------------
(* Where the seal is, and where its coverage ends *)

\* The coverage is counted from the only seal to the first end of a day, or to the end of the range.
LEMMA SealAt ==
  ASSUME Guarded, NEW r, NEW u, NEW v, NEW n, NEW rows, Timing(r, u, v, n, rows), NEW q, OnlySeal(u, v, q)
  PROVE  \E E \in u..v :
           /\ EndOf(rows) = book[E].ts /\ WholeOf(rows) = book[E].ts - book[q].ts
           /\ LET closed == {i \in u..v : book[i].ev = "DAY_CLOSED"}
              IN E = IF closed = {} THEN v ELSE Min(closed)
<1>1. Len(book) \in Nat
  BY BookSays
<1>2. u \in Nat /\ v \in Nat /\ n \in Nat /\ u <= v /\ n = v - u + 1 /\ n # 0
  BY <1>1 DEF Timing
<1>3. DOMAIN rows = 1..n /\ \A k \in 1..n : rows[k] = book[u + k - 1]
  BY DEF Timing
<1>4. Len(rows) = n
  BY <1>2 DEF Timing
<1>5. ASSUME NEW i \in u..v PROVE i - u + 1 \in 1..n /\ rows[i - u + 1] = book[i]
  <2>1. i - u + 1 \in 1..n /\ u + (i - u + 1) - 1 = i
    BY <1>2
  <2> QED BY <1>3, <2>1
<1>6. ASSUME NEW k \in 1..n PROVE u + k - 1 \in u..v /\ rows[k] = book[u + k - 1]
  BY <1>2, <1>3
<1>7. PICK a : a = At(rows, "SEAL_CREATED")
  OBVIOUS
<1>8. \/ a = 0 /\ \A i \in 1..n : rows[i].ev # "SEAL_CREATED"
      \/ a \in 1..n /\ rows[a].ev = "SEAL_CREATED" /\ \A i \in 1..n : rows[i].ev = "SEAL_CREATED" => a <= i
  BY <1>2, <1>4, <1>7, AtIs
<1>9. q \in u..v /\ book[q].ev = "SEAL_CREATED" /\ \A k \in u..v : book[k].ev = "SEAL_CREATED" => k = q
  BY DEF OnlySeal
<1>10. a # 0 /\ rows[a] = book[q]
  <2>1. q - u + 1 \in 1..n /\ rows[q - u + 1] = book[q]
    BY <1>5, <1>9
  <2>2. a \in 1..n /\ rows[a].ev = "SEAL_CREATED"
    BY <1>8, <1>9, <2>1
  <2>3. u + a - 1 = q
    BY <1>6, <1>9, <2>2
  <2>4. rows[a] = book[u + a - 1]
    BY <1>6, <2>2
  <2> QED BY <2>2, <2>3, <2>4
<1>11. PICK d : d = At(rows, "DAY_CLOSED")
  OBVIOUS
<1>12. \/ d = 0 /\ \A i \in 1..n : rows[i].ev # "DAY_CLOSED"
       \/ d \in 1..n /\ rows[d].ev = "DAY_CLOSED" /\ \A i \in 1..n : rows[i].ev = "DAY_CLOSED" => d <= i
  BY <1>2, <1>4, <1>11, AtIs
<1>13. PICK closed : closed = {i \in u..v : book[i].ev = "DAY_CLOSED"}
  OBVIOUS
<1>14. PICK E : E = IF closed = {} THEN v ELSE Min(closed)
  OBVIOUS
<1>15. E \in u..v /\ EndOf(rows) = book[E].ts
  <2>1. CASE d = 0
    <3>1. closed = {}
      BY <1>5, <1>12, <1>13, <2>1
    <3>2. rows[n] = book[v]
      <4>1. v \in u..v /\ v - u + 1 = n
        BY <1>2
      <4> QED BY <1>5, <4>1
    <3>3. EndOf(rows) = rows[n].ts
      BY <1>4, <1>11, <2>1 DEF EndOf
    <3> QED BY <1>2, <1>14, <3>1, <3>2, <3>3
  <2>2. CASE d # 0
    <3>1. d \in 1..n /\ rows[d].ev = "DAY_CLOSED" /\ \A i \in 1..n : rows[i].ev = "DAY_CLOSED" => d <= i
      BY <1>12, <2>2
    <3>2. PICK m \in u..v : m = u + d - 1 /\ rows[d] = book[m]
      BY <1>6, <3>1
    <3>3. m \in closed
      BY <1>13, <3>1, <3>2
    <3>4. ASSUME NEW i \in closed PROVE m <= i
      <4>1. i \in u..v /\ book[i].ev = "DAY_CLOSED"
        BY <1>13
      <4>2. i - u + 1 \in 1..n /\ rows[i - u + 1] = book[i]
        BY <1>5, <4>1
      <4>3. d <= i - u + 1
        BY <3>1, <4>1, <4>2
      <4> QED BY <1>2, <3>1, <3>2, <4>1, <4>3
    <3>5. Min(closed) = m
      <4>1. \A x \in closed : x \in Int
        BY <1>2, <1>13
      <4>2. \A x \in closed : (\A y \in closed : x <= y) => x = m
        BY <1>2, <3>2, <3>3, <3>4, <4>1
      <4> QED BY <3>3, <3>4, <4>2 DEF Min
    <3>6. EndOf(rows) = rows[d].ts
      BY <1>11, <2>2 DEF EndOf
    <3> QED BY <1>14, <3>2, <3>3, <3>5, <3>6
  <2> QED BY <2>1, <2>2
<1>16. WholeOf(rows) = book[E].ts - book[q].ts
  BY <1>7, <1>10, <1>15 DEF WholeOf
<1> QED BY <1>13, <1>14, <1>15, <1>16

-----------------------------------------------------------------------------
(* The sum of the gaps *)

\* The time without a guardian before an entry, under one of the seals of R.
GapOf(R, i) ==
  IF book[i].ev = "GUARDIAN_STARTED" /\ \E t \in R : t.seq < i THEN book[i].ts - book[i - 1].ts ELSE 0
GapsOf(R, S) == MapThenSumSet(LAMBDA i : GapOf(R, i), S)
\* It is a sum, in the order in which MapThenSumSet takes the entries.
LEMMA GapsAreSum ==
  ASSUME NEW R, NEW S, IsFiniteSet(S), \A i \in S : GapOf(R, i) \in Int
  PROVE  \E f, g : f = [i \in S |-> GapOf(R, i)] /\ IsSum(g, f, S) /\ GapsOf(R, S) = g[S]
<1> DEFINE Eq(g) == g = [s \in SUBSET S |-> IF s = {} THEN 0 ELSE GapOf(R, CHOOSE x \in s : TRUE) + g[s \ {CHOOSE x \in s : TRUE}]]
           c == CHOOSE g : Eq(g)
<1>0. PICK f : f = [i \in S |-> GapOf(R, i)]
  OBVIOUS
<1>1. PICK pick : pick = [u \in SUBSET S |-> CHOOSE x \in u : TRUE]
  OBVIOUS
<1>2. \A u \in SUBSET S : u # {} => pick[u] \in u
  BY <1>1
<1>3. ASSUME NEW g PROVE SumEq(g, f, pick, SUBSET S, TRUE) <=> Eq(g)
  <2>1. ASSUME NEW u \in SUBSET S
        PROVE SumStep(g, f, pick, u, TRUE) = IF u = {} THEN 0 ELSE GapOf(R, CHOOSE x \in u : TRUE) + g[u \ {CHOOSE x \in u : TRUE}]
    <3>1. PICK z : z = CHOOSE x \in u : TRUE
      OBVIOUS
    <3>2. pick[u] = z /\ (u # {} => z \in S)
      BY <1>1, <1>2, <3>1
    <3>3. u # {} => f[z] = GapOf(R, z)
      BY <1>0, <3>2
    <3>4. u # {} => f[pick[u]] + g[u \ {pick[u]}] = GapOf(R, z) + g[u \ {z}]
      BY <3>2, <3>3
    <3>5. SumStep(g, f, pick, u, TRUE) = IF u = {} THEN 0 ELSE GapOf(R, z) + g[u \ {z}]
      BY <3>4 DEF SumStep
    <3> QED BY <3>1, <3>5
  <2> QED BY <2>1 DEF SumEq
<1>4. \E g : Eq(g)
  <2> HIDE DEF Eq
  <2> QED BY <1>2, <1>3, SumExists DEF Picks
<1>5. Eq(c)
  <2> HIDE DEF Eq
  <2> QED BY <1>4
<1>6. GapsOf(R, S) = c[S]
  BY DEF GapsOf, MapThenSumSet, MapThenFoldSet
<1>7. f \in [S -> Int]
  BY <1>0
<1>8. IsSum(c, f, S)
  <2> HIDE DEF Eq, c
  <2> QED BY <1>2, <1>3, <1>5, <1>7 DEF IsSum, Picks
<1> QED
  <2> HIDE DEF Eq, c
  <2> QED BY <1>0, <1>6, <1>8

-----------------------------------------------------------------------------
(* What TimesAreTrue says *)

EndBy(u, v) ==
  LET closed == {i \in u..v : book[i].ev = "DAY_CLOSED"}
  IN book[IF closed = {} THEN v ELSE Min(closed)].ts
\* What TimesAreTrue says, with these names.
LEMMA TimesSay ==
  ASSUME NEW u, NEW v, u = shown.from, v = shown.to
  PROVE  TimesAreTrue <=>
           (Continued /\ shown.flaw = "none" =>
              /\ Cardinality(SealsIn) = 1 /\ skew = 0 /\ ~StaleStop /\ report.continuity.coverage # Unknown
                   => (IF report.continuity.isBound
                       THEN report.continuity.coverage <= WatchedFor(CHOOSE t \in SealsIn : TRUE, EndBy(u, v))
                       ELSE report.continuity.coverage = WatchedFor(CHOOSE t \in SealsIn : TRUE, EndBy(u, v)))
              /\ skew = 0 /\ ~StaleStop /\ report.continuity.unmonitored # Unknown
                   => report.continuity.unmonitored = GapsOf(SealsIn, u..v)
              /\ (report.backwards # {}) = (\E i \in u..(v - 1) : book[i + 1].ts < book[i].ts))
BY Zenon DEF TimesAreTrue, WatchedFor, EndBy, GapsOf, GapOf, MapThenSumSet, MapThenFoldSet

\* The seals of a range, as the history and as the ledger tell them.
InHistory(R, u, v) ==
  /\ \A t \in R : Watching(book, t, ModeOf(up, died)) /\ t.seq \in u..v /\ book[t.seq].ev = "SEAL_CREATED"
  /\ \A i \in u..v : book[i].ev = "SEAL_CREATED" => \E t \in R : t.seq = i
\* The seals of the range in the history are those of the ledger.
LEMMA SealsOf ==
  ASSUME Guarded, Timed, skew = 0, NEW u, NEW v, u = shown.from, v = shown.to,
         u \in 1..Len(book), v \in u..Len(book), NEW R, R = SealsIn
  PROVE  InHistory(R, u, v)
<1>1. Len(book) \in Nat /\ DOMAIN book = 1..Len(book) /\ SealsTold(book, seals)
  <2>1. book \in Seq(Records)
    BY DEF Guarded, Chained
  <2> QED BY <2>1 DEF Guarded
<1>2. \A t : t \in R <=> t \in seals /\ t.seq \in u..v
  BY DEF SealsIn, InRange
<1>3. \A t \in seals : Watching(book, t, ModeOf(up, died))
  BY DEF Timed
<1>4. ASSUME NEW t \in R PROVE Watching(book, t, ModeOf(up, died)) /\ t.seq \in u..v /\ book[t.seq].ev = "SEAL_CREATED"
  <2>1. Watching(book, t, ModeOf(up, died))
    BY <1>2, <1>3
  <2>2. book[t.seq].ev = "SEAL_CREATED"
    BY <2>1 DEF Watching
  <2> QED BY <1>2, <2>1, <2>2
<1>5. ASSUME NEW i \in u..v, book[i].ev = "SEAL_CREATED" PROVE \E t \in R : t.seq = i
  <2>1. i \in DOMAIN book
    BY <1>1
  <2>2. PICK t \in seals : t.seq = i
    BY <1>1, <1>5, <2>1 DEF SealsTold
  <2> QED BY <1>2, <2>2
<1> QED BY <1>4, <1>5 DEF InHistory

\* A seal of the range is before an entry, in the ledger when it is in the history.
LEMMA SealingIs ==
  ASSUME NEW R, NEW u \in Nat, NEW v \in Nat, InHistory(R, u, v), NEW i \in u..v
  PROVE  Sealing(u, i - 1) <=> \E t \in R : t.seq < i
<1>1. ASSUME Sealing(u, i - 1) PROVE \E t \in R : t.seq < i
  <2>1. PICK k \in u..(i - 1) : book[k].ev = "SEAL_CREATED"
    BY <1>1 DEF Sealing
  <2>2. k \in u..v /\ k < i
    BY <2>1
  <2>3. PICK t \in R : t.seq = k
    BY <2>1, <2>2 DEF InHistory
  <2> QED BY <2>2, <2>3
<1>2. ASSUME NEW t \in R, t.seq < i PROVE Sealing(u, i - 1)
  <2>1. PICK k \in u..v : k = t.seq /\ k < i /\ book[k].ev = "SEAL_CREATED"
    BY <1>2 DEF InHistory
  <2>2. k \in u..(i - 1)
    BY <2>1
  <2> QED BY <2>1, <2>2 DEF Sealing
<1> QED BY <1>1, <1>2

\* Over a range under one of its seals the ledger is one that the loop can read.
LEMMA GapsAre ==
  ASSUME Guarded, Timed, skew = 0, NEW u \in 1..Len(book), NEW v \in u..Len(book), NEW R, InHistory(R, u, v),
         \A i \in u..v : book[i].ev = "GUARDIAN_STOPPED" => ~(\A t \in R : i < t.seq)
  PROVE  \E f, g : Run(u, v, f, g) /\ GapsOf(R, u..v) = g[u..v]
<1>1. Len(book) \in Nat
  BY BookSays
<1>2. u \in Nat /\ v \in Nat /\ u >= 1 /\ v <= Len(book) /\ u <= v
  BY <1>1
<1>3. \A i \in 1..Len(book) : book[i].ts \in Nat
  BY DEF Timed, Clocked
<1>4. ASSUME NEW i \in u..v PROVE GapOf(R, i) = GapAt(u, i) /\ GapOf(R, i) \in Int
  <2>1. Sealing(u, i - 1) <=> \E t \in R : t.seq < i
    BY <1>2, SealingIs
  <2>2. GapOf(R, i) = GapAt(u, i)
    BY <2>1 DEF GapOf, GapAt
  <2>3. CASE Sealing(u, i - 1)
    <3>1. i \in 1..Len(book) /\ i - 1 \in 1..Len(book)
      BY <1>2, <2>3 DEF Sealing
    <3>2. book[i].ts \in Nat /\ book[i - 1].ts \in Nat
      BY <1>3, <3>1
    <3>3. PICK x \in Nat, y \in Nat : x = book[i].ts /\ y = book[i - 1].ts
      BY <3>2
    <3>4. GapAt(u, i) = x - y \/ GapAt(u, i) = 0
      BY <3>3 DEF GapAt
    <3> QED BY <2>2, <3>3, <3>4
  <2>4. CASE ~Sealing(u, i - 1)
    BY <2>2, <2>4 DEF GapAt
  <2> QED BY <2>2, <2>3, <2>4
<1>5. PICK S : S = u..v
  OBVIOUS
<1>6. IsFiniteSet(S)
  BY <1>2, <1>5, FS_Interval
<1>7. \A i \in S : GapOf(R, i) = GapAt(u, i) /\ GapOf(R, i) \in Int
  BY <1>4, <1>5
<1>8. PICK f, g : f = [i \in S |-> GapOf(R, i)] /\ IsSum(g, f, S) /\ GapsOf(R, S) = g[S]
  BY <1>6, <1>7, GapsAreSum
<1>9. f = [i \in u..v |-> GapAt(u, i)]
  BY <1>5, <1>7, <1>8
<1>10. NotStale(u, v)
  <2> SUFFICES ASSUME NEW i \in u..v, book[i].ev = "GUARDIAN_STOPPED" PROVE Sealing(u, i - 1)
    BY DEF NotStale
  <2>1. PICK t \in R : ~(i < t.seq)
    OBVIOUS
  <2>2. PICK k \in u..v : k = t.seq /\ book[k].ev = "SEAL_CREATED"
    BY <2>1 DEF InHistory
  <2>3. k # i /\ ~(i < k)
    BY <2>1, <2>2
  <2>4. k \in u..(i - 1)
    BY <1>2, <2>3
  <2> QED BY <2>2, <2>4 DEF Sealing
<1>11. Run(u, v, f, g)
  BY <1>5, <1>8, <1>9, <1>10 DEF Run
<1> QED BY <1>5, <1>8, <1>11

\* One seal.
LEMMA OneSeal ==
  ASSUME NEW R, NEW u, NEW v, InHistory(R, u, v), Cardinality(R) = 1, IsFiniteSet(R), NEW s, s = CHOOSE t \in R : TRUE
  PROVE  Watching(book, s, ModeOf(up, died)) /\ OnlySeal(u, v, s.seq)
<1>1. PICK x : R = {x}
  BY FS_Singleton
<1>2. s = x /\ s \in R
  BY <1>1
<1>3. Watching(book, s, ModeOf(up, died)) /\ s.seq \in u..v /\ book[s.seq].ev = "SEAL_CREATED"
  BY <1>2 DEF InHistory
<1>4. ASSUME NEW k \in u..v, book[k].ev = "SEAL_CREATED" PROVE k = s.seq
  <2>1. PICK t \in R : t.seq = k
    BY <1>4 DEF InHistory
  <2> QED BY <1>1, <1>2, <2>1
<1> QED BY <1>3, <1>4 DEF OnlySeal

\* The history of the seals is finite.
LEMMA FewSeals ==
  ASSUME Guarded, IsFiniteSet(seals), [Next]_vars
  PROVE  IsFiniteSet(seals)'
<1>1. \A t : IsFiniteSet(Watched(t))
  <2> TAKE t
  <2>1. PICK S, until : S = seals /\ until = t
    OBVIOUS
  <2>2. PICK f : f = [s \in S |-> IF s.until = Unknown THEN [s EXCEPT !.until = until] ELSE s]
    OBVIOUS
  <2>3. PICK T : T = {f[s] : s \in S}
    OBVIOUS
  <2>4. f \in Surjection(S, T)
    BY <2>2, <2>3 DEF Surjection
  <2>5. IsFiniteSet(S)
    BY <2>1
  <2>6. IsFiniteSet(T)
    BY <2>4, <2>5, FS_Surjection DEF ExistsSurjection
  <2>7. T = Watched(t)
    BY <2>1, <2>2, <2>3 DEF Watched
  <2> QED BY <2>6, <2>7
<1>2. \A x : IsFiniteSet(seals \cup {x})
  BY FS_AddElement
<1>3. CASE GuardianStops \/ GuardianCrashes
  BY <1>1, <1>3 DEF GuardianStops, GuardianCrashes
<1>4. CASE SealCreated
  BY <1>2, <1>4 DEF SealCreated
<1>5. ASSUME NEW ev, NEW oid, Observes(ev, oid) PROVE seals' = seals
  BY <1>5 DEF Observes
<1>6. CASE ShowNext
  <2>1. PICK p : Asked(p) /\ Show(p)
    BY <1>6, ShowAsks
  <2> QED BY <2>1 DEF Show, guardianVars
<1>7. CASE GuardianStarts \/ DayOpened \/ DayClosed \/ ClockBack \/ UNCHANGED vars
  <2>1. seals' = seals
    BY <1>7 DEF GuardianStarts, DayOpened, DayClosed, ClockBack, vars
  <2> QED BY <2>1
<1> QED BY <1>3, <1>4, <1>5, <1>6, <1>7, NextIs DEF GuardianNext
\* At no time has the history infinitely many seals.
LEMMA SealsAreFew == Spec => []IsFiniteSet(seals)
<1>1. Init => IsFiniteSet(seals)
  BY FS_EmptySet DEF Init
<1>2. Guarded /\ Judgement /\ IsFiniteSet(seals) /\ [Next]_vars => IsFiniteSet(seals)'
  BY FewSeals
<1> QED BY <1>1, <1>2, LedgerIsTold, PTL DEF Spec

-----------------------------------------------------------------------------
(* What is published of the times is true *)

\* A certificate without a flaw whose continuity can be told.
LEMMA ContinuityTold ==
  ASSUME Guarded, NEW r, NEW u, NEW v, NEW n, NEW rows, Timing(r, u, v, n, rows), r.continuity.supported,
         NEW f, NEW g, Run(u, v, f, g)
  PROVE  \E acc : /\ Figures(r.continuity, rows, acc) /\ Tracked(acc, g, u, v)
                  /\ \A q : OnlySeal(u, v, q) => Covering(acc, u, q, v)
<1>1. PICK c : c = r.continuity
  OBVIOUS
<1>2. Len(book) \in Nat /\ u \in Nat /\ v \in Nat /\ u <= v
  BY RunSays
<1>3. PICK L \in Nat : L = n /\ n = v - u + 1 /\ L = Len(rows)
  BY <1>2 DEF Timing
<1>4. rows = EventsInRange(book, u, v) /\ c = Continuity(book, "guardian-core-v1", u, v) /\ c.supported
  BY <1>1 DEF Timing
<1>5. PICK file : file = book
  OBVIOUS
<1>6. PICK after : Watches(after, file, rows, L) /\ Figures(c, rows, after[L])
  <2>1. rows = EventsInRange(file, u, v) /\ c = Continuity(file, "guardian-core-v1", u, v)
    BY <1>4, <1>5
  <2> QED BY <1>3, <1>4, <2>1, FiguresAre
<1>7. Loop(after, u, v, L, rows)
  BY <1>3, <1>5, <1>6 DEF Loop, Timing
<1>8. Tracked(after[L], g, u, v) /\ \A q : OnlySeal(u, v, q) => Covering(after[L], u, q, v)
  BY <1>7, LoopEnds
<1> QED BY <1>1, <1>6, <1>8

\* The time without a guardian is the sum of the gaps.
LEMMA UnmonitoredIs ==
  ASSUME Guarded, Timed, NEW r, NEW u, NEW v, NEW n, NEW rows, Timing(r, u, v, n, rows), r.continuity.supported,
         NEW f, NEW g, Run(u, v, f, g), r.continuity.unmonitored # Unknown
  PROVE  r.continuity.unmonitored = g[u..v]
<1>1. PICK acc : Figures(r.continuity, rows, acc) /\ Tracked(acc, g, u, v)
  BY ContinuityTold
<1>2. acc.unclean \in Nat
  BY <1>1 DEF Tracked, Watch
<1>3. ~(acc.unclean > 0) /\ r.continuity.unmonitored = SumOf(acc.gaps)
  BY <1>1, Zenon DEF Figures
<1>4. acc.unclean = 0
  BY <1>2, <1>3
<1> QED BY <1>1, <1>3, <1>4 DEF Tracked

\* The coverage is the time the seal was watched.
LEMMA CoverageTold ==
  ASSUME Guarded, Timed, NEW r, NEW u, NEW v, NEW n, NEW rows, Timing(r, u, v, n, rows), r.continuity.supported,
         NEW f, NEW g, Run(u, v, f, g), r.continuity.coverage # Unknown,
         NEW s, NEW mode, Watching(book, s, mode), OnlySeal(u, v, s.seq)
  PROVE  IF r.continuity.isBound THEN r.continuity.coverage <= WatchedFor(s, EndBy(u, v))
                                 ELSE r.continuity.coverage = WatchedFor(s, EndBy(u, v))
<1>1. PICK q : q = s.seq
  OBVIOUS
<1>2. OnlySeal(u, v, q)
  BY <1>1
<1>3. PICK acc : Figures(r.continuity, rows, acc) /\ acc \in Watch /\ Covering(acc, u, q, v)
  <2>1. PICK acc : /\ Figures(r.continuity, rows, acc) /\ Tracked(acc, g, u, v)
                   /\ \A x : OnlySeal(u, v, x) => Covering(acc, u, x, v)
    BY ContinuityTold
  <2> QED BY <1>2, <2>1 DEF Tracked
<1>4. PICK E \in u..v : EndOf(rows) = book[E].ts /\ WholeOf(rows) = book[E].ts - book[q].ts /\ EndBy(u, v) = book[E].ts
  <2>1. PICK E \in u..v :
           /\ EndOf(rows) = book[E].ts /\ WholeOf(rows) = book[E].ts - book[q].ts
           /\ LET closed == {i \in u..v : book[i].ev = "DAY_CLOSED"}
              IN E = IF closed = {} THEN v ELSE Min(closed)
    BY <1>2, SealAt
  <2> QED BY <2>1, Zenon DEF EndBy
<1>5. acc.unclean \in Nat /\ acc.indeterminate \in Nat
  BY <1>3 DEF Watch
<1>6. \/ acc.unclean + acc.indeterminate > 0
      \/ acc.unclean = 0 /\ ~(acc.unclean + acc.indeterminate > 0)
  BY <1>5
<1>7. PICK bound : /\ bound \in BOOLEAN /\ (acc.unclean = 0 \/ bound)
                   /\ bound = (acc.unclean + acc.indeterminate > 0)
  <2>1. CASE acc.unclean + acc.indeterminate > 0
    <3>1. TRUE = (acc.unclean + acc.indeterminate > 0)
      BY <2>1
    <3> QED BY <3>1, Zenon
  <2>2. CASE acc.unclean = 0 /\ ~(acc.unclean + acc.indeterminate > 0)
    <3>1. FALSE = (acc.unclean + acc.indeterminate > 0)
      BY <2>2
    <3> QED BY <2>2, <3>1, Zenon
  <2> QED BY <1>6, <2>1, <2>2
<1>7a. acc.unclean > 0 => bound
  <2>1. ~(acc.unclean > 0) \/ ~(acc.unclean = 0)
    BY <1>5
  <2> QED BY <1>7, <2>1, Zenon
<1>8. PICK c : c = r.continuity.coverage
  OBVIOUS
<1>9. r.continuity.isBound = bound
  BY <1>3, <1>7, Zenon DEF Figures
<1>10. c = Coverage(acc.covered + (IF acc.since = Unknown THEN 0 ELSE book[E].ts - acc.since),
                    book[E].ts - book[q].ts, bound)
  <2>1. c = Coverage(acc.covered + (IF acc.since = Unknown THEN 0 ELSE EndOf(rows) - acc.since),
                     WholeOf(rows), acc.unclean + acc.indeterminate > 0)
    BY <1>3, <1>8, Zenon DEF Figures
  <2> QED BY <1>4, <1>7, <2>1, Zenon
<1>11. IF bound THEN c <= WatchedFor(s, book[E].ts) ELSE c = WatchedFor(s, book[E].ts)
  <2>1. s.seq = q /\ c # Unknown
    BY <1>1, <1>8
  <2>2. bound \in BOOLEAN
    BY <1>7, Zenon
  <2>3. acc \in Watch /\ Covering(acc, u, q, v)
    BY <1>3, Zenon
  <2> QED BY <1>2, <1>7a, <1>10, <2>1, <2>2, <2>3, CoverageIs
<1> QED BY <1>4, <1>8, <1>9, <1>11, Zenon

\* The time that one process is said to have watched the seal is the time it did, or less where a
\* bound is published; the time without a guardian is the time between shutdowns and starts; and
\* the clock is seen to go back where it did.
THEOREM TimesAreMeant == Spec => []TimesAreTrue
<1>1. Guarded /\ Judgement /\ Timed /\ IsFiniteSet(seals) => TimesAreTrue
  <2> SUFFICES ASSUME Guarded, Judgement, Timed, IsFiniteSet(seals) PROVE TimesAreTrue
    OBVIOUS
  <2>1. PICK u, v, R, r : u = shown.from /\ v = shown.to /\ R = SealsIn /\ r = report
    OBVIOUS
  <2>2. SUFFICES ASSUME Continued, shown.flaw = "none"
        PROVE  /\ Cardinality(R) = 1 /\ skew = 0 /\ ~StaleStop /\ r.continuity.coverage # Unknown
                    => (IF r.continuity.isBound
                        THEN r.continuity.coverage <= WatchedFor(CHOOSE t \in R : TRUE, EndBy(u, v))
                        ELSE r.continuity.coverage = WatchedFor(CHOOSE t \in R : TRUE, EndBy(u, v)))
               /\ skew = 0 /\ ~StaleStop /\ r.continuity.unmonitored # Unknown
                    => r.continuity.unmonitored = GapsOf(R, u..v)
               /\ (r.backwards # {}) = (\E i \in u..(v - 1) : book[i + 1].ts < book[i].ts)
    BY <2>1, TimesSay
  <2>3. PICK n, rows : Timing(r, u, v, n, rows)
    <3>1. PICK p : p = shown
      OBVIOUS
    <3>2. Asked(p) /\ p.flaw = "none" /\ r = Told(p)
      BY <2>1, <2>2, <3>1 DEF Continued, Judgement
    <3>3. \E n, rows : Timing(Told(p), p.from, p.to, n, rows)
      BY <3>2, TimingIs
    <3> QED BY <2>1, <3>1, <3>2, <3>3
  <2>4. r.continuity.supported
    BY <2>1, <2>2 DEF Continued
  <2>5. (r.backwards # {}) = (\E i \in u..(v - 1) : book[i + 1].ts < book[i].ts)
    BY <2>3, BackwardsIs
  <2>6. ASSUME skew = 0, ~StaleStop
        PROVE  InHistory(R, u, v) /\ \E f, g : Run(u, v, f, g) /\ GapsOf(R, u..v) = g[u..v]
    <3>1. u \in 1..Len(book) /\ v \in u..Len(book)
      BY <2>3 DEF Timing
    <3>2. InHistory(R, u, v)
      BY <2>1, <2>6, <3>1, SealsOf
    <3>3. \A i \in u..v : book[i].ev = "GUARDIAN_STOPPED" => ~(\A t \in R : i < t.seq)
      BY <2>1, <2>6 DEF StaleStop
    <3> QED BY <2>6, <3>1, <3>2, <3>3, GapsAre
  <2>7. ASSUME skew = 0, ~StaleStop, r.continuity.unmonitored # Unknown
        PROVE  r.continuity.unmonitored = GapsOf(R, u..v)
    <3>1. PICK f, g : Run(u, v, f, g) /\ GapsOf(R, u..v) = g[u..v]
      BY <2>6, <2>7
    <3>2. r.continuity.unmonitored = g[u..v]
      BY <2>3, <2>4, <2>7, <3>1, UnmonitoredIs
    <3> QED BY <3>1, <3>2
  <2>8. ASSUME Cardinality(R) = 1, skew = 0, ~StaleStop, r.continuity.coverage # Unknown
        PROVE  IF r.continuity.isBound
               THEN r.continuity.coverage <= WatchedFor(CHOOSE t \in R : TRUE, EndBy(u, v))
               ELSE r.continuity.coverage = WatchedFor(CHOOSE t \in R : TRUE, EndBy(u, v))
    <3>1. PICK f, g : Run(u, v, f, g)
      BY <2>6, <2>8
    <3>2. InHistory(R, u, v)
      BY <2>6, <2>8
    <3>3. IsFiniteSet(R)
      BY <2>1, FS_Subset DEF SealsIn
    <3>4. PICK s, mode : s = (CHOOSE t \in R : TRUE) /\ mode = ModeOf(up, died)
      OBVIOUS
    <3>5. Watching(book, s, mode) /\ OnlySeal(u, v, s.seq)
      BY <2>8, <3>2, <3>3, <3>4, OneSeal
    <3>6. IF r.continuity.isBound THEN r.continuity.coverage <= WatchedFor(s, EndBy(u, v))
                                  ELSE r.continuity.coverage = WatchedFor(s, EndBy(u, v))
      BY <2>3, <2>4, <2>8, <3>1, <3>5, CoverageTold
    <3> QED BY <3>4, <3>6, Zenon
  <2> QED BY <2>5, <2>6, <2>7, <2>8, Zenon
<1> QED BY <1>1, LedgerIsTold, TimesAreTold, SealsAreFew, PTL
==============================================================================
