------------------------ MODULE SessionReaderProofs ------------------------
(***************************************************************************)
(* For any feeds, batch size, page size and number of participants, and    *)
(* however often the archive replaces the session while the reader pages   *)
(* through it:                                                             *)
(*   - laps selected for comparison are of one snapshot;                   *)
(*   - a feed that passes the normalisation is stored, never refused;      *)
(*   - the statements of one replacement act as the one step of            *)
(*     SessionStore;                                                       *)
(*   - the laps on screen are the first laps of the entry in one version.  *)
(*                                                                         *)
(* The first is inductive as it stands.  The next two rest on TxnInv:      *)
(* after each statement, which rows of the snapshot are there, that every  *)
(* constraint holds, and that every entry committed before still has its   *)
(* id.  The facts about one statement are about rows, not about states.    *)
(* The last adds that a page continues exactly where another ended.        *)
(***************************************************************************)
EXTENDS SessionReader, TLAPS, FiniteSetTheorems, SequenceTheorems

-----------------------------------------------------------------------------
(* The selections of the reader. *)

(* When a page arrives, the selections that survive are of its snapshot.   *)
LEMMA SurvivorsAgree ==
    ASSUME NEW completed, Compatible(completed)
    PROVE  \A s \in selections' : s.snapshot = completed
BY DEF Compatible

(* A lap toggled leaves the selections of the snapshot on screen.          *)
LEMMA TogglePreserves ==
    ASSUME SelectionsComparable, NEW lap, ToggleLap(lap)
    PROVE  SelectionsComparable'
<1> DEFINE existing == IF SelectionOf(entry) # {}
                       THEN CHOOSE s \in SelectionOf(entry) : TRUE
                       ELSE [entry |-> entry, snapshot |-> lapSnapshot, laps |-> {}]
           next == Toggled(existing, lap)
<1>1. lapSnapshot # None /\ lapSnapshot' = lapSnapshot
  BY DEF ToggleLap
<1>2. \A s \in selections : s.snapshot = lapSnapshot
  BY <1>1 DEF SelectionsComparable
<1>3. existing.snapshot = lapSnapshot
  <2>1. CASE SelectionOf(entry) # {}
    <3>1. (CHOOSE s \in SelectionOf(entry) : TRUE) \in selections
      BY <2>1 DEF SelectionOf
    <3>. QED BY <2>1, <3>1, <1>2
  <2>2. CASE SelectionOf(entry) = {}
    BY <2>2
  <2>. QED BY <2>1, <2>2
<1>4. next.snapshot = lapSnapshot
  BY <1>3 DEF Toggled
<1>5. selections' \subseteq selections \cup {next}
  <2>1. selections' = (selections \ {existing})
                      \cup (IF next.laps = {} THEN {} ELSE {next})
    BY DEF ToggleLap
  <2>. HIDE DEF next, existing
  <2>. QED BY <2>1
<1>. HIDE DEF next, existing
<1>6. \A s \in selections' : s.snapshot = lapSnapshot'
  BY <1>1, <1>2, <1>4, <1>5
<1>. QED BY <1>6 DEF SelectionsComparable

(* One step of the archive or of the reader. *)
LEMMA StepPreserves ==
    ASSUME SelectionsComparable, [Next]_vars
    PROVE  SelectionsComparable'
<1>1. CASE ArchiveNext /\ UNCHANGED reader
  BY <1>1 DEF SelectionsComparable, reader, workspace
<1>2. CASE UNCHANGED vars
  BY <1>2 DEF SelectionsComparable, vars, reader, workspace
<1>3. CASE Open \/ Close
  BY <1>3 DEF Open, Close, Reset, SelectionsComparable
<1>4. CASE BeginRead \/ EntryGone \/ RequestFails
  BY <1>4 DEF BeginRead, EntryGone, RequestFails, workspace, SelectionsComparable
<1>5. CASE DetailArrives \/ ResultsArrive \/ LoadMore
  BY <1>5 DEF DetailArrives, ResultsArrive, LoadMore, SelectionsComparable
<1>6. CASE LapsArrive
  <2>1. \A s \in selections' : s.snapshot = View.completed
    BY <1>6, SurvivorsAgree DEF LapsArrive
  <2>2. lapSnapshot' = None \/ lapSnapshot' = View.completed
    BY <1>6 DEF LapsArrive, RestartPages, ShowPage
  <2>. QED BY <2>1, <2>2 DEF SelectionsComparable
<1>7. ASSUME NEW id \in 1 .. lastId, SelectEntry(id)
      PROVE  SelectionsComparable'
  BY <1>7 DEF SelectEntry, SelectionsComparable
<1>8. ASSUME NEW lap \in Range(laps.items), ToggleLap(lap)
      PROVE  SelectionsComparable'
  BY <1>8, TogglePreserves
<1>9. ASSUME NEW s \in selections, ClearSelection(s)
      PROVE  SelectionsComparable'
  BY <1>9 DEF ClearSelection, SelectionsComparable
<1>. QED
  BY <1>1, <1>2, <1>3, <1>4, <1>5, <1>6, <1>7, <1>8, <1>9 DEF Next, ReaderNext

(* Laps compared with each other, and with those on screen, are of one     *)
(* snapshot of the archive (handleLapSelection and the laps effect of      *)
(* SessionExplorer.tsx).                                                   *)
THEOREM Comparable == Spec => []SelectionsComparable
<1>1. Init => SelectionsComparable
  BY DEF Init, ReaderInit, SelectionsComparable
<1>2. SelectionsComparable /\ [Next]_vars => SelectionsComparable'
  BY StepPreserves
<1>. QED BY <1>1, <1>2, PTL DEF Spec

-----------------------------------------------------------------------------
(* What the normalisation hands to the transaction. *)

Label == {Canonical[t] : t \in Spelling} \cup {None}
Key == {"driver", "car-number"} \X Label

EntryData == [key: Key, driver: Label, number: Label]
ResultData == [key: Key, position: Measure, elapsed: Measure, gap: Measure,
               behind: Measure]
LapData == [key: Key, lap: Int, time: Measure, start: Measure]

Snapshots == [drivers: SUBSET Label, entries: Seq(EntryData),
              results: Seq(ResultData), laps: Seq(LapData)]

(* One result per entry, in their order; keys, drivers and car numbers     *)
(* tell the entries apart, and every lap belongs to one of them.           *)
Proper(s) ==
    /\ s \in Snapshots
    /\ s.entries # << >>
    /\ DOMAIN s.results = DOMAIN s.entries
    /\ s.drivers = {s.entries[i].driver : i \in DOMAIN s.entries} \ {None}
    /\ \A i, j \in DOMAIN s.entries : i # j =>
        /\ s.entries[i].key # s.entries[j].key
        /\ s.entries[i].driver # None => s.entries[i].driver # s.entries[j].driver
        /\ s.entries[i].number # None => s.entries[i].number # s.entries[j].number
    /\ \A i \in DOMAIN s.results :
        /\ s.results[i].key = s.entries[i].key
        /\ AtLeast(1, s.results[i].position)
        /\ AtLeast(0, s.results[i].elapsed) /\ AtLeast(0, s.results[i].gap)
        /\ AtLeast(0, s.results[i].behind)
    /\ \A j \in DOMAIN s.laps :
        /\ \E i \in DOMAIN s.entries : s.laps[j].key = s.entries[i].key
        /\ s.laps[j].lap >= 1 /\ AtLeast(0, s.laps[j].time)
    /\ \A i, j \in DOMAIN s.laps :
        i # j => s.laps[i].key # s.laps[j].key \/ s.laps[i].lap # s.laps[j].lap

LEMMA SeqFromFunction ==
    ASSUME NEW S, NEW T, NEW q \in Seq(S), NEW F,
           F = [i \in DOMAIN q |-> F[i]],
           \A i \in DOMAIN q : F[i] \in T
    PROVE  F \in Seq(T) /\ DOMAIN F = DOMAIN q
<1>1. DOMAIN q = 1 .. Len(q) /\ Len(q) \in Nat
  OBVIOUS
<1>2. F \in [1 .. Len(q) -> T]
  BY <1>1
<1>. QED BY <1>1, <1>2

LEMMA NameType == \A text \in Text : Name(text) \in Label
  BY DEF Name, Text, Label

LEMMA KeyType ==
    ASSUME NEW row \in FeedRow
    PROVE  /\ EntryKey(row) \in Key
           /\ Driver(row) \in Label /\ Number(row) \in Label
           /\ Short(row) \in Label
<1>1. /\ Driver(row) \in Label /\ Number(row) \in Label /\ Short(row) \in Label
  BY NameType DEF FeedRow, Driver, Number, Short
<1>. QED BY <1>1 DEF EntryKey, Key

LEMMA EntriesProper ==
    ASSUME NEW rows \in Seq(FeedRow), EntriesSound(rows)
    PROVE  /\ Entries(rows) \in Seq(EntryData)
           /\ DOMAIN Entries(rows) = DOMAIN rows
           /\ Entries(rows) # << >>
           /\ \A i \in DOMAIN rows :
                /\ Entries(rows)[i].key = EntryKey(rows[i])
                /\ Entries(rows)[i].driver = Driver(rows[i])
                /\ Entries(rows)[i].number = Number(rows[i])
           /\ \A i, j \in DOMAIN rows : i # j =>
                /\ EntryKey(rows[i]) # EntryKey(rows[j])
                /\ Driver(rows[i]) # None => Driver(rows[i]) # Driver(rows[j])
                /\ Number(rows[i]) # None => Number(rows[i]) # Number(rows[j])
<1>1. \A i \in DOMAIN rows : rows[i] \in FeedRow
  OBVIOUS
<1>2. \A i \in DOMAIN rows : Entries(rows)[i] \in EntryData
  BY <1>1, KeyType DEF Entries, EntryData
<1>3. Entries(rows) \in Seq(EntryData) /\ DOMAIN Entries(rows) = DOMAIN rows
  BY <1>2, SeqFromFunction DEF Entries
<1>4. Entries(rows) # << >>
  <2>1. 1 \in DOMAIN rows
    BY DEF EntriesSound
  <2>. QED BY <1>3, <2>1
<1>5. \A i, j \in DOMAIN rows : i # j =>
        /\ Driver(rows[i]) # None => Driver(rows[i]) # Driver(rows[j])
        /\ Number(rows[i]) # None => Number(rows[i]) # Number(rows[j])
  BY DEF EntriesSound, Distinct
<1>6. \A i, j \in DOMAIN rows : i # j => EntryKey(rows[i]) # EntryKey(rows[j])
  BY <1>5 DEF EntriesSound, EntryKey
<1>. QED BY <1>3, <1>4, <1>5, <1>6 DEF Entries

LEMMA ResultsProper ==
    ASSUME NEW rows \in Seq(FeedRow), ResultsSound(rows, RaceLike)
    PROVE  LET listed == Results(rows, RaceLike)
           IN  /\ listed \in Seq(ResultData)
               /\ DOMAIN listed = DOMAIN rows
               /\ \A i \in DOMAIN rows :
                    /\ listed[i].key = EntryKey(rows[i])
                    /\ AtLeast(1, listed[i].position)
                    /\ AtLeast(0, listed[i].elapsed)
                    /\ AtLeast(0, listed[i].gap)
                    /\ AtLeast(0, listed[i].behind)
<1> DEFINE listed == Results(rows, RaceLike)
           winner == rows[CHOOSE w \in Winners(rows) : TRUE]
<1>1. \A i \in DOMAIN rows : rows[i] \in FeedRow
  OBVIOUS
<1>2. RaceLike => winner \in FeedRow
  <2>1. RaceLike => Winners(rows) # {}
    <3>1. Cardinality({}) = 0
      BY FS_EmptySet
    <3>2. RaceLike => Cardinality(Winners(rows)) = 1
      BY Zenon DEF ResultsSound
    <3>3. Winners(rows) = {} => Cardinality(Winners(rows)) = 0
      BY <3>1, Zenon
    <3>. QED BY <3>2, <3>3
  <2>. QED BY <1>1, <2>1 DEF Winners
<1> HIDE DEF winner
<1>3. ASSUME NEW i \in DOMAIN rows
      PROVE  /\ listed[i] \in ResultData
             /\ listed[i].key = EntryKey(rows[i])
             /\ AtLeast(1, listed[i].position)
             /\ AtLeast(0, listed[i].elapsed)
             /\ AtLeast(0, listed[i].gap)
             /\ AtLeast(0, listed[i].behind)
  <2>1. /\ AtLeast(1, rows[i].position) /\ AtLeast(0, rows[i].time)
        /\ rows[i].position \in Measure /\ rows[i].time \in Measure
        /\ EntryKey(rows[i]) \in Key
    BY <1>1, KeyType DEF ResultsSound, FeedRow
  <2>2. CASE RaceLike
    <3>1. listed[i] = ResultOf(rows[i], winner)
      BY <2>2 DEF Results, winner
    <3>2. /\ LapsBehind(winner, rows[i]) \in Measure
          /\ AtLeast(0, LapsBehind(winner, rows[i]))
      BY <1>1, <1>2, <2>2, MissingAssumption
      DEF LapsBehind, AtLeast, Measure, FeedRow
    <3>. QED BY <2>1, <3>1, <3>2, MissingAssumption
             DEF ResultOf, AtLeast, ResultData, Measure
  <2>3. CASE ~RaceLike
    <3>1. listed[i] = [key |-> EntryKey(rows[i]), position |-> rows[i].position,
                        elapsed |-> None, gap |-> None, behind |-> None]
      BY <2>3 DEF Results
    <3>. QED BY <2>1, <3>1 DEF AtLeast, ResultData, Measure
  <2>. QED BY <2>2, <2>3
<1>4. listed \in Seq(ResultData) /\ DOMAIN listed = DOMAIN rows
  <2>1. listed = [i \in DOMAIN rows |-> listed[i]]
    BY DEF Results
  <2> HIDE DEF listed
  <2>. QED BY <1>3, <2>1, SeqFromFunction
<1>. QED BY <1>3, <1>4

LEMMA LapsProper ==
    ASSUME NEW rows \in Seq(FeedRow), NEW driven \in Seq(FeedLap),
           LapsSound(rows, driven)
    PROVE  LET timed == Laps(rows, driven)
           IN  /\ timed \in Seq(LapData)
               /\ DOMAIN timed = DOMAIN driven
               /\ \A j \in DOMAIN timed :
                    /\ \E i \in DOMAIN rows : timed[j].key = EntryKey(rows[i])
                    /\ timed[j].lap >= 1 /\ AtLeast(0, timed[j].time)
               /\ \A i, j \in DOMAIN timed :
                    i # j => timed[i].key # timed[j].key \/ timed[i].lap # timed[j].lap
<1> DEFINE timed == Laps(rows, driven)
<1>1. ASSUME NEW j \in DOMAIN driven
      PROVE  /\ timed[j] \in LapData
             /\ timed[j].key = KeyOfLap(rows, driven[j])
             /\ timed[j].lap = driven[j].lap
             /\ \E i \in DOMAIN rows : timed[j].key = EntryKey(rows[i])
             /\ timed[j].lap >= 1 /\ AtLeast(0, timed[j].time)
  <2>1. PICK i \in DOMAIN rows : KeyOfLap(rows, driven[j]) = EntryKey(rows[i])
    BY DEF LapsSound, RowOfLap, KeyOfLap
  <2>2. driven[j] \in FeedLap /\ rows[i] \in FeedRow
    OBVIOUS
  <2>3. EntryKey(rows[i]) \in Key
    BY <2>2, KeyType
  <2>4. timed[j] = [key |-> KeyOfLap(rows, driven[j]), lap |-> driven[j].lap,
                    time |-> driven[j].time, start |-> driven[j].start]
    BY DEF Laps
  <2>5. driven[j].lap >= 1 /\ AtLeast(0, driven[j].time)
    BY DEF LapsSound
  <2> HIDE DEF timed
  <2>. QED BY <2>1, <2>2, <2>3, <2>4, <2>5 DEF LapData, FeedLap
<1>2. timed \in Seq(LapData) /\ DOMAIN timed = DOMAIN driven
  <2>1. timed = [j \in DOMAIN driven |-> timed[j]]
    BY DEF Laps
  <2> HIDE DEF timed
  <2>. QED BY <1>1, <2>1, SeqFromFunction
<1>3. \A i, j \in DOMAIN timed :
        i # j => timed[i].key # timed[j].key \/ timed[i].lap # timed[j].lap
  <2> HIDE DEF timed
  <2>. QED BY <1>1, <1>2 DEF LapsSound
<1>. QED BY <1>1, <1>2, <1>3

(* Whatever passes the normalisation is a proper snapshot ... *)
LEMMA NormalisedProper ==
    ASSUME NEW f \in Feed, Normalisable(f, RaceLike)
    PROVE  Proper(Normalised(f, RaceLike))
<1> DEFINE s == Normalised(f, RaceLike)
<1>1. f.rows \in Seq(FeedRow) /\ f.laps \in Seq(FeedLap)
  BY FeedAssumption
<1>2. EntriesSound(f.rows) /\ ResultsSound(f.rows, RaceLike)
      /\ LapsSound(f.rows, f.laps)
  BY DEF Normalisable
<1>3. /\ s.entries = Entries(f.rows)
      /\ s.results = Results(f.rows, RaceLike)
      /\ s.laps = Laps(f.rows, f.laps)
      /\ s.drivers = {Driver(f.rows[i]) : i \in DOMAIN f.rows} \ {None}
      /\ s = [drivers |-> s.drivers, entries |-> s.entries,
              results |-> s.results, laps |-> s.laps]
  BY DEF Normalised
<1> HIDE DEF s
<1>4. s.drivers = {s.entries[i].driver : i \in DOMAIN s.entries} \ {None}
  BY <1>1, <1>2, <1>3, EntriesProper
<1>5. s \in Snapshots
  <2>1. s.drivers \subseteq Label
    <3>1. \A i \in DOMAIN s.entries : s.entries[i] \in EntryData
      BY <1>1, <1>2, <1>3, EntriesProper
    <3>. QED BY <1>4, <3>1 DEF EntryData
  <2>. QED BY <1>1, <1>2, <1>3, <2>1, EntriesProper, ResultsProper, LapsProper
           DEF Snapshots
<1>6. /\ s.entries # << >>
      /\ DOMAIN s.results = DOMAIN s.entries
      /\ DOMAIN s.entries = DOMAIN f.rows
      /\ \A i \in DOMAIN f.rows : s.entries[i].key = EntryKey(f.rows[i])
  BY <1>1, <1>2, <1>3, EntriesProper, ResultsProper
<1>7. \A i, j \in DOMAIN s.entries : i # j =>
        /\ s.entries[i].key # s.entries[j].key
        /\ s.entries[i].driver # None => s.entries[i].driver # s.entries[j].driver
        /\ s.entries[i].number # None => s.entries[i].number # s.entries[j].number
  BY <1>1, <1>2, <1>3, EntriesProper
<1>8. \A i \in DOMAIN s.results :
        /\ s.results[i].key = s.entries[i].key
        /\ AtLeast(1, s.results[i].position)
        /\ AtLeast(0, s.results[i].elapsed) /\ AtLeast(0, s.results[i].gap)
        /\ AtLeast(0, s.results[i].behind)
  BY <1>1, <1>2, <1>3, <1>6, ResultsProper
<1>9. /\ \A j \in DOMAIN s.laps :
            /\ \E i \in DOMAIN s.entries : s.laps[j].key = s.entries[i].key
            /\ s.laps[j].lap >= 1 /\ AtLeast(0, s.laps[j].time)
      /\ \A i, j \in DOMAIN s.laps :
            i # j => s.laps[i].key # s.laps[j].key \/ s.laps[i].lap # s.laps[j].lap
  <2>1. \A j \in DOMAIN s.laps :
            \E i \in DOMAIN f.rows : s.laps[j].key = EntryKey(f.rows[i])
    BY <1>1, <1>2, <1>3, LapsProper
  <2>2. /\ \A j \in DOMAIN s.laps : s.laps[j].lap >= 1 /\ AtLeast(0, s.laps[j].time)
        /\ \A i, j \in DOMAIN s.laps :
            i # j => s.laps[i].key # s.laps[j].key \/ s.laps[i].lap # s.laps[j].lap
    BY <1>1, <1>2, <1>3, LapsProper
  <2>. QED BY <1>6, <2>1, <2>2
<1>10. Proper(s)
  BY <1>4, <1>5, <1>6, <1>7, <1>8, <1>9 DEF Proper
<1>. QED BY <1>10 DEF s

(* The number of records with distinct keys is the number of their keys.   *)
LEMMA DistinctKeysCounted ==
    ASSUME NEW S, NEW records \in Seq(S),
           \A i, j \in DOMAIN records : i # j => records[i].key # records[j].key
    PROVE  Cardinality(Keys(records)) = Len(records)
<1> DEFINE f == [i \in 1 .. Len(records) |-> records[i].key]
<1>1. DOMAIN records = 1 .. Len(records) /\ Len(records) \in Nat
  OBVIOUS
<1>2. f \in Bijection(1 .. Len(records), Keys(records))
  BY <1>1 DEF Bijection, Injection, Surjection, IsInjective, Keys
<1>3. ExistsBijection(1 .. Len(records), Keys(records))
  BY <1>2 DEF ExistsBijection
<1>4. IsFiniteSet(1 .. Len(records)) /\ Cardinality(1 .. Len(records)) = Len(records)
  BY <1>1, FS_Interval
<1>. QED BY <1>3, <1>4, FS_Bijection

(* ... and passes _validate_snapshot. *)
LEMMA ProperIsValid == ASSUME NEW s, Proper(s) PROVE ValidSnapshot(s)
<1>1. /\ s.entries \in Seq(EntryData) /\ s.results \in Seq(ResultData)
      /\ DOMAIN s.results = DOMAIN s.entries
      /\ \A i \in DOMAIN s.entries : s.results[i].key = s.entries[i].key
      /\ \A i, j \in DOMAIN s.entries : i # j => s.entries[i].key # s.entries[j].key
  BY DEF Proper, Snapshots
<1>2. Cardinality(Keys(s.entries)) = Len(s.entries)
  BY <1>1, DistinctKeysCounted
<1>3. Cardinality(Keys(s.results)) = Len(s.results)
  BY <1>1, DistinctKeysCounted
<1>4. Keys(s.results) = Keys(s.entries)
  BY <1>1 DEF Keys
<1>5. Keys(s.laps) \subseteq Keys(s.entries)
  BY DEF Keys, Proper
<1>. QED BY <1>2, <1>3, <1>4, <1>5 DEF ValidSnapshot, Proper

-----------------------------------------------------------------------------
(* The rows of the session, and what each statement does to them. *)

EntryRow == [id: Nat, key: Key, driver: Label, number: Label]
ResultRow == [entry: Nat, result: ResultData]
LapRow == [entry: Nat, lap: Int, time: Measure, start: Measure]
Rows == [drivers: SUBSET Label, entries: SUBSET EntryRow,
         results: SUBSET ResultRow, laps: SUBSET LapRow, completed: Nat]

LEMMA UniqueFields ==
    ASSUME NEW E, EntriesUnique(E)
    PROVE  \A e, f \in E : e # f =>
                /\ e.id # f.id /\ e.key # f.key
                /\ e.driver # None => e.driver # f.driver
                /\ e.number # None => e.number # f.number
  BY DEF EntriesUnique, Unique

LEMMA UniqueFromFields ==
    ASSUME NEW E,
           \A e, f \in E : e # f =>
                /\ e.id # f.id /\ e.key # f.key
                /\ e.driver # None => e.driver # f.driver
                /\ e.number # None => e.number # f.number
    PROVE  EntriesUnique(E)
  BY DEF EntriesUnique, Unique

LEMMA IdOfEntry ==
    ASSUME NEW rows, EntriesUnique(rows.entries), NEW e \in rows.entries
    PROVE  IdOf(rows, e.key) = e.id /\ KeyOf(rows, e.id) = e.key
  BY UniqueFields DEF IdOf, KeyOf

(* The new keys among the first i entries are numbered from 1 on. *)
LEMMA NewKeysCounted ==
    ASSUME NEW rows, NEW s, NEW n \in Nat
    PROVE  /\ Cardinality(NewKeys(rows, s, n)) \in Nat
           /\ \A i \in NewKeys(rows, s, n) :
                /\ Cardinality(NewKeys(rows, s, i)) \in 1 .. Cardinality(NewKeys(rows, s, n))
                /\ \A j \in NewKeys(rows, s, n) : i < j =>
                        Cardinality(NewKeys(rows, s, i)) < Cardinality(NewKeys(rows, s, j))
<1> DEFINE N(i) == NewKeys(rows, s, i)
<1>1. ASSUME NEW i \in Nat PROVE IsFiniteSet(N(i)) /\ Cardinality(N(i)) \in Nat
  <2>1. N(i) \subseteq 1 .. i
    BY DEF NewKeys
  <2>2. IsFiniteSet(1 .. i)
    BY FS_Interval
  <2>. QED BY <2>1, <2>2, FS_Subset, FS_CardinalityType
<1>2. \A i, j \in Nat : i <= j => N(i) \subseteq N(j)
  BY DEF NewKeys
<1>3. \A i \in N(n) : i \in Nat /\ i <= n /\ i \in N(i) /\ \A k \in N(i) : k <= i
  BY DEF NewKeys
<1> HIDE DEF N
<1>4. ASSUME NEW i \in Nat, NEW j \in Nat, i <= j
      PROVE  /\ Cardinality(N(i)) <= Cardinality(N(j))
             /\ N(i) # N(j) => Cardinality(N(i)) < Cardinality(N(j))
  BY <1>1, <1>2, <1>4, FS_Subset
<1>5. ASSUME NEW i \in N(n)
      PROVE  Cardinality(N(i)) \in 1 .. Cardinality(N(n))
  <2>1. Cardinality(N(i)) # 0
    BY <1>1, <1>3, FS_EmptySet
  <2>2. Cardinality(N(i)) <= Cardinality(N(n))
    BY <1>3, <1>4
  <2>. QED BY <1>1, <1>3, <2>1, <2>2
<1>6. ASSUME NEW i \in N(n), NEW j \in N(n), i < j
      PROVE  Cardinality(N(i)) < Cardinality(N(j))
  <2>1. N(i) # N(j)
    BY <1>3, <1>6
  <2>. QED BY <1>3, <1>4, <1>6, <2>1
<1>. QED BY <1>1, <1>5, <1>6 DEF N

(* The entries as the n-th row of the upsert finds them: every entry of    *)
(* before under its id, the first n of the snapshot complete, the rest     *)
(* without driver and number, and no value twice.                          *)
LEMMA UpsertedSound ==
    ASSUME NEW rows \in Rows, NEW s, Proper(s), lastId \in Nat,
           EntriesUnique(rows.entries),
           \A e \in rows.entries : e.id <= lastId /\ e.driver = None /\ e.number = None,
           NEW n \in DOMAIN s.entries
    PROVE  LET U == UpsertedEntries(rows, s, n)
           IN  /\ U \subseteq EntryRow
               /\ EntriesUnique(U)
               /\ \A e \in rows.entries : \E u \in U : u.id = e.id /\ u.key = e.key
               /\ \A i \in 1 .. n : \E u \in U :
                    /\ u.key = s.entries[i].key /\ u.driver = s.entries[i].driver
                    /\ u.number = s.entries[i].number
               /\ \A u \in U : u.id <= lastId + Cardinality(NewKeys(rows, s, n))
               /\ \A u \in U : u.driver \in s.drivers \cup {None}
<1> DEFINE N == NewKeys(rows, s, n)
           Id(i) == IF i \in N THEN lastId + Cardinality(NewKeys(rows, s, i))
                    ELSE IdOf(rows, s.entries[i].key)
           Put(i) == [id |-> Id(i), key |-> s.entries[i].key,
                      driver |-> s.entries[i].driver,
                      number |-> s.entries[i].number]
           U == UpsertedEntries(rows, s, n)
<1>1. U = {e \in rows.entries : \A i \in 1 .. n : e.key # s.entries[i].key}
          \cup {Put(i) : i \in 1 .. n}
  BY DEF UpsertedEntries
<1>2. /\ n \in Nat /\ 1 .. n \subseteq DOMAIN s.entries
      /\ \A i \in 1 .. n : s.entries[i] \in EntryData
      /\ rows.entries \subseteq EntryRow
  BY DEF Proper, Snapshots, Rows
<1>3. \A i \in N : i \in 1 .. n /\ \A e \in rows.entries : e.key # s.entries[i].key
  BY DEF NewKeys
<1>4. ASSUME NEW i \in 1 .. n, i \notin N
      PROVE  \E e \in rows.entries : e.key = s.entries[i].key /\ Id(i) = e.id
  <2>1. PICK e \in rows.entries : e.key = s.entries[i].key
    BY <1>4 DEF NewKeys
  <2>2. IdOf(rows, e.key) = e.id
    BY IdOfEntry
  <2>. QED BY <1>4, <2>1, <2>2
<1>5. Cardinality(N) \in Nat
  BY <1>2, NewKeysCounted
<1>6. ASSUME NEW i \in N
      PROVE  Id(i) \in Nat /\ lastId < Id(i) /\ Id(i) <= lastId + Cardinality(N)
  BY <1>2, <1>5, NewKeysCounted
<1>7. ASSUME NEW i \in 1 .. n, NEW j \in 1 .. n, i # j PROVE Id(i) # Id(j)
  <2>1. s.entries[i].key # s.entries[j].key
    BY <1>2, <1>7 DEF Proper
  <2>2. CASE i \in N /\ j \in N
    <3>1. /\ Cardinality(NewKeys(rows, s, i)) \in Nat
          /\ Cardinality(NewKeys(rows, s, j)) \in Nat
      BY NewKeysCounted
    <3>2. /\ i < j => Cardinality(NewKeys(rows, s, i)) < Cardinality(NewKeys(rows, s, j))
          /\ j < i => Cardinality(NewKeys(rows, s, j)) < Cardinality(NewKeys(rows, s, i))
      BY <1>2, <2>2, NewKeysCounted
    <3>. QED BY <1>7, <2>2, <3>1, <3>2
  <2>3. CASE i \notin N /\ j \notin N
    <3> HIDE DEF Id
    <3>. QED BY <1>4, <2>1, <2>3, UniqueFields
  <2>4. CASE i \in N <=> j \notin N
    <3> HIDE DEF Id, N
    <3>. QED BY <1>2, <1>4, <1>6, <2>4 DEF EntryRow
  <2>. QED BY <2>2, <2>3, <2>4
<1> HIDE DEF Id, N, U
<1>8. ASSUME NEW i \in 1 .. n
      PROVE  /\ Id(i) \in Nat /\ Id(i) <= lastId + Cardinality(N)
             /\ \A e \in rows.entries : e.key = s.entries[i].key <=> e.id = Id(i)
  BY <1>2, <1>3, <1>4, <1>5, <1>6, UniqueFields DEF EntryRow
<1>9. U \subseteq EntryRow
  BY <1>1, <1>2, <1>8 DEF EntryRow, EntryData
<1>10. EntriesUnique(U)
  <2> SUFFICES ASSUME NEW e \in U, NEW f \in U, e # f
               PROVE  /\ e.id # f.id /\ e.key # f.key
                      /\ e.driver # None => e.driver # f.driver
                      /\ e.number # None => e.number # f.number
    BY UniqueFromFields
  <2> DEFINE Old(x) == /\ x \in rows.entries
                       /\ \A i \in 1 .. n : x.key # s.entries[i].key
  <2>1. (Old(e) \/ \E i \in 1 .. n : e = Put(i))
        /\ (Old(f) \/ \E i \in 1 .. n : f = Put(i))
    BY <1>1
  <2>2. CASE Old(e) /\ Old(f)
    BY <2>2, UniqueFields
  <2>3. ASSUME NEW i \in 1 .. n, e = Put(i), Old(f)
        PROVE  e.id # f.id /\ e.key # f.key /\ f.driver = None /\ f.number = None
    BY <1>8, <2>3
  <2>4. ASSUME NEW i \in 1 .. n, f = Put(i), Old(e)
        PROVE  e.id # f.id /\ e.key # f.key /\ e.driver = None /\ e.number = None
    BY <1>8, <2>4
  <2>5. ASSUME NEW i \in 1 .. n, NEW j \in 1 .. n, e = Put(i), f = Put(j)
        PROVE  /\ e.id # f.id /\ e.key # f.key
               /\ e.driver # None => e.driver # f.driver
               /\ e.number # None => e.number # f.number
    <3>1. i # j
      BY <2>5
    <3>. QED BY <1>2, <1>7, <2>5, <3>1 DEF Proper
  <2> HIDE DEF Old, Put
  <2>. QED BY <2>1, <2>2, <2>3, <2>4, <2>5
<1>11. ASSUME NEW e \in rows.entries
       PROVE  \E u \in U : u.id = e.id /\ u.key = e.key
  <2>1. CASE \A i \in 1 .. n : e.key # s.entries[i].key
    BY <1>1, <2>1
  <2>2. ASSUME NEW i \in 1 .. n, e.key = s.entries[i].key
        PROVE  Put(i) \in U /\ Put(i).id = e.id /\ Put(i).key = e.key
    BY <1>1, <1>8, <2>2
  <2>. QED BY <2>1, <2>2
<1>12. ASSUME NEW i \in 1 .. n
       PROVE  \E u \in U :
                /\ u.key = s.entries[i].key /\ u.driver = s.entries[i].driver
                /\ u.number = s.entries[i].number
  <2>1. Put(i) \in U
    BY <1>1
  <2>. QED BY <2>1
<1>13. ASSUME NEW u \in U
       PROVE  /\ u.id <= lastId + Cardinality(N)
              /\ u.driver \in s.drivers \cup {None}
  <2>1. CASE u \in rows.entries
    BY <1>2, <1>5, <2>1 DEF EntryRow
  <2>2. ASSUME NEW i \in 1 .. n, u = Put(i)
        PROVE  /\ u.id <= lastId + Cardinality(N)
               /\ u.driver \in s.drivers \cup {None}
    BY <1>2, <1>8, <2>2 DEF Proper
  <2>. QED BY <1>1, <2>1, <2>2
<1>. QED BY <1>9, <1>10, <1>11, <1>12, <1>13 DEF U, N

-----------------------------------------------------------------------------
(* Sound, one row at a time. *)

SoundRows(rows) ==
    /\ \A e, f \in rows.entries : e # f =>
        /\ e.id # f.id /\ e.key # f.key
        /\ e.driver # None => e.driver # f.driver
        /\ e.number # None => e.number # f.number
    /\ \A e \in rows.entries : e.driver # None => e.driver \in rows.drivers
    /\ \A r \in rows.results :
        /\ \E e \in rows.entries : e.id = r.entry
        /\ AtLeast(1, r.result.position) /\ AtLeast(0, r.result.elapsed)
        /\ AtLeast(0, r.result.gap) /\ AtLeast(0, r.result.behind)
    /\ \A r, q \in rows.results : r.entry = q.entry => r = q
    /\ \A l \in rows.laps :
        /\ \E e \in rows.entries : e.id = l.entry
        /\ l.lap >= 1 /\ AtLeast(0, l.time)
    /\ \A l, m \in rows.laps : l.entry = m.entry /\ l.lap = m.lap => l = m

LEMMA SoundByRow == ASSUME NEW rows PROVE Sound(rows) <=> SoundRows(rows)
<1>1. EntriesUnique(rows.entries) <=>
        \A e, f \in rows.entries : e # f =>
            /\ e.id # f.id /\ e.key # f.key
            /\ e.driver # None => e.driver # f.driver
            /\ e.number # None => e.number # f.number
  BY UniqueFields, UniqueFromFields
<1>2. References(rows) <=>
        /\ \A e \in rows.entries : e.driver # None => e.driver \in rows.drivers
        /\ \A r \in rows.results : \E e \in rows.entries : e.id = r.entry
        /\ \A l \in rows.laps : \E e \in rows.entries : e.id = l.entry
  BY DEF References
<1>3. Checked(rows) <=>
        /\ \A r \in rows.results :
            /\ AtLeast(1, r.result.position) /\ AtLeast(0, r.result.elapsed)
            /\ AtLeast(0, r.result.gap) /\ AtLeast(0, r.result.behind)
        /\ \A l \in rows.laps : l.lap >= 1 /\ AtLeast(0, l.time)
  BY DEF Checked
<1>. QED BY <1>1, <1>2, <1>3 DEF Sound, SoundRows

(* Rows the database accepts, with ids drawn so far.                       *)
Stored(rows, last) ==
    /\ rows \in Rows
    /\ SoundRows(rows)
    /\ \A e \in rows.entries : e.id <= last

(* No entry of base is gone or has another id. *)
Keeps(base, rows) ==
    \A c \in base.entries : \E e \in rows.entries : e.id = c.id /\ e.key = c.key

(* The rows of the snapshot are there ... *)
HasEntries(rows, s) ==
    \A i \in DOMAIN s.entries : \E e \in rows.entries :
        /\ e.key = s.entries[i].key /\ e.driver = s.entries[i].driver
        /\ e.number = s.entries[i].number

HasResults(rows, s) ==
    \A i \in DOMAIN s.results :
        [entry |-> IdOf(rows, s.results[i].key), result |-> s.results[i]]
            \in rows.results

LapRowOf(rows, lap) ==
    [entry |-> IdOf(rows, lap.key), lap |-> lap.lap, time |-> lap.time,
     start |-> lap.start]

HasLaps(rows, s, b) ==
    \A j \in DOMAIN s.laps :
        (j - 1) \div BatchSize < b => LapRowOf(rows, s.laps[j]) \in rows.laps

(* ... and no others.                                                      *)
OnlyEntries(rows, s) ==
    \A e \in rows.entries : \E i \in DOMAIN s.entries : e.key = s.entries[i].key

OnlyResults(rows, s) ==
    \A r \in rows.results : \E i \in DOMAIN s.results :
        r.entry = IdOf(rows, s.results[i].key)

OnlyLaps(rows, s) ==
    \A l \in rows.laps : \E j \in DOMAIN s.laps :
        l.entry = IdOf(rows, s.laps[j].key) /\ l.lap = s.laps[j].lap

LEMMA IdOfKept ==
    ASSUME NEW rows, SoundRows(rows), NEW e \in rows.entries
    PROVE  IdOf(rows, e.key) = e.id /\ KeyOf(rows, e.id) = e.key
  BY IdOfEntry, UniqueFromFields DEF SoundRows

LEMMA IdOfSameEntries ==
    ASSUME NEW rows, NEW new, new.entries = rows.entries
    PROVE  \A k : IdOf(new, k) = IdOf(rows, k)
  BY DEF IdOf

(* An entry of the snapshot has an id, a different one for each key.       *)
LEMMA IdsOfSnapshot ==
    ASSUME NEW rows \in Rows, SoundRows(rows), NEW s, HasEntries(rows, s)
    PROVE  /\ \A i \in DOMAIN s.entries : \E e \in rows.entries :
                e.key = s.entries[i].key /\ e.id = IdOf(rows, s.entries[i].key)
           /\ \A i \in DOMAIN s.entries : IdOf(rows, s.entries[i].key) \in Nat
           /\ \A i, j \in DOMAIN s.entries :
                IdOf(rows, s.entries[i].key) = IdOf(rows, s.entries[j].key)
                    => s.entries[i].key = s.entries[j].key
<1>1. \A i \in DOMAIN s.entries : \E e \in rows.entries :
        e.key = s.entries[i].key /\ e.id = IdOf(rows, s.entries[i].key)
  BY IdOfKept DEF HasEntries
<1>2. rows.entries \subseteq EntryRow
  BY DEF Rows
<1>. QED BY <1>1, <1>2 DEF SoundRows, EntryRow

LEMMA DriversStored ==
    ASSUME NEW rows, NEW s, NEW last, Stored(rows, last), Proper(s)
    PROVE  LET new == UpsertDrivers(rows, s)
           IN  /\ Stored(new, last)
               /\ new.entries = rows.entries /\ new.completed = rows.completed
               /\ s.drivers \subseteq new.drivers
<1> DEFINE new == UpsertDrivers(rows, s)
<1>1. s.drivers \subseteq Label
  BY DEF Proper, Snapshots
<1>2. /\ new \in Rows
      /\ new.drivers = rows.drivers \cup s.drivers
      /\ new.entries = rows.entries /\ new.results = rows.results
      /\ new.laps = rows.laps /\ new.completed = rows.completed
  BY <1>1 DEF UpsertDrivers, Stored, Rows
<1> HIDE DEF new
<1>3. SoundRows(new)
  BY <1>2 DEF Stored, SoundRows
<1>4. Stored(new, last) /\ s.drivers \subseteq new.drivers
  BY <1>2, <1>3 DEF Stored
<1>. QED BY <1>2, <1>4 DEF new

LEMMA ClearStored ==
    ASSUME NEW rows, NEW s, NEW last, Stored(rows, last)
    PROVE  LET new == ClearUniqueValues(rows, s)
           IN  /\ Stored(new, last)
               /\ Keeps(rows, new)
               /\ new.drivers = rows.drivers /\ new.completed = rows.completed
               /\ \A e \in new.entries : e.driver = None /\ e.number = None
<1> DEFINE Cleared(e) ==
              [id |-> e.id, key |-> e.key, driver |-> None, number |-> None]
           new == ClearUniqueValues(rows, s)
<1>1. rows.entries \subseteq EntryRow
  BY DEF Stored, Rows
<1>2. \A e \in rows.entries : Cleared(e) \in EntryRow
  BY <1>1 DEF EntryRow, Label
<1>3. /\ new \in Rows
      /\ new.entries = {Cleared(e) : e \in rows.entries}
      /\ new.drivers = rows.drivers /\ new.results = rows.results
      /\ new.laps = rows.laps /\ new.completed = rows.completed
  BY <1>2 DEF ClearUniqueValues, Stored, Rows
<1> HIDE DEF new
<1>4. /\ \A e \in rows.entries : \E f \in new.entries : f.id = e.id /\ f.key = e.key
      /\ \A f \in new.entries :
            /\ f.driver = None /\ f.number = None
            /\ \E e \in rows.entries : f = Cleared(e) /\ f.id = e.id /\ f.key = e.key
  <2>1. \A e \in rows.entries : /\ Cleared(e) \in new.entries
                                /\ Cleared(e).id = e.id /\ Cleared(e).key = e.key
                                /\ Cleared(e).driver = None /\ Cleared(e).number = None
    BY <1>3
  <2>2. \A f \in new.entries : \E e \in rows.entries : f = Cleared(e)
    BY <1>3
  <2> HIDE DEF Cleared
  <2>. QED BY <2>1, <2>2
<1> HIDE DEF Cleared
<1>5. SoundRows(new)
  <2>1. \A e, f \in new.entries : e # f => e.id # f.id /\ e.key # f.key
    BY <1>4 DEF Stored, SoundRows
  <2>2. /\ \A r \in new.results : \E e \in new.entries : e.id = r.entry
        /\ \A l \in new.laps : \E e \in new.entries : e.id = l.entry
    BY <1>3, <1>4 DEF Stored, SoundRows
  <2>. QED BY <1>3, <1>4, <2>1, <2>2 DEF Stored, SoundRows
<1>6. Stored(new, last) /\ Keeps(rows, new)
  BY <1>3, <1>4, <1>5 DEF Stored, Keeps
<1>. QED BY <1>3, <1>4, <1>6 DEF new

LEMMA EntriesStored ==
    ASSUME NEW rows, NEW s, Stored(rows, lastId), Proper(s), lastId \in Nat,
           s.drivers \subseteq rows.drivers,
           \A e \in rows.entries : e.driver = None /\ e.number = None
    PROVE  LET new == UpsertEntries(rows, s)
               drawn == Cardinality(NewKeys(rows, s, Len(s.entries)))
           IN  /\ EntriesAccepted(rows, s)
               /\ drawn \in Nat
               /\ Stored(new, lastId + drawn)
               /\ Keeps(rows, new) /\ new.completed = rows.completed
               /\ HasEntries(new, s)
<1> DEFINE new == UpsertEntries(rows, s)
           n == Len(s.entries)
           drawn == Cardinality(NewKeys(rows, s, n))
<1>1. rows \in Rows /\ EntriesUnique(rows.entries)
  BY UniqueFromFields DEF Stored, SoundRows
<1>2. n \in DOMAIN s.entries /\ n \in Nat /\ DOMAIN s.entries = 1 .. n
  BY DEF Proper, Snapshots
<1>3. EntriesAccepted(rows, s)
  BY <1>1, UpsertedSound DEF EntriesAccepted, Stored
<1>4. drawn \in Nat
  BY <1>2, NewKeysCounted
<1> DEFINE U == UpsertedEntries(rows, s, n)
<1>5. /\ U \subseteq EntryRow
      /\ EntriesUnique(U)
      /\ \A e \in rows.entries : \E u \in U : u.id = e.id /\ u.key = e.key
      /\ \A i \in 1 .. n : \E u \in U :
            /\ u.key = s.entries[i].key /\ u.driver = s.entries[i].driver
            /\ u.number = s.entries[i].number
      /\ \A u \in U : u.id <= lastId + drawn
      /\ \A u \in U : u.driver \in s.drivers \cup {None}
  BY <1>1, <1>2, UpsertedSound DEF Stored
<1> HIDE DEF U
<1>6. /\ new \in Rows /\ new.entries = U
      /\ new.drivers = rows.drivers /\ new.results = rows.results
      /\ new.laps = rows.laps /\ new.completed = rows.completed
  BY <1>1, <1>5 DEF UpsertEntries, Rows, U
<1> HIDE DEF new, drawn
<1>7. SoundRows(new)
  <2>1. \A e, f \in new.entries : e # f =>
        /\ e.id # f.id /\ e.key # f.key
        /\ e.driver # None => e.driver # f.driver
        /\ e.number # None => e.number # f.number
    BY <1>5, <1>6, UniqueFields
  <2>2. /\ \A r \in new.results : \E e \in new.entries : e.id = r.entry
        /\ \A l \in new.laps : \E e \in new.entries : e.id = l.entry
    BY <1>5, <1>6 DEF Stored, SoundRows
  <2>3. \A e \in new.entries : e.driver # None => e.driver \in new.drivers
    BY <1>5, <1>6
  <2>. QED BY <1>6, <2>1, <2>2, <2>3 DEF Stored, SoundRows
<1>8. Stored(new, lastId + drawn)
  BY <1>5, <1>6, <1>7 DEF Stored
<1>9. Keeps(rows, new) /\ HasEntries(new, s)
  BY <1>2, <1>5, <1>6 DEF Keeps, HasEntries
<1>. QED BY <1>3, <1>4, <1>6, <1>8, <1>9 DEF new, drawn

LEMMA ResultsStored ==
    ASSUME NEW rows, NEW s, NEW last, Stored(rows, last), Proper(s),
           HasEntries(rows, s)
    PROVE  LET new == UpsertResults(rows, s)
           IN  /\ Stored(new, last)
               /\ new.entries = rows.entries /\ new.completed = rows.completed
               /\ HasResults(new, s)
<1> DEFINE Put(i) == [entry |-> IdOf(rows, s.results[i].key),
                      result |-> s.results[i]]
           put == {Put(i) : i \in DOMAIN s.results}
           kept == {r \in rows.results : \A q \in put : q.entry # r.entry}
           new == UpsertResults(rows, s)
<1>1. /\ DOMAIN s.results = DOMAIN s.entries
      /\ \A i \in DOMAIN s.results :
            s.results[i] \in ResultData /\ s.results[i].key = s.entries[i].key
  BY DEF Proper, Snapshots
<1>2. rows \in Rows /\ SoundRows(rows)
  BY DEF Stored
<1>3. \A i \in DOMAIN s.results :
        /\ Put(i) \in ResultRow
        /\ Put(i).result = s.results[i]
        /\ \E e \in rows.entries : e.id = Put(i).entry
  BY <1>1, <1>2, IdsOfSnapshot DEF ResultRow
<1>4. \A i, j \in DOMAIN s.results : Put(i).entry = Put(j).entry => i = j
  <2>1. \A i, j \in DOMAIN s.entries :
            s.entries[i].key = s.entries[j].key => i = j
    BY DEF Proper
  <2>. QED BY <1>1, <1>2, <2>1, IdsOfSnapshot
<1>5. /\ new \in Rows /\ new.results = kept \cup put
      /\ new.entries = rows.entries /\ new.drivers = rows.drivers
      /\ new.laps = rows.laps /\ new.completed = rows.completed
  BY <1>2, <1>3 DEF UpsertResults, Rows
<1> HIDE DEF new, Put
<1>6. SoundRows(new)
  <2>1. \A r \in new.results :
            /\ \E e \in rows.entries : e.id = r.entry
            /\ AtLeast(1, r.result.position) /\ AtLeast(0, r.result.elapsed)
            /\ AtLeast(0, r.result.gap) /\ AtLeast(0, r.result.behind)
    BY <1>2, <1>3, <1>5 DEF SoundRows, Proper
  <2>2. \A r, q \in new.results : r.entry = q.entry => r = q
    <3>1. \A r, q \in put : r.entry = q.entry => r = q
      BY <1>4
    <3>2. \A r, q \in kept : r.entry = q.entry => r = q
      BY <1>2 DEF SoundRows
    <3>3. \A r \in kept, q \in put : r.entry # q.entry
      OBVIOUS
    <3> HIDE DEF kept, put
    <3>. QED BY <1>5, <3>1, <3>2, <3>3
  <2>. QED BY <1>2, <1>5, <2>1, <2>2 DEF SoundRows
<1>7. Stored(new, last)
  BY <1>5, <1>6 DEF Stored
<1>8. HasResults(new, s)
  BY <1>5, IdOfSameEntries DEF HasResults, Put
<1>. QED BY <1>5, <1>7, <1>8 DEF new

LEMMA LapKeys ==
    ASSUME NEW rows, SoundRows(rows), rows \in Rows, NEW s, Proper(s),
           HasEntries(rows, s)
    PROVE  /\ \A j \in DOMAIN s.laps :
                /\ LapRowOf(rows, s.laps[j]) \in LapRow
                /\ LapRowOf(rows, s.laps[j]).entry = IdOf(rows, s.laps[j].key)
                /\ LapRowOf(rows, s.laps[j]).lap = s.laps[j].lap
                /\ LapRowOf(rows, s.laps[j]).time = s.laps[j].time
                /\ \E e \in rows.entries :
                        e.id = IdOf(rows, s.laps[j].key) /\ e.key = s.laps[j].key
           /\ \A i, j \in DOMAIN s.laps :
                /\ IdOf(rows, s.laps[i].key) = IdOf(rows, s.laps[j].key)
                /\ s.laps[i].lap = s.laps[j].lap
                => i = j
<1>1. \A j \in DOMAIN s.laps : s.laps[j] \in LapData
  BY DEF Proper, Snapshots
<1>2. \A j \in DOMAIN s.laps : \E i \in DOMAIN s.entries :
        s.laps[j].key = s.entries[i].key
  BY DEF Proper
<1>3. \A j \in DOMAIN s.laps :
        /\ IdOf(rows, s.laps[j].key) \in Nat
        /\ \E e \in rows.entries :
                e.id = IdOf(rows, s.laps[j].key) /\ e.key = s.laps[j].key
  BY <1>2, IdsOfSnapshot
<1>4. \A i, j \in DOMAIN s.laps :
        IdOf(rows, s.laps[i].key) = IdOf(rows, s.laps[j].key)
            => s.laps[i].key = s.laps[j].key
  BY <1>2, IdsOfSnapshot
<1>5. \A i, j \in DOMAIN s.laps :
        s.laps[i].key = s.laps[j].key /\ s.laps[i].lap = s.laps[j].lap => i = j
  BY DEF Proper
<1>. QED BY <1>1, <1>3, <1>4, <1>5 DEF LapRowOf, LapRow, LapData

(* One batch of laps; after the b-th, the laps of the first b are there.   *)
LEMMA LapsStored ==
    ASSUME NEW rows, NEW s, NEW last, NEW b \in Nat, Stored(rows, last),
           Proper(s), HasEntries(rows, s), HasLaps(rows, s, b)
    PROVE  LET new == UpsertLaps(rows, s, b + 1)
           IN  /\ Stored(new, last)
               /\ new.entries = rows.entries /\ new.completed = rows.completed
               /\ new.results = rows.results
               /\ HasLaps(new, s, b + 1)
<1> DEFINE in == {j \in DOMAIN s.laps : (j - 1) \div BatchSize = (b + 1) - 1}
           put == {LapRowOf(rows, s.laps[j]) : j \in in}
           kept == {l \in rows.laps : \A m \in put : m.entry # l.entry \/ m.lap # l.lap}
           new == UpsertLaps(rows, s, b + 1)
<1>1. rows \in Rows /\ SoundRows(rows)
  BY DEF Stored
<1>2. put \subseteq LapRow
  BY <1>1, LapKeys
<1>3. /\ new \in Rows /\ new.laps = kept \cup put
      /\ new.entries = rows.entries /\ new.drivers = rows.drivers
      /\ new.results = rows.results /\ new.completed = rows.completed
  <2>1. new = [rows EXCEPT !.laps = kept \cup put]
    BY DEF UpsertLaps, LapRowOf
  <2> HIDE DEF new, put
  <2>. QED BY <1>1, <1>2, <2>1 DEF Rows
<1>4. \A m \in put : \E j \in DOMAIN s.laps : m = LapRowOf(rows, s.laps[j])
  OBVIOUS
<1>5. \A l, m \in put : l.entry = m.entry /\ l.lap = m.lap => l = m
  BY <1>1, <1>4, LapKeys
<1>6. \A l \in kept, m \in put : l.entry # m.entry \/ l.lap # m.lap
  OBVIOUS
<1> HIDE DEF new
<1>7. SoundRows(new)
  <2>1. \A l, m \in new.laps : l.entry = m.entry /\ l.lap = m.lap => l = m
    <3>1. \A l, m \in kept : l.entry = m.entry /\ l.lap = m.lap => l = m
      BY <1>1 DEF SoundRows
    <3> HIDE DEF kept, put
    <3>. QED BY <1>3, <1>5, <1>6, <3>1
  <2>2. \A m \in put : /\ \E e \in rows.entries : e.id = m.entry
                       /\ m.lap >= 1 /\ AtLeast(0, m.time)
    <3> SUFFICES ASSUME NEW m \in put
                 PROVE  /\ \E e \in rows.entries : e.id = m.entry
                        /\ m.lap >= 1 /\ AtLeast(0, m.time)
      OBVIOUS
    <3>1. PICK j \in DOMAIN s.laps : m = LapRowOf(rows, s.laps[j])
      BY <1>4
    <3> HIDE DEF put
    <3>2. /\ m.entry = IdOf(rows, s.laps[j].key) /\ m.lap = s.laps[j].lap
          /\ m.time = s.laps[j].time
          /\ \E e \in rows.entries : e.id = IdOf(rows, s.laps[j].key)
      BY <1>1, <3>1, LapKeys
    <3>3. s.laps[j].lap >= 1 /\ AtLeast(0, s.laps[j].time)
      BY DEF Proper
    <3>. QED BY <3>2, <3>3
  <2>3. \A l \in kept : /\ \E e \in rows.entries : e.id = l.entry
                        /\ l.lap >= 1 /\ AtLeast(0, l.time)
    BY <1>1 DEF SoundRows
  <2> HIDE DEF kept, put
  <2>. QED BY <1>1, <1>3, <2>1, <2>2, <2>3 DEF SoundRows
<1>8. Stored(new, last)
  BY <1>3, <1>7 DEF Stored
<1>9. HasLaps(new, s, b + 1)
  <2>0. \A lap : LapRowOf(new, lap) = LapRowOf(rows, lap)
    <3>1. new.entries = rows.entries
      BY <1>3
    <3>. QED BY <3>1, IdOfSameEntries DEF LapRowOf
  <2> SUFFICES ASSUME NEW j \in DOMAIN s.laps, (j - 1) \div BatchSize < b + 1
               PROVE  LapRowOf(rows, s.laps[j]) \in new.laps
    BY <2>0 DEF HasLaps
  <2>1. CASE j \in in
    <3>1. LapRowOf(rows, s.laps[j]) \in put
      BY <2>1
    <3> HIDE DEF put, kept
    <3>. QED BY <1>3, <3>1
  <2>2. CASE j \notin in
    <3>1. j - 1 \in Int /\ BatchSize \in Nat \ {0}
      BY ReplacementAssumption DEF Proper, Snapshots
    <3>2. (j - 1) \div BatchSize \in Int
      BY <3>1
    <3>3. (j - 1) \div BatchSize < b
      BY <2>2, <3>2
    <3>4. LapRowOf(rows, s.laps[j]) \in rows.laps
      BY <3>3 DEF HasLaps
    <3>5. CASE \E m \in put : /\ m.entry = LapRowOf(rows, s.laps[j]).entry
                              /\ m.lap = LapRowOf(rows, s.laps[j]).lap
      <4>1. PICK i \in in : /\ LapRowOf(rows, s.laps[i]).entry
                                    = LapRowOf(rows, s.laps[j]).entry
                            /\ LapRowOf(rows, s.laps[i]).lap
                                    = LapRowOf(rows, s.laps[j]).lap
        BY <3>5
      <4>2. i = j
        BY <1>1, <4>1, LapKeys
      <4>. QED BY <2>2, <4>2
    <3>6. CASE ~ \E m \in put : /\ m.entry = LapRowOf(rows, s.laps[j]).entry
                                /\ m.lap = LapRowOf(rows, s.laps[j]).lap
      <4> HIDE DEF put
      <4>. QED BY <1>3, <3>4, <3>6
    <3>. QED BY <3>5, <3>6
  <2>. QED BY <2>1, <2>2
<1>. QED BY <1>3, <1>8, <1>9 DEF new

LEMMA BatchArithmetic ==
    ASSUME NEW n \in Nat, NEW j \in 1 .. n, NEW size \in Nat \ {0}
    PROVE  (j - 1) \div size < (n + size - 1) \div size
<1> DEFINE q == (n + size - 1) \div size
           p == (j - 1) \div size
<1>1. q \in Int /\ n + size - 1 < size * q + size
  OBVIOUS
<1>2. p \in Int /\ size * p <= j - 1
  OBVIOUS
<1> HIDE DEF p, q
<1>3. size * p < size * q
  BY <1>1, <1>2
<1>4. p < q
  BY <1>1, <1>2, <1>3
<1>. QED BY <1>4 DEF p, q

(* After the last batch every lap of the snapshot is there. *)
LEMMA AllBatches ==
    ASSUME NEW rows, NEW s, Proper(s), HasLaps(rows, s, Batches(s))
    PROVE  \A j \in DOMAIN s.laps : LapRowOf(rows, s.laps[j]) \in rows.laps
<1>1. DOMAIN s.laps = 1 .. Len(s.laps) /\ Len(s.laps) \in Nat
  BY DEF Proper, Snapshots
<1>2. \A j \in DOMAIN s.laps : (j - 1) \div BatchSize < Batches(s)
  BY <1>1, BatchArithmetic, ReplacementAssumption DEF Batches
<1>. QED BY <1>2 DEF HasLaps

LEMMA LapsDropped ==
    ASSUME NEW rows, NEW s, NEW last, Stored(rows, last), Proper(s),
           HasEntries(rows, s), HasLaps(rows, s, Batches(s))
    PROVE  LET new == DeleteStaleLaps(rows, s)
           IN  /\ Stored(new, last)
               /\ new.entries = rows.entries /\ new.completed = rows.completed
               /\ new.results = rows.results
               /\ OnlyLaps(new, s)
               /\ \A j \in DOMAIN s.laps : LapRowOf(new, s.laps[j]) \in new.laps
<1> DEFINE new == DeleteStaleLaps(rows, s)
<1>1. rows \in Rows /\ SoundRows(rows)
  BY DEF Stored
<1>2. /\ new \in Rows
      /\ new.laps = {l \in rows.laps : \E j \in DOMAIN s.laps :
                        l.entry = IdOf(rows, s.laps[j].key) /\ l.lap = s.laps[j].lap}
      /\ new.entries = rows.entries /\ new.drivers = rows.drivers
      /\ new.results = rows.results /\ new.completed = rows.completed
  BY <1>1 DEF DeleteStaleLaps, Rows
<1> HIDE DEF new
<1>3. \A k : IdOf(new, k) = IdOf(rows, k)
  BY <1>2, IdOfSameEntries
<1>4. SoundRows(new)
  BY <1>1, <1>2 DEF SoundRows
<1>5. OnlyLaps(new, s)
  BY <1>2, <1>3 DEF OnlyLaps
<1>6. \A j \in DOMAIN s.laps : LapRowOf(new, s.laps[j]) \in new.laps
  <2> SUFFICES ASSUME NEW j \in DOMAIN s.laps
               PROVE  LapRowOf(new, s.laps[j]) \in new.laps
    OBVIOUS
  <2>1. PICK l : l = LapRowOf(rows, s.laps[j])
    OBVIOUS
  <2>2. l \in rows.laps
    BY <2>1, AllBatches
  <2>3. l.entry = IdOf(rows, s.laps[j].key) /\ l.lap = s.laps[j].lap
    BY <1>1, <2>1, LapKeys
  <2>4. LapRowOf(new, s.laps[j]) = l
    BY <1>3, <2>1 DEF LapRowOf
  <2>. QED BY <1>2, <2>2, <2>3, <2>4
<1>7. Stored(new, last)
  BY <1>2, <1>4 DEF Stored
<1>. QED BY <1>2, <1>5, <1>6, <1>7 DEF new

LEMMA ResultsDropped ==
    ASSUME NEW rows, NEW s, NEW last, Stored(rows, last), Proper(s),
           HasEntries(rows, s), HasResults(rows, s)
    PROVE  LET new == DeleteStaleResults(rows, s)
           IN  /\ Stored(new, last)
               /\ new.entries = rows.entries /\ new.completed = rows.completed
               /\ new.laps = rows.laps
               /\ HasResults(new, s) /\ OnlyResults(new, s)
<1> DEFINE new == DeleteStaleResults(rows, s)
<1>1. rows \in Rows /\ SoundRows(rows)
  BY DEF Stored
<1>2. /\ new \in Rows
      /\ new.results = {r \in rows.results : r.entry \in Incoming(rows, s)}
      /\ new.entries = rows.entries /\ new.drivers = rows.drivers
      /\ new.laps = rows.laps /\ new.completed = rows.completed
  BY <1>1 DEF DeleteStaleResults, Rows
<1> HIDE DEF new
<1>3. \A k : IdOf(new, k) = IdOf(rows, k)
  BY <1>2, IdOfSameEntries
<1>4. /\ DOMAIN s.results = DOMAIN s.entries
      /\ \A i \in DOMAIN s.results : s.results[i].key = s.entries[i].key
  BY DEF Proper
<1>5. \A id : id \in Incoming(rows, s) <=>
            \E i \in DOMAIN s.results : id = IdOf(rows, s.results[i].key)
  BY <1>4 DEF Incoming, Keys
<1>6. SoundRows(new)
  BY <1>1, <1>2 DEF SoundRows
<1>7. OnlyResults(new, s)
  BY <1>2, <1>3, <1>5 DEF OnlyResults
<1>8. HasResults(new, s)
  BY <1>2, <1>3, <1>5 DEF HasResults
<1>9. Stored(new, last)
  BY <1>2, <1>6 DEF Stored
<1>. QED BY <1>2, <1>7, <1>8, <1>9 DEF new

(* What the last statement leaves: the snapshot, row by row. *)
Replaced(rows, s) ==
    /\ HasEntries(rows, s) /\ OnlyEntries(rows, s)
    /\ HasResults(rows, s) /\ OnlyResults(rows, s)
    /\ OnlyLaps(rows, s)
    /\ \A j \in DOMAIN s.laps : LapRowOf(rows, s.laps[j]) \in rows.laps

LEMMA EntriesDropped ==
    ASSUME NEW rows, NEW s, NEW last, Stored(rows, last), Proper(s),
           HasEntries(rows, s),
           HasResults(rows, s), OnlyResults(rows, s),
           OnlyLaps(rows, s),
           \A j \in DOMAIN s.laps : LapRowOf(rows, s.laps[j]) \in rows.laps
    PROVE  LET new == DeleteStaleEntries(rows, s)
           IN  /\ Stored(new, last)
               /\ new.completed = rows.completed
               /\ new.entries \subseteq rows.entries
               /\ Replaced(new, s)
<1> DEFINE new == DeleteStaleEntries(rows, s)
<1>1. rows \in Rows /\ SoundRows(rows)
  BY DEF Stored
<1>2. /\ new \in Rows
      /\ new.entries = {e \in rows.entries : e.id \in Incoming(rows, s)}
      /\ new.results = rows.results /\ new.drivers = rows.drivers
      /\ new.laps = rows.laps /\ new.completed = rows.completed
  BY <1>1 DEF DeleteStaleEntries, Rows
<1> HIDE DEF new
<1>3. \A id : id \in Incoming(rows, s) <=>
            \E i \in DOMAIN s.entries : id = IdOf(rows, s.entries[i].key)
  BY DEF Incoming, Keys
<1>4. \A e, f \in rows.entries : e # f => e.id # f.id /\ e.key # f.key
  BY <1>1 DEF SoundRows
<1>5. \A i \in DOMAIN s.entries : \E e \in new.entries :
        /\ e.key = s.entries[i].key /\ e.id = IdOf(rows, s.entries[i].key)
        /\ e.driver = s.entries[i].driver /\ e.number = s.entries[i].number
  <2> SUFFICES ASSUME NEW i \in DOMAIN s.entries
               PROVE  \E e \in new.entries :
                        /\ e.key = s.entries[i].key
                        /\ e.id = IdOf(rows, s.entries[i].key)
                        /\ e.driver = s.entries[i].driver
                        /\ e.number = s.entries[i].number
    OBVIOUS
  <2>1. PICK e \in rows.entries :
            /\ e.key = s.entries[i].key /\ e.driver = s.entries[i].driver
            /\ e.number = s.entries[i].number
    BY DEF HasEntries
  <2>2. e.id = IdOf(rows, s.entries[i].key)
    BY <1>1, <2>1, IdOfKept
  <2>. QED BY <1>2, <1>3, <2>1, <2>2
<1>6. SoundRows(new)
  <2>1. \A r \in new.results : \E e \in new.entries : e.id = r.entry
    BY <1>2, <1>5 DEF OnlyResults, Proper
  <2>2. \A l \in new.laps : \E e \in new.entries : e.id = l.entry
    BY <1>2, <1>5 DEF OnlyLaps, Proper
  <2>. QED BY <1>1, <1>2, <2>1, <2>2 DEF SoundRows
<1>7. \A i \in DOMAIN s.entries :
        IdOf(new, s.entries[i].key) = IdOf(rows, s.entries[i].key)
  <2> SUFFICES ASSUME NEW i \in DOMAIN s.entries
               PROVE  IdOf(new, s.entries[i].key) = IdOf(rows, s.entries[i].key)
    OBVIOUS
  <2>1. PICK e \in new.entries : /\ e.key = s.entries[i].key
                                 /\ e.id = IdOf(rows, s.entries[i].key)
    BY <1>5
  <2>2. IdOf(new, e.key) = e.id
    BY <1>6, IdOfKept
  <2>. QED BY <2>1, <2>2
<1>8. HasEntries(new, s)
  BY <1>5 DEF HasEntries
<1>9. OnlyEntries(new, s)
  <2> SUFFICES ASSUME NEW e \in new.entries
               PROVE  \E i \in DOMAIN s.entries : e.key = s.entries[i].key
    BY DEF OnlyEntries
  <2>1. PICK i \in DOMAIN s.entries : e.id = IdOf(rows, s.entries[i].key)
    BY <1>2, <1>3
  <2>2. PICK f \in rows.entries : /\ f.key = s.entries[i].key
                                  /\ f.id = IdOf(rows, s.entries[i].key)
    BY <1>1, IdsOfSnapshot
  <2>. QED BY <1>2, <1>4, <2>1, <2>2
<1>10. HasResults(new, s) /\ OnlyResults(new, s)
  <2>1. /\ DOMAIN s.results = DOMAIN s.entries
        /\ \A i \in DOMAIN s.results : s.results[i].key = s.entries[i].key
    BY DEF Proper
  <2>2. \A i \in DOMAIN s.results :
            IdOf(new, s.results[i].key) = IdOf(rows, s.results[i].key)
    BY <1>7, <2>1
  <2>. QED BY <1>2, <2>2 DEF HasResults, OnlyResults
<1>11. /\ OnlyLaps(new, s)
       /\ \A j \in DOMAIN s.laps : LapRowOf(new, s.laps[j]) \in new.laps
  <2>1. \A j \in DOMAIN s.laps : \E i \in DOMAIN s.entries :
            s.laps[j].key = s.entries[i].key
    BY DEF Proper
  <2>2. \A j \in DOMAIN s.laps :
            IdOf(new, s.laps[j].key) = IdOf(rows, s.laps[j].key)
    BY <1>7, <2>1
  <2>. QED BY <1>2, <2>2 DEF OnlyLaps, LapRowOf
<1>12. Stored(new, last)
  BY <1>2, <1>6 DEF Stored
<1>. QED BY <1>2, <1>8, <1>9, <1>10, <1>11, <1>12 DEF new, Replaced

(* Rows that hold exactly the snapshot have its content.                   *)
LEMMA ContentReplaced ==
    ASSUME NEW rows, NEW s, NEW last, Stored(rows, last), Proper(s),
           Replaced(rows, s)
    PROVE  ContentOf(rows) = SnapshotContent(s)
<1>1. rows \in Rows /\ SoundRows(rows)
  BY DEF Stored
<1>2. {[key |-> e.key, driver |-> e.driver, number |-> e.number] : e \in rows.entries}
        = Range(s.entries)
  <2>1. Range(s.entries) = {s.entries[i] : i \in DOMAIN s.entries}
    BY DEF Range
  <2>2. \A i \in DOMAIN s.entries : s.entries[i] \in EntryData
    BY DEF Proper, Snapshots
  <2>3. \A i \in DOMAIN s.entries : s.entries[i] =
            [key |-> s.entries[i].key, driver |-> s.entries[i].driver,
             number |-> s.entries[i].number]
    BY <2>2 DEF EntryData
  <2>4. \A e \in rows.entries : \E i \in DOMAIN s.entries :
            /\ e.key = s.entries[i].key /\ e.driver = s.entries[i].driver
            /\ e.number = s.entries[i].number
    BY <1>1 DEF Replaced, HasEntries, OnlyEntries, SoundRows
  <2>5. \A i \in DOMAIN s.entries : \E e \in rows.entries :
            /\ e.key = s.entries[i].key /\ e.driver = s.entries[i].driver
            /\ e.number = s.entries[i].number
    BY DEF Replaced, HasEntries
  <2> DEFINE Data(e) == [key |-> e.key, driver |-> e.driver, number |-> e.number]
  <2>6. \A e \in rows.entries : \E i \in DOMAIN s.entries : Data(e) = s.entries[i]
    BY <2>3, <2>4
  <2>7. \A i \in DOMAIN s.entries : \E e \in rows.entries : Data(e) = s.entries[i]
    BY <2>3, <2>5
  <2>8. {Data(e) : e \in rows.entries} = Range(s.entries)
    <3>. HIDE DEF Data
    <3>. QED BY <2>1, <2>6, <2>7
  <2>. QED BY <2>8
<1>3. {r.result : r \in rows.results} = Range(s.results)
  <2>1. Range(s.results) = {s.results[i] : i \in DOMAIN s.results}
    BY DEF Range
  <2>2. \A i \in DOMAIN s.results : \E r \in rows.results :
            r.result = s.results[i] /\ r.entry = IdOf(rows, s.results[i].key)
    BY DEF Replaced, HasResults
  <2>3. \A r \in rows.results : \E i \in DOMAIN s.results : r.result = s.results[i]
    BY <1>1, <2>2 DEF Replaced, OnlyResults, SoundRows
  <2>. QED BY <2>1, <2>2, <2>3
<1>4. {[key |-> KeyOf(rows, l.entry), lap |-> l.lap, time |-> l.time,
        start |-> l.start] : l \in rows.laps} = Range(s.laps)
  <2>1. Range(s.laps) = {s.laps[j] : j \in DOMAIN s.laps}
    BY DEF Range
  <2>2. \A j \in DOMAIN s.laps : s.laps[j] =
            [key |-> s.laps[j].key, lap |-> s.laps[j].lap,
             time |-> s.laps[j].time, start |-> s.laps[j].start]
    <3>1. \A j \in DOMAIN s.laps : s.laps[j] \in LapData
      BY DEF Proper, Snapshots
    <3>. QED BY <3>1 DEF LapData
  <2>3. \A j \in DOMAIN s.laps :
            KeyOf(rows, IdOf(rows, s.laps[j].key)) = s.laps[j].key
    BY <1>1, LapKeys, IdOfKept DEF Replaced
  <2>4. \A j \in DOMAIN s.laps : \E l \in rows.laps :
            /\ KeyOf(rows, l.entry) = s.laps[j].key /\ l.lap = s.laps[j].lap
            /\ l.time = s.laps[j].time /\ l.start = s.laps[j].start
    BY <2>3 DEF Replaced, LapRowOf
  <2>5. \A l \in rows.laps : \E j \in DOMAIN s.laps :
            /\ KeyOf(rows, l.entry) = s.laps[j].key /\ l.lap = s.laps[j].lap
            /\ l.time = s.laps[j].time /\ l.start = s.laps[j].start
    <3> SUFFICES ASSUME NEW l \in rows.laps
                 PROVE  \E j \in DOMAIN s.laps :
                            /\ KeyOf(rows, l.entry) = s.laps[j].key
                            /\ l.lap = s.laps[j].lap
                            /\ l.time = s.laps[j].time
                            /\ l.start = s.laps[j].start
      OBVIOUS
    <3>1. PICK j \in DOMAIN s.laps :
            l.entry = IdOf(rows, s.laps[j].key) /\ l.lap = s.laps[j].lap
      BY DEF Replaced, OnlyLaps
    <3>2. l = LapRowOf(rows, s.laps[j])
      BY <1>1, <3>1 DEF Replaced, LapRowOf, SoundRows
    <3>. QED BY <2>3, <3>1, <3>2 DEF LapRowOf
  <2> DEFINE Data(l) == [key |-> KeyOf(rows, l.entry), lap |-> l.lap,
                         time |-> l.time, start |-> l.start]
  <2>6. \A l \in rows.laps : \E j \in DOMAIN s.laps : Data(l) = s.laps[j]
    BY <2>2, <2>5
  <2>7. \A j \in DOMAIN s.laps : \E l \in rows.laps : Data(l) = s.laps[j]
    <3> SUFFICES ASSUME NEW j \in DOMAIN s.laps
                 PROVE  \E l \in rows.laps : Data(l) = s.laps[j]
      OBVIOUS
    <3>1. PICK l \in rows.laps :
            /\ KeyOf(rows, l.entry) = s.laps[j].key /\ l.lap = s.laps[j].lap
            /\ l.time = s.laps[j].time /\ l.start = s.laps[j].start
      BY <2>4
    <3>2. Data(l) = s.laps[j]
      BY <2>2, <3>1
    <3> HIDE DEF Data
    <3>. QED BY <3>2
  <2>8. {Data(l) : l \in rows.laps} = Range(s.laps)
    <3>. HIDE DEF Data
    <3>. QED BY <2>1, <2>6, <2>7
  <2>. QED BY <2>8
<1>. QED BY <1>2, <1>3, <1>4 DEF ContentOf, SnapshotContent

-----------------------------------------------------------------------------
(* The transaction, statement by statement.                                *)

Loadable == {g \in Feed : Normalisable(g, RaceLike)}
Loaded == {Normalised(f, RaceLike) : f \in Loadable}

Stages == {"idle", "loaded", "drivers", "clear", "entries", "results", "laps",
           "stale results", "stale entries", "complete"}
Outcomes == {"none", "not normalisable", "refused", "completed", "aborted"}

Transactions == [at: Stages, snapshot: Loaded \cup {None},
                 rows: Rows \cup {None}, batch: Nat, outcome: Outcomes]

(* Entries of both have one id if and only if they have one key.           *)
SameIds(base, rows) ==
    \A c \in base.entries, e \in rows.entries : c.key = e.key <=> c.id = e.id

(* What the statements executed so far have established, over what was     *)
(* committed before and the ids drawn.                                     *)
Progress(base, last, t) ==
    /\ t.at # "idle" => t.snapshot \in Loaded
    /\ t.at \in {"loaded", "drivers", "clear", "entries", "results"} => t.batch = 0
    /\ t.at \notin {"idle", "loaded"} =>
           Stored(t.rows, last) /\ t.rows.completed = base.completed
    /\ t.at \notin {"idle", "loaded", "complete"} => Keeps(base, t.rows)
    /\ t.at \in {"clear", "entries"} => t.snapshot.drivers \subseteq t.rows.drivers
    /\ t.at = "entries" =>
           \A e \in t.rows.entries : e.driver = None /\ e.number = None
    /\ t.at \in {"results", "laps", "stale results", "stale entries"} =>
           HasEntries(t.rows, t.snapshot)
    /\ t.at \in {"laps", "stale results", "stale entries"} =>
           HasResults(t.rows, t.snapshot)
    /\ t.at = "laps" => HasLaps(t.rows, t.snapshot, t.batch)
    /\ t.at \in {"stale results", "stale entries"} =>
           /\ OnlyLaps(t.rows, t.snapshot)
           /\ \A j \in DOMAIN t.snapshot.laps :
                  LapRowOf(t.rows, t.snapshot.laps[j]) \in t.rows.laps
    /\ t.at = "stale entries" => OnlyResults(t.rows, t.snapshot)
    /\ t.at = "complete" =>
           Replaced(t.rows, t.snapshot) /\ SameIds(base, t.rows)

HistoryInv ==
    /\ history \in Seq(Rows) /\ history # << >>
    /\ lastId \in Nat
    /\ Stored(Committed, lastId) /\ Committed.completed = Version - 1

TxnInv ==
    /\ HistoryInv
    /\ txn \in Transactions /\ txn.outcome # "refused"
    /\ Progress(Committed, lastId, txn)

LEMMA LoadedProper == \A s \in Loaded : Proper(s)
  BY NormalisedProper DEF Loaded, Loadable

LEMMA StoredIsSound == \A rows, last : Stored(rows, last) => Sound(rows)
  BY SoundByRow DEF Stored

(* The transaction after a statement, before its first one, and at rest.   *)
LEMMA AtRest == NoTxn \in Transactions /\ NoTxn.at = "idle" /\ NoTxn.batch = 0
                /\ NoTxn.outcome = "none"
  BY DEF Transactions, NoTxn, Stages, Outcomes

LEMMA Started ==
    ASSUME NEW t \in Transactions, NEW s \in Loaded
    PROVE  LET u == [t EXCEPT !.at = "loaded", !.snapshot = s]
           IN  /\ u \in Transactions
               /\ u.at = "loaded" /\ u.rows = t.rows /\ u.snapshot = s
               /\ u.batch = t.batch /\ u.outcome = t.outcome
  BY DEF Transactions, Stages

LEMMA Ended ==
    ASSUME NEW t \in Transactions, NEW outcome \in Outcomes
    PROVE  LET u == [t EXCEPT !.outcome = outcome]
           IN  /\ u \in Transactions
               /\ u.at = t.at /\ u.rows = t.rows /\ u.snapshot = t.snapshot
               /\ u.batch = t.batch /\ u.outcome = outcome
  BY DEF Transactions

(* A statement that is accepted. *)
LEMMA Accepted ==
    ASSUME NEW rows \in Rows, NEW accepted, accepted, Sound(rows),
           NEW next \in Stages, txn \in Transactions,
           Execute(rows, accepted, next)
    PROVE  /\ txn' \in Transactions
           /\ txn'.at = next /\ txn'.rows = rows
           /\ txn'.snapshot = txn.snapshot /\ txn'.batch = txn.batch
           /\ txn'.outcome = txn.outcome
<1>1. txn' = [txn EXCEPT !.at = next, !.rows = rows]
  BY Zenon DEF Execute
<1>. QED BY <1>1 DEF Transactions

LEMMA LoadSafe ==
    ASSUME TxnInv, NEW f \in Feed, Load(f)
    PROVE  TxnInv'
<1>1. HistoryInv' /\ Committed' = Committed /\ lastId' = lastId
  BY DEF TxnInv, HistoryInv, Load, Committed, Version
<1>2. CASE Normalisable(f, RaceLike)
  <2> DEFINE s == Normalised(f, RaceLike)
  <2>1. s \in Loaded
    BY <1>2 DEF Loaded, Loadable
  <2>2. txn' = [NoTxn EXCEPT !.at = "loaded", !.snapshot = s]
    BY <1>2, Zenon DEF Load
  <2> HIDE DEF s
  <2>3. /\ txn' \in Transactions /\ txn'.at = "loaded" /\ txn'.batch = 0
        /\ txn'.snapshot = s /\ txn'.outcome = "none"
    BY <2>1, <2>2, AtRest, Started
  <2>. QED BY <1>1, <2>1, <2>3 DEF TxnInv, Progress
<1>3. CASE ~Normalisable(f, RaceLike)
  <2>1. txn' = [NoTxn EXCEPT !.outcome = "not normalisable"]
    BY <1>3, Zenon DEF Load
  <2>2. /\ txn' \in Transactions /\ txn'.at = "idle"
        /\ txn'.outcome # "refused"
    BY <2>1, AtRest, Ended DEF Outcomes
  <2>. QED BY <1>1, <2>2 DEF TxnInv, Progress
<1>. QED BY <1>2, <1>3

LEMMA BeginSafe == ASSUME TxnInv, Begin PROVE TxnInv'
<1>1. HistoryInv' /\ Committed' = Committed /\ lastId' = lastId
  BY DEF TxnInv, HistoryInv, Begin, Committed, Version
<1>2. txn.at = "loaded" /\ txn.snapshot \in Loaded /\ txn \in Transactions
  BY DEF TxnInv, Progress, Begin
<1>3. ValidSnapshot(txn.snapshot)
  BY <1>2, LoadedProper, ProperIsValid
<1>4. txn' = [txn EXCEPT !.at = "drivers", !.rows = Committed]
  BY <1>3, Zenon DEF Begin
<1>5. Stored(Committed, lastId) /\ Committed \in Rows
  BY DEF TxnInv, HistoryInv, Stored
<1>6. /\ txn' \in Transactions /\ txn'.at = "drivers" /\ txn'.rows = Committed
      /\ txn'.snapshot = txn.snapshot /\ txn'.batch = txn.batch
      /\ txn'.outcome = txn.outcome
  <2> DEFINE rows == Committed
  <2>1. "drivers" \in Stages /\ rows \in Rows
    BY <1>5 DEF Stages
  <2>2. txn' = [txn EXCEPT !.at = "drivers", !.rows = rows]
    BY <1>4
  <2>. HIDE DEF rows
  <2>3. /\ txn' \in Transactions /\ txn'.at = "drivers" /\ txn'.rows = rows
        /\ txn'.snapshot = txn.snapshot /\ txn'.batch = txn.batch
        /\ txn'.outcome = txn.outcome
    BY <1>2, <2>1, <2>2 DEF Transactions
  <2>. QED BY <2>3 DEF rows
<1>7. txn.outcome # "refused" /\ txn.batch = 0
  BY <1>2 DEF TxnInv, Progress
<1>8. Keeps(Committed, Committed)
  BY DEF Keeps
<1>. QED BY <1>1, <1>2, <1>5, <1>6, <1>7, <1>8 DEF TxnInv, Progress

(* What holds while the transaction is at work. *)
LEMMA Working ==
    ASSUME TxnInv, txn.at \notin {"idle", "loaded"}
    PROVE  /\ txn \in Transactions /\ Proper(txn.snapshot)
           /\ txn.snapshot \in Loaded /\ txn.outcome # "refused"
           /\ Stored(txn.rows, lastId) /\ txn.rows \in Rows
           /\ txn.rows.completed = Committed.completed
           /\ Progress(Committed, lastId, txn)
  BY LoadedProper DEF TxnInv, Progress, Stored

LEMMA AcceptedStored ==
    ASSUME NEW rows, NEW last, Stored(rows, last), NEW accepted, accepted,
           NEW next \in Stages, txn \in Transactions,
           Execute(rows, accepted, next)
    PROVE  /\ txn' \in Transactions
           /\ txn'.at = next /\ txn'.rows = rows
           /\ txn'.snapshot = txn.snapshot /\ txn'.batch = txn.batch
           /\ txn'.outcome = txn.outcome
<1>1. rows \in Rows
  BY DEF Stored
<1>2. Sound(rows)
  BY StoredIsSound
<1>. QED BY <1>1, <1>2, Accepted, Zenon

LEMMA CommittedStays ==
    ASSUME TxnInv, UNCHANGED history
    PROVE  Committed' = Committed /\ (lastId' = lastId => HistoryInv')
  BY DEF TxnInv, HistoryInv, Committed, Version

LEMMA NoBatchYet ==
    ASSUME NEW j \in Nat \ {0}, NEW size \in Nat \ {0}
    PROVE  ~((j - 1) \div size < 0)
<1>1. j - 1 \in Nat
  OBVIOUS
<1>. QED BY <1>1

LEMMA DriversSafe == ASSUME TxnInv, Drivers PROVE TxnInv'
<1> DEFINE rows == UpsertDrivers(txn.rows, txn.snapshot)
<1>1. txn.at = "drivers" /\ txn.at \notin {"idle", "loaded"}
  BY DEF Drivers
<1>2. UNCHANGED <<history, lastId>> /\ Execute(rows, TRUE, "clear")
  BY DEF Drivers
<1>3. /\ Stored(rows, lastId)
      /\ rows.entries = txn.rows.entries /\ rows.completed = txn.rows.completed
      /\ txn.snapshot.drivers \subseteq rows.drivers
  BY <1>1, Working, DriversStored
<1>. HIDE DEF rows
<1>4. "clear" \in Stages
  BY DEF Stages
<1>5. /\ txn' \in Transactions /\ txn'.at = "clear" /\ txn'.rows = rows
      /\ txn'.snapshot = txn.snapshot /\ txn'.batch = txn.batch
      /\ txn'.outcome = txn.outcome
  BY <1>1, <1>2, <1>3, <1>4, Working, AcceptedStored, Zenon
<1>6. txn.batch = 0 /\ Keeps(Committed, rows)
  BY <1>1, <1>3, Working DEF Progress, Keeps
<1>. QED BY <1>1, <1>2, <1>3, <1>5, <1>6, Working, CommittedStays DEF TxnInv, Progress

LEMMA ClearSafe == ASSUME TxnInv, Clear PROVE TxnInv'
<1> DEFINE rows == ClearUniqueValues(txn.rows, txn.snapshot)
<1>1. txn.at = "clear" /\ txn.at \notin {"idle", "loaded"}
  BY DEF Clear
<1>2. UNCHANGED <<history, lastId>> /\ Execute(rows, TRUE, "entries")
  BY DEF Clear
<1>3. /\ Stored(rows, lastId) /\ Keeps(txn.rows, rows)
      /\ rows.drivers = txn.rows.drivers /\ rows.completed = txn.rows.completed
      /\ \A e \in rows.entries : e.driver = None /\ e.number = None
  <2>1. Stored(txn.rows, lastId)
    BY <1>1, Working
  <2>2. PICK old, s : old = txn.rows /\ s = txn.snapshot
    OBVIOUS
  <2>3. PICK new : new = ClearUniqueValues(old, s)
    OBVIOUS
  <2>4. /\ Stored(new, lastId) /\ Keeps(old, new)
        /\ new.drivers = old.drivers /\ new.completed = old.completed
        /\ \A e \in new.entries : e.driver = None /\ e.number = None
    BY <2>1, <2>2, <2>3, ClearStored
  <2>5. rows = new
    BY <2>2, <2>3
  <2> HIDE DEF rows
  <2>. QED BY <2>2, <2>4, <2>5
<1>. HIDE DEF rows
<1>4. "entries" \in Stages
  BY DEF Stages
<1>5. /\ txn' \in Transactions /\ txn'.at = "entries" /\ txn'.rows = rows
      /\ txn'.snapshot = txn.snapshot /\ txn'.batch = txn.batch
      /\ txn'.outcome = txn.outcome
  BY <1>1, <1>2, <1>3, <1>4, Working, AcceptedStored, Zenon
<1>6. /\ txn.batch = 0 /\ Keeps(Committed, rows)
      /\ txn.snapshot.drivers \subseteq rows.drivers
  BY <1>1, <1>3, Working DEF Progress, Keeps
<1>. QED BY <1>1, <1>2, <1>3, <1>5, <1>6, Working, CommittedStays DEF TxnInv, Progress

LEMMA StoredLater ==
    ASSUME NEW rows, NEW last \in Nat, NEW later \in Nat, last <= later,
           Stored(rows, last)
    PROVE  Stored(rows, later)
<1>1. \A e \in rows.entries : e.id \in Nat
  BY DEF Stored, Rows, EntryRow
<1>. QED BY <1>1 DEF Stored

LEMMA PutEntriesSafe == ASSUME TxnInv, PutEntries PROVE TxnInv'
<1> DEFINE rows == UpsertEntries(txn.rows, txn.snapshot)
           drawn == Cardinality(NewKeys(txn.rows, txn.snapshot,
                                        Len(txn.snapshot.entries)))
<1>1. txn.at = "entries" /\ txn.at \notin {"idle", "loaded"}
  BY DEF PutEntries
<1>2. /\ UNCHANGED history /\ lastId' = lastId + drawn
      /\ Execute(rows, EntriesAccepted(txn.rows, txn.snapshot), "results")
  BY DEF PutEntries
<1>3. /\ lastId \in Nat /\ txn.batch = 0 /\ Keeps(Committed, txn.rows)
      /\ txn.snapshot.drivers \subseteq txn.rows.drivers
      /\ \A e \in txn.rows.entries : e.driver = None /\ e.number = None
  BY <1>1 DEF TxnInv, HistoryInv, Progress
<1>4. /\ EntriesAccepted(txn.rows, txn.snapshot)
      /\ drawn \in Nat
      /\ Stored(rows, lastId + drawn)
      /\ Keeps(txn.rows, rows) /\ rows.completed = txn.rows.completed
      /\ HasEntries(rows, txn.snapshot)
  BY <1>1, <1>3, Working, EntriesStored
<1>. HIDE DEF rows, drawn
<1>5. "results" \in Stages
  BY DEF Stages
<1>6. /\ txn' \in Transactions /\ txn'.at = "results" /\ txn'.rows = rows
      /\ txn'.snapshot = txn.snapshot /\ txn'.batch = txn.batch
      /\ txn'.outcome = txn.outcome
  BY <1>1, <1>2, <1>4, <1>5, Working, AcceptedStored, Zenon
<1>7. Keeps(Committed, rows)
  BY <1>3, <1>4 DEF Keeps
<1>8. Committed' = Committed
  BY <1>2, CommittedStays
<1>9. HistoryInv'
  <2>1. lastId' \in Nat /\ lastId <= lastId'
    BY <1>2, <1>3, <1>4
  <2>2. Stored(Committed, lastId')
    BY <1>3, <2>1, StoredLater DEF TxnInv, HistoryInv
  <2>. QED BY <1>2, <1>8, <2>1, <2>2 DEF TxnInv, HistoryInv, Version
<1>. QED BY <1>1, <1>2, <1>3, <1>4, <1>6, <1>7, <1>8, <1>9, Working DEF TxnInv, Progress

LEMMA PutResultsSafe == ASSUME TxnInv, PutResults PROVE TxnInv'
<1> DEFINE rows == UpsertResults(txn.rows, txn.snapshot)
<1>1. txn.at = "results" /\ txn.at \notin {"idle", "loaded"}
  BY DEF PutResults
<1>2. UNCHANGED <<history, lastId>> /\ Execute(rows, TRUE, "laps")
  BY DEF PutResults
<1>3. /\ txn.batch = 0 /\ Keeps(Committed, txn.rows)
      /\ HasEntries(txn.rows, txn.snapshot)
  BY <1>1 DEF TxnInv, Progress
<1>4. /\ Stored(rows, lastId)
      /\ rows.entries = txn.rows.entries /\ rows.completed = txn.rows.completed
      /\ HasResults(rows, txn.snapshot)
  BY <1>1, <1>3, Working, ResultsStored
<1>. HIDE DEF rows
<1>5. "laps" \in Stages
  BY DEF Stages
<1>6. /\ txn' \in Transactions /\ txn'.at = "laps" /\ txn'.rows = rows
      /\ txn'.snapshot = txn.snapshot /\ txn'.batch = txn.batch
      /\ txn'.outcome = txn.outcome
  BY <1>1, <1>2, <1>4, <1>5, Working, AcceptedStored, Zenon
<1>7. Keeps(Committed, rows) /\ HasEntries(rows, txn.snapshot)
  BY <1>3, <1>4 DEF Keeps, HasEntries
<1>8. HasLaps(rows, txn.snapshot, 0)
  <2>1. txn.snapshot.laps \in Seq(LapData)
    BY <1>1, Working DEF Proper, Snapshots
  <2>2. \A j \in DOMAIN txn.snapshot.laps : ~((j - 1) \div BatchSize < 0)
    BY <2>1, NoBatchYet, ReplacementAssumption
  <2>. QED BY <2>2 DEF HasLaps
<1>. QED BY <1>1, <1>2, <1>3, <1>4, <1>6, <1>7, <1>8, Working, CommittedStays
         DEF TxnInv, Progress

LEMMA PutLapsSafe == ASSUME TxnInv, PutLaps PROVE TxnInv'
<1> DEFINE rows == UpsertLaps(txn.rows, txn.snapshot, txn.batch + 1)
<1>1. txn.at = "laps" /\ txn.at \notin {"idle", "loaded"}
  BY DEF PutLaps
<1>2. /\ Keeps(Committed, txn.rows) /\ txn.batch \in Nat
      /\ HasEntries(txn.rows, txn.snapshot) /\ HasResults(txn.rows, txn.snapshot)
      /\ HasLaps(txn.rows, txn.snapshot, txn.batch)
  BY <1>1 DEF TxnInv, Progress, Transactions
<1>3. /\ Stored(rows, lastId)
      /\ rows.entries = txn.rows.entries /\ rows.completed = txn.rows.completed
      /\ rows.results = txn.rows.results
      /\ HasLaps(rows, txn.snapshot, txn.batch + 1)
  BY <1>1, <1>2, Working, LapsStored
<1>4. Sound(rows) /\ rows \in Rows
  BY <1>3, StoredIsSound DEF Stored
<1>5. UNCHANGED <<history, lastId>> /\ txn' = [txn EXCEPT !.batch = @ + 1, !.rows = rows]
  BY <1>4, Zenon DEF PutLaps
<1>. HIDE DEF rows
<1>6. /\ txn' \in Transactions /\ txn'.at = txn.at /\ txn'.rows = rows
      /\ txn'.snapshot = txn.snapshot /\ txn'.batch = txn.batch + 1
      /\ txn'.outcome = txn.outcome
  <2> DEFINE n == txn.batch + 1
  <2>1. n \in Nat /\ txn \in Transactions
    BY <1>1, <1>2, Working
  <2>2. txn' = [txn EXCEPT !.batch = n, !.rows = rows]
    BY <1>5
  <2>. HIDE DEF n
  <2>3. /\ txn' \in Transactions /\ txn'.at = txn.at /\ txn'.rows = rows
        /\ txn'.snapshot = txn.snapshot /\ txn'.batch = n
        /\ txn'.outcome = txn.outcome
    BY <1>4, <2>1, <2>2 DEF Transactions
  <2>. QED BY <2>3 DEF n
<1>7. /\ Keeps(Committed, rows) /\ HasEntries(rows, txn.snapshot)
      /\ HasResults(rows, txn.snapshot)
  <2>1. \A k : IdOf(rows, k) = IdOf(txn.rows, k)
    BY <1>3, IdOfSameEntries
  <2>2. HasResults(rows, txn.snapshot)
    BY <1>2, <1>3, <2>1 DEF HasResults
  <2>. QED BY <1>2, <1>3, <2>2 DEF Keeps, HasEntries
<1>. QED BY <1>1, <1>3, <1>5, <1>6, <1>7, Working, CommittedStays DEF TxnInv, Progress

LEMMA DropLapsSafe == ASSUME TxnInv, DropLaps PROVE TxnInv'
<1> DEFINE rows == DeleteStaleLaps(txn.rows, txn.snapshot)
<1>1. txn.at = "laps" /\ txn.at \notin {"idle", "loaded"}
  BY DEF DropLaps
<1>2. UNCHANGED <<history, lastId>> /\ Execute(rows, TRUE, "stale results")
  BY DEF DropLaps
<1>3. /\ Keeps(Committed, txn.rows)
      /\ HasEntries(txn.rows, txn.snapshot) /\ HasResults(txn.rows, txn.snapshot)
      /\ HasLaps(txn.rows, txn.snapshot, Batches(txn.snapshot))
  BY <1>1 DEF TxnInv, Progress, DropLaps
<1>4. /\ Stored(rows, lastId)
      /\ rows.entries = txn.rows.entries /\ rows.completed = txn.rows.completed
      /\ rows.results = txn.rows.results
      /\ OnlyLaps(rows, txn.snapshot)
      /\ \A j \in DOMAIN txn.snapshot.laps :
             LapRowOf(rows, txn.snapshot.laps[j]) \in rows.laps
  BY <1>1, <1>3, Working, LapsDropped
<1>. HIDE DEF rows
<1>5. "stale results" \in Stages
  BY DEF Stages
<1>6. /\ txn' \in Transactions /\ txn'.at = "stale results" /\ txn'.rows = rows
      /\ txn'.snapshot = txn.snapshot /\ txn'.batch = txn.batch
      /\ txn'.outcome = txn.outcome
  BY <1>1, <1>2, <1>4, <1>5, Working, AcceptedStored, Zenon
<1>7. /\ Keeps(Committed, rows) /\ HasEntries(rows, txn.snapshot)
      /\ HasResults(rows, txn.snapshot)
  <2>1. \A k : IdOf(rows, k) = IdOf(txn.rows, k)
    BY <1>4, IdOfSameEntries
  <2>2. HasResults(rows, txn.snapshot)
    BY <1>3, <1>4, <2>1 DEF HasResults
  <2>. QED BY <1>3, <1>4, <2>2 DEF Keeps, HasEntries
<1>. QED BY <1>1, <1>2, <1>4, <1>6, <1>7, Working, CommittedStays DEF TxnInv, Progress

LEMMA DropResultsSafe == ASSUME TxnInv, DropResults PROVE TxnInv'
<1> DEFINE rows == DeleteStaleResults(txn.rows, txn.snapshot)
<1>1. txn.at = "stale results" /\ txn.at \notin {"idle", "loaded"}
  BY DEF DropResults
<1>2. UNCHANGED <<history, lastId>> /\ Execute(rows, TRUE, "stale entries")
  BY DEF DropResults
<1>3. /\ Keeps(Committed, txn.rows)
      /\ HasEntries(txn.rows, txn.snapshot) /\ HasResults(txn.rows, txn.snapshot)
      /\ OnlyLaps(txn.rows, txn.snapshot)
      /\ \A j \in DOMAIN txn.snapshot.laps :
             LapRowOf(txn.rows, txn.snapshot.laps[j]) \in txn.rows.laps
  BY <1>1 DEF TxnInv, Progress
<1>4. /\ Stored(rows, lastId)
      /\ rows.entries = txn.rows.entries /\ rows.completed = txn.rows.completed
      /\ rows.laps = txn.rows.laps
      /\ HasResults(rows, txn.snapshot) /\ OnlyResults(rows, txn.snapshot)
  BY <1>1, <1>3, Working, ResultsDropped
<1>. HIDE DEF rows
<1>5. "stale entries" \in Stages
  BY DEF Stages
<1>6. /\ txn' \in Transactions /\ txn'.at = "stale entries" /\ txn'.rows = rows
      /\ txn'.snapshot = txn.snapshot /\ txn'.batch = txn.batch
      /\ txn'.outcome = txn.outcome
  BY <1>1, <1>2, <1>4, <1>5, Working, AcceptedStored, Zenon
<1>7. /\ OnlyLaps(rows, txn.snapshot)
      /\ \A j \in DOMAIN txn.snapshot.laps :
             LapRowOf(rows, txn.snapshot.laps[j]) \in rows.laps
  <2>1. \A k : IdOf(rows, k) = IdOf(txn.rows, k)
    BY <1>4, IdOfSameEntries
  <2>. QED BY <1>3, <1>4, <2>1 DEF OnlyLaps, LapRowOf
<1>8. Keeps(Committed, rows) /\ HasEntries(rows, txn.snapshot)
  BY <1>3, <1>4 DEF Keeps, HasEntries
<1>. QED BY <1>1, <1>2, <1>4, <1>6, <1>7, <1>8, Working, CommittedStays
         DEF TxnInv, Progress

(* No entry has the key of one and the id of another. *)
LEMMA KeptSameIds ==
    ASSUME NEW base, NEW rows, SoundRows(rows), Keeps(base, rows),
           NEW new, new.entries \subseteq rows.entries
    PROVE  SameIds(base, new)
  BY DEF SameIds, Keeps, SoundRows

LEMMA DropEntriesSafe == ASSUME TxnInv, DropEntries PROVE TxnInv'
<1> DEFINE rows == DeleteStaleEntries(txn.rows, txn.snapshot)
<1>1. txn.at = "stale entries" /\ txn.at \notin {"idle", "loaded"}
  BY DEF DropEntries
<1>2. UNCHANGED <<history, lastId>> /\ Execute(rows, TRUE, "complete")
  BY DEF DropEntries
<1>3. /\ Keeps(Committed, txn.rows)
      /\ HasEntries(txn.rows, txn.snapshot)
      /\ HasResults(txn.rows, txn.snapshot) /\ OnlyResults(txn.rows, txn.snapshot)
      /\ OnlyLaps(txn.rows, txn.snapshot)
      /\ \A j \in DOMAIN txn.snapshot.laps :
             LapRowOf(txn.rows, txn.snapshot.laps[j]) \in txn.rows.laps
  BY <1>1 DEF TxnInv, Progress
<1>4. /\ Stored(rows, lastId) /\ rows.completed = txn.rows.completed
      /\ rows.entries \subseteq txn.rows.entries
      /\ Replaced(rows, txn.snapshot)
  BY <1>1, <1>3, Working, EntriesDropped
<1>5. SameIds(Committed, rows)
  BY <1>1, <1>3, <1>4, Working, KeptSameIds DEF Stored
<1>. HIDE DEF rows
<1>6. "complete" \in Stages
  BY DEF Stages
<1>7. /\ txn' \in Transactions /\ txn'.at = "complete" /\ txn'.rows = rows
      /\ txn'.snapshot = txn.snapshot /\ txn'.batch = txn.batch
      /\ txn'.outcome = txn.outcome
  BY <1>1, <1>2, <1>4, <1>6, Working, AcceptedStored, Zenon
<1>. QED BY <1>1, <1>2, <1>4, <1>5, <1>7, Working, CommittedStays DEF TxnInv, Progress

(* The version committed is the rows of the transaction, one newer.        *)
LEMMA Published ==
    ASSUME TxnInv, Commit
    PROVE  /\ HistoryInv' /\ lastId' = lastId
           /\ Version' = Version + 1
           /\ Committed'.entries = txn.rows.entries
           /\ Committed'.results = txn.rows.results
           /\ Committed'.laps = txn.rows.laps
           /\ Committed'.completed = Committed.completed + 1
           /\ SoundRows(Committed') /\ Committed' \in Rows
<1> DEFINE new == [txn.rows EXCEPT !.completed = Version]
<1>1. /\ history \in Seq(Rows) /\ Version \in Nat /\ Version >= 1 /\ lastId \in Nat
      /\ Committed.completed = Version - 1
  BY DEF TxnInv, HistoryInv, Version
<1>2. txn.at = "complete" /\ Stored(txn.rows, lastId) /\ txn.rows \in Rows
  BY Working DEF Commit
<1>3. /\ new \in Rows
      /\ new.entries = txn.rows.entries /\ new.results = txn.rows.results
      /\ new.laps = txn.rows.laps /\ new.drivers = txn.rows.drivers
      /\ new.completed = Version
  BY <1>1, <1>2 DEF Rows
<1>4. history' = Append(history, new) /\ lastId' = lastId
  BY DEF Commit
<1>. HIDE DEF new
<1>5. /\ history' \in Seq(Rows) /\ history' # << >> /\ Version' = Version + 1
      /\ Committed' = new
  BY <1>1, <1>3, <1>4 DEF Version, Committed
<1>6. SoundRows(new)
  BY <1>2, <1>3 DEF Stored, SoundRows
<1>7. Stored(new, lastId)
  BY <1>2, <1>3, <1>6 DEF Stored
<1>. QED BY <1>1, <1>3, <1>4, <1>5, <1>6, <1>7 DEF HistoryInv

LEMMA CommitSafe == ASSUME TxnInv, Commit PROVE TxnInv'
<1>1. txn' = [NoTxn EXCEPT !.outcome = "completed"]
  BY DEF Commit
<1>2. txn' \in Transactions /\ txn'.at = "idle" /\ txn'.outcome # "refused"
  BY <1>1, AtRest, Ended DEF Outcomes
<1>. QED BY <1>2, Published DEF TxnInv, Progress

LEMMA AbortSafe == ASSUME TxnInv, Abort PROVE TxnInv'
<1>1. txn' = [NoTxn EXCEPT !.outcome = "aborted"] /\ UNCHANGED <<history, lastId>>
  BY DEF Abort
<1>2. txn' \in Transactions /\ txn'.at = "idle" /\ txn'.outcome # "refused"
  BY <1>1, AtRest, Ended DEF Outcomes
<1>. QED BY <1>1, <1>2, CommittedStays DEF TxnInv, Progress

LEMMA StutterSafe == ASSUME TxnInv, UNCHANGED archive PROVE TxnInv'
  BY CommittedStays DEF TxnInv, archive

(* The reader only reads. *)
LEMMA ReaderReads == ReaderNext => UNCHANGED archive
  BY DEF ReaderNext, Open, Close, BeginRead, DetailArrives, ResultsArrive,
         LapsArrive, EntryGone, RequestFails, SelectEntry, LoadMore, ToggleLap,
         ClearSelection

LEMMA TxnStep == TxnInv /\ [Next]_vars => TxnInv'
<1> SUFFICES ASSUME TxnInv, [Next]_vars PROVE TxnInv'
  OBVIOUS
<1>1. CASE UNCHANGED archive
  BY <1>1, StutterSafe
<1>2. CASE ArchiveNext
  <2>1. ASSUME NEW f \in Feed, Load(f) PROVE TxnInv'
    BY <2>1, LoadSafe
  <2>. QED BY <1>2, <2>1, BeginSafe, DriversSafe, ClearSafe, PutEntriesSafe,
           PutResultsSafe, PutLapsSafe, DropLapsSafe, DropResultsSafe,
           DropEntriesSafe, CommitSafe, AbortSafe DEF ArchiveNext
<1>. QED BY <1>1, <1>2, ReaderReads DEF Next, vars

LEMMA TxnInit == Init => TxnInv
<1> SUFFICES ASSUME Init PROVE TxnInv
  OBVIOUS
<1>1. history = <<NoRows>> /\ txn = NoTxn /\ lastId = 0
  BY DEF Init, ArchiveInit
<1>2. NoRows \in Rows /\ SoundRows(NoRows) /\ NoRows.completed = 0
      /\ NoRows.entries = {}
  BY DEF NoRows, Rows, SoundRows
<1>3. /\ history \in Seq(Rows) /\ history # << >> /\ Version = 1
      /\ Committed = NoRows
  BY <1>1, <1>2 DEF Version, Committed
<1>4. HistoryInv
  BY <1>1, <1>2, <1>3 DEF HistoryInv, Stored
<1>. QED BY <1>1, <1>4, AtRest DEF TxnInv, Progress

(* No feed that passes the normalisation is refused by the contract or by  *)
(* a constraint of the database, in whatever state the tables are.         *)
THEOREM FeedsAreStored == Spec => []NeverRefused
<1>1. TxnInv => NeverRefused
  BY DEF TxnInv, NeverRefused
<1>. QED BY <1>1, TxnInit, TxnStep, PTL DEF Spec

-----------------------------------------------------------------------------
LEMMA InitReplaces == Init => Store!Init
<1> SUFFICES ASSUME Init PROVE Store!Init
  OBVIOUS
<1>1. history = <<NoRows>>
  BY DEF Init, ArchiveInit
<1>2. Committed = NoRows
  BY <1>1 DEF Version, Committed
<1>3. EntryIds(NoRows) = << >>
  BY DEF EntryIds, NoRows
<1>4. NoRows.completed = 0
  BY DEF NoRows
<1>. QED BY <1>2, <1>3, <1>4 DEF Store!Init

LEMMA CommitReplaces == ASSUME TxnInv, Commit PROVE Store!Replace
<1> DEFINE old == Committed
           new == Committed'
           s == txn.snapshot
<1>1. txn.at = "complete" /\ s \in Loaded /\ Proper(s) /\ Stored(txn.rows, lastId)
  BY Working DEF Commit
<1>2. Replaced(txn.rows, s) /\ SameIds(old, txn.rows)
  BY <1>1 DEF TxnInv, Progress
<1>3. SoundRows(old) /\ old.completed \in Nat
  BY DEF TxnInv, HistoryInv, Stored, Rows
<1>4. /\ new.entries = txn.rows.entries /\ new.results = txn.rows.results
      /\ new.laps = txn.rows.laps /\ new.completed = old.completed + 1
      /\ SoundRows(new)
  BY Published
<1>. HIDE DEF old, new, s
<1>5. ContentOf(new) = ContentOf(txn.rows)
  BY <1>4 DEF ContentOf, KeyOf
<1>6. ContentOf(new) \in Contents
  <2>1. ContentOf(txn.rows) = SnapshotContent(s)
    BY <1>1, <1>2, ContentReplaced
  <2>. QED BY <1>1, <1>5, <2>1 DEF Contents, Loaded, Loadable
<1>7. SameIds(old, new)
  BY <1>2, <1>4 DEF SameIds
<1>8. \A c \in old.entries : IdOf(old, c.key) = c.id
  BY <1>3, IdOfKept
<1>9. \A e \in new.entries : IdOf(new, e.key) = e.id
  BY <1>4, IdOfKept
<1>10. /\ DOMAIN EntryIds(old) = {c.key : c \in old.entries}
       /\ DOMAIN EntryIds(new) = {e.key : e \in new.entries}
       /\ \A k \in DOMAIN EntryIds(old) : EntryIds(old)[k] = IdOf(old, k)
       /\ \A k \in DOMAIN EntryIds(new) : EntryIds(new)[k] = IdOf(new, k)
  BY DEF EntryIds
<1>11. \A k \in DOMAIN EntryIds(old) \cap DOMAIN EntryIds(new) :
           EntryIds(new)[k] = EntryIds(old)[k]
  BY <1>7, <1>8, <1>9, <1>10 DEF SameIds
<1>12. \A k \in DOMAIN EntryIds(new) \ DOMAIN EntryIds(old),
          j \in DOMAIN EntryIds(old) : EntryIds(new)[k] # EntryIds(old)[j]
  BY <1>7, <1>8, <1>9, <1>10 DEF SameIds
<1>13. new.completed > old.completed
  BY <1>3, <1>4
<1>. QED BY <1>6, <1>11, <1>12, <1>13 DEF Store!Replace, old, new

LEMMA StepReplaces == TxnInv /\ [Next]_vars => [Store!Replace]_(Store!vars)
<1> SUFFICES ASSUME TxnInv, [Next]_vars PROVE [Store!Replace]_(Store!vars)
  OBVIOUS
<1>1. CASE UNCHANGED history
  BY <1>1 DEF Store!vars, Committed, Version
<1>2. CASE Commit
  BY <1>2, CommitReplaces
<1>3. ArchiveNext => UNCHANGED history \/ Commit
  BY DEF ArchiveNext, Load, Begin, Drivers, Clear, PutEntries, PutResults, PutLaps,
         DropLaps, DropResults, DropEntries, Abort
<1>. QED BY <1>1, <1>2, <1>3, ReaderReads DEF Next, vars, archive

(* The ten statements of replace_archive_session act as the one step of    *)
(* SessionStore.                                                           *)
THEOREM ReplacesAtomically == Spec => Replaces
<1>. QED BY TxnInit, TxnStep, InitReplaces, StepReplaces, PTL
     DEF Spec, Replaces, Store!Spec

-----------------------------------------------------------------------------
(* Laps in the order of their numbers. *)

(* A finite set of laps no two of which have one number: those of an entry.*)
Numbered(S) ==
    /\ IsFiniteSet(S)
    /\ \A l \in S : l.lap \in Int
    /\ \A l, m \in S : l.lap = m.lap => l = m

Earlier(S, l) == {m \in S : m.lap < l.lap}

LEMMA EarlierCounted ==
    ASSUME NEW S, Numbered(S), NEW l \in S
    PROVE  /\ IsFiniteSet(Earlier(S, l))
           /\ Cardinality(Earlier(S, l)) \in 0 .. (Cardinality(S) - 1)
<1>1. Earlier(S, l) \in SUBSET (S \ {l})
  BY DEF Earlier, Numbered
<1>2. IsFiniteSet(S \ {l}) /\ Cardinality(S \ {l}) = Cardinality(S) - 1
  BY FS_RemoveElement DEF Numbered
<1>3. /\ IsFiniteSet(Earlier(S, l))
      /\ Cardinality(Earlier(S, l)) <= Cardinality(S \ {l})
  BY <1>1, <1>2, FS_Subset
<1>4. Cardinality(Earlier(S, l)) \in Nat /\ Cardinality(S) \in Nat
  BY <1>3, FS_CardinalityType DEF Numbered
<1>. QED BY <1>2, <1>3, <1>4

(* The number of earlier laps grows with the number of the lap. *)
LEMMA EarlierGrows ==
    ASSUME NEW S, Numbered(S), NEW l \in S, NEW m \in S, l.lap < m.lap
    PROVE  Cardinality(Earlier(S, l)) < Cardinality(Earlier(S, m))
<1>1. l \notin Earlier(S, l)
  BY DEF Earlier, Numbered
<1>2. /\ IsFiniteSet(Earlier(S, l) \cup {l})
      /\ Cardinality(Earlier(S, l) \cup {l}) = Cardinality(Earlier(S, l)) + 1
  BY <1>1, EarlierCounted, FS_AddElement
<1>3. Earlier(S, l) \cup {l} \in SUBSET Earlier(S, m)
  BY DEF Earlier, Numbered
<1>4. Cardinality(Earlier(S, l) \cup {l}) <= Cardinality(Earlier(S, m))
  BY <1>3, EarlierCounted, FS_Subset
<1>. QED BY <1>2, <1>4, EarlierCounted

LEMMA SameRank ==
    ASSUME NEW S, Numbered(S), NEW l \in S, NEW m \in S,
           Cardinality(Earlier(S, l)) = Cardinality(Earlier(S, m))
    PROVE  l = m
<1>1. l.lap \in Int /\ m.lap \in Int
  BY DEF Numbered
<1>2. Cardinality(Earlier(S, l)) \in Int /\ Cardinality(Earlier(S, m)) \in Int
  BY EarlierCounted
<1>3. ~(l.lap < m.lap) /\ ~(m.lap < l.lap)
  BY <1>2, EarlierGrows
<1>. QED BY <1>1, <1>3 DEF Numbered

(* Every place in the order is taken. *)
LEMMA RankTaken ==
    ASSUME NEW S, Numbered(S), NEW i \in 1 .. Cardinality(S)
    PROVE  \E l \in S : Cardinality(Earlier(S, l)) = i - 1
<1> DEFINE n == Cardinality(S)
           rank == [l \in S |-> Cardinality(Earlier(S, l))]
<1>1. n \in Nat
  BY FS_CardinalityType DEF Numbered
<1>2. rank \in Injection(S, 0 .. (n - 1))
  BY EarlierCounted, SameRank DEF Injection, IsInjective
<1>3. IsFiniteSet(0 .. (n - 1)) /\ Cardinality(0 .. (n - 1)) = n
  <2> HIDE DEF n
  <2>1. 0 \in Int /\ n - 1 \in Int
    BY <1>1
  <2>. QED BY <1>1, <2>1, FS_Interval
<1>4. rank \in Surjection(S, 0 .. (n - 1))
  <2>1. Cardinality(S) = Cardinality(0 .. (n - 1))
    BY <1>3
  <2> HIDE DEF n, rank
  <2>. QED BY <1>2, <1>3, <2>1, FS_Injection
<1>5. \E l \in S : rank[l] = i - 1
  <2>1. i - 1 \in 0 .. (n - 1)
    BY <1>1
  <2> HIDE DEF n, rank
  <2>. QED BY <1>4, <2>1 DEF Surjection
<1>. QED BY <1>5

LEMMA OrderedAt ==
    ASSUME NEW S, Numbered(S)
    PROVE  /\ Len(InOrder(S)) = Cardinality(S) /\ Cardinality(S) \in Nat
           /\ InOrder(S) \in Seq(S)
           /\ \A i \in 1 .. Cardinality(S) :
                 /\ InOrder(S)[i] \in S
                 /\ Cardinality(Earlier(S, InOrder(S)[i])) = i - 1
<1>1. Cardinality(S) \in Nat
  BY FS_CardinalityType DEF Numbered
<1>2. ASSUME NEW i \in 1 .. Cardinality(S)
      PROVE  /\ InOrder(S)[i] \in S
             /\ Cardinality(Earlier(S, InOrder(S)[i])) = i - 1
  <2>1. InOrder(S)[i] = CHOOSE l \in S : Cardinality(Earlier(S, l)) = i - 1
    BY DEF InOrder, Earlier
  <2>2. \E l \in S : Cardinality(Earlier(S, l)) = i - 1
    BY RankTaken
  <2>. QED BY <2>1, <2>2
<1>3. InOrder(S) \in [1 .. Cardinality(S) -> S]
  <2> DEFINE n == Cardinality(S)
             At(i) == CHOOSE l \in S : Cardinality({m \in S : m.lap < l.lap}) = i - 1
  <2>1. InOrder(S) = [i \in 1 .. n |-> At(i)]
    BY DEF InOrder
  <2>2. \A i \in 1 .. n : InOrder(S)[i] \in S
    BY <1>2
  <2> HIDE DEF At, n
  <2>3. InOrder(S) \in [1 .. n -> S]
    BY <2>1, <2>2
  <2>. QED BY <2>3 DEF n
<1>. QED BY <1>1, <1>2, <1>3

(* The laps after the k-th are the rest of the sequence. *)
LEMMA OrderedRest ==
    ASSUME NEW S, Numbered(S), NEW k \in 1 .. Cardinality(S)
    PROVE  LET rest == {l \in S : l.lap > InOrder(S)[k].lap}
           IN  /\ Numbered(rest)
               /\ Cardinality(rest) = Cardinality(S) - k
               /\ \A i \in 1 .. Cardinality(rest) :
                     InOrder(rest)[i] = InOrder(S)[k + i]
<1> DEFINE a == InOrder(S)[k]
           rest == {l \in S : l.lap > a.lap}
           upto == Earlier(S, a) \cup {a}
           n == Cardinality(S)
<1>1. a \in S /\ Cardinality(Earlier(S, a)) = k - 1 /\ n \in Nat
  BY OrderedAt
<1>2. Numbered(rest)
  <2>1. rest \in SUBSET S
    OBVIOUS
  <2>2. IsFiniteSet(rest)
    BY <2>1, FS_Subset DEF Numbered
  <2>. QED BY <2>1, <2>2 DEF Numbered
<1>3. IsFiniteSet(upto) /\ Cardinality(upto) = k
  <2>1. a \notin Earlier(S, a) /\ IsFiniteSet(Earlier(S, a))
    BY <1>1, EarlierCounted DEF Earlier, Numbered
  <2> HIDE DEF a
  <2>. QED BY <1>1, <2>1, FS_AddElement
<1>4. S = upto \cup rest /\ upto \cap rest = {}
  <2>1. \A l \in S : l.lap < a.lap \/ l = a \/ l.lap > a.lap
    BY <1>1 DEF Numbered
  <2>2. \A l \in S : l.lap \in Int
    BY DEF Numbered
  <2> HIDE DEF a
  <2>. QED BY <1>1, <2>1, <2>2 DEF Earlier
<1> HIDE DEF a, rest, upto
<1>5. Cardinality(rest) = n - k /\ Cardinality(rest) \in Nat
  <2>1. IsFiniteSet(rest) /\ Cardinality(rest) \in Nat
    BY <1>2, FS_CardinalityType DEF Numbered
  <2>2. Cardinality(upto \cup rest)
            = Cardinality(upto) + Cardinality(rest) - Cardinality(upto \cap rest)
    BY <1>3, <2>1, FS_Union
  <2>3. Cardinality(upto \cap rest) = 0
    BY <1>4, FS_EmptySet
  <2>4. n = Cardinality(upto \cup rest)
    BY <1>4
  <2>. QED BY <1>1, <1>3, <2>1, <2>2, <2>3, <2>4
<1>6. ASSUME NEW i \in 1 .. Cardinality(rest)
      PROVE  InOrder(rest)[i] = InOrder(S)[k + i]
  <2> DEFINE x == InOrder(S)[k + i]
  <2>1. k + i \in 1 .. n
    BY <1>1, <1>5
  <2>2. x \in S /\ Cardinality(Earlier(S, x)) = k + i - 1
    BY <2>1, OrderedAt
  <2> HIDE DEF x
  <2>3. x.lap > a.lap
    <3>1. x.lap \in Int /\ a.lap \in Int
      BY <1>1, <2>2 DEF Numbered
    <3>2. x # a
      BY <1>1, <2>2
    <3>3. ~(x.lap < a.lap)
      BY <1>1, <2>2, EarlierGrows
    <3>. QED BY <1>1, <2>2, <3>1, <3>2, <3>3 DEF Numbered
  <2>4. x \in rest
    BY <2>2, <2>3 DEF rest
  <2>5. Earlier(S, x) = upto \cup Earlier(rest, x)
        /\ upto \cap Earlier(rest, x) = {}
    <3>1. \A l \in upto : l.lap <= a.lap /\ l \in S /\ l.lap \in Int
      BY <1>1 DEF upto, Earlier, Numbered
    <3>2. x.lap \in Int /\ a.lap \in Int
      BY <1>1, <2>2 DEF Numbered
    <3>3. \A l \in upto : l.lap < x.lap
      BY <2>3, <3>1, <3>2
    <3>. QED BY <1>4, <3>1, <3>3 DEF Earlier
  <2>6. IsFiniteSet(Earlier(rest, x)) /\ Cardinality(Earlier(rest, x)) \in Nat
    BY <1>2, <2>4, EarlierCounted
  <2>7. Cardinality(Earlier(rest, x)) = i - 1
    <3>1. Cardinality(upto \cup Earlier(rest, x))
              = Cardinality(upto) + Cardinality(Earlier(rest, x))
                - Cardinality(upto \cap Earlier(rest, x))
      BY <1>3, <2>6, FS_Union
    <3>2. Cardinality(upto \cap Earlier(rest, x)) = 0
      BY <2>5, FS_EmptySet
    <3>3. Cardinality(upto \cup Earlier(rest, x)) = k + i - 1
      BY <2>2, <2>5
    <3>. QED BY <1>1, <1>3, <2>6, <3>1, <3>2, <3>3
  <2>8. /\ InOrder(rest)[i] \in rest
        /\ Cardinality(Earlier(rest, InOrder(rest)[i])) = i - 1
    BY <1>2, OrderedAt
  <2>. QED BY <1>2, <2>4, <2>7, <2>8, SameRank DEF x
<1>. QED BY <1>2, <1>5, <1>6 DEF rest, a

-----------------------------------------------------------------------------
(* Pages. *)

(* The page shows the first k laps of all, says whether more follow, and   *)
(* from where.                                                             *)
Shown(page, all) ==
    \E k \in 0 .. Len(all) :
        /\ page.items = SubSeq(all, 1, k)
        /\ page.more <=> k < Len(all)
        /\ page.more => k > 0 /\ page.next = all[k].lap

(* One version of the rows, as far as the laps of an entry are concerned.  *)
Lapped(rows) ==
    /\ IsFiniteSet(rows.laps)
    /\ \A l \in rows.laps : l.lap \in Int
    /\ \A l, m \in rows.laps : l.entry = m.entry /\ l.lap = m.lap => l = m

LEMMA LapsNumbered ==
    ASSUME NEW rows, Lapped(rows), NEW id
    PROVE  /\ Numbered(LapsOf(rows, id))
           /\ LapsAfter(rows, id, None) = InOrder(LapsOf(rows, id))
<1>1. LapsOf(rows, id) \in SUBSET rows.laps
  BY DEF LapsOf
<1>2. IsFiniteSet(LapsOf(rows, id))
  BY <1>1, FS_Subset DEF Lapped
<1>3. Numbered(LapsOf(rows, id))
  BY <1>1, <1>2 DEF Numbered, LapsOf, Lapped
<1>4. {l \in LapsOf(rows, id) : None # None => l.lap > None} = LapsOf(rows, id)
  OBVIOUS
<1>. QED BY <1>3, <1>4 DEF LapsAfter

(* How many laps a page takes of n.                                        *)
Taken(n) == IF n > PageSize THEN PageSize ELSE n

LEMMA PageOf ==
    ASSUME NEW rows, NEW id, NEW after, NEW all, all = LapsAfter(rows, id, after)
    PROVE  LET page == LapPage(rows, id, after)
           IN  /\ page.items = SubSeq(all, 1, Taken(Len(all)))
               /\ page.more <=> Len(all) > PageSize
               /\ page.more => page.next = all[PageSize].lap
  BY DEF LapPage, Taken

LEMMA FirstPage ==
    ASSUME NEW rows, Lapped(rows), NEW id
    PROVE  Shown(LapPage(rows, id, None), LapsAfter(rows, id, None))
<1> DEFINE all == LapsAfter(rows, id, None)
           page == LapPage(rows, id, None)
<1>1. Len(all) \in Nat
  BY LapsNumbered, OrderedAt
<1>2. /\ page.items = SubSeq(all, 1, Taken(Len(all)))
      /\ page.more <=> Len(all) > PageSize
      /\ page.more => page.next = all[PageSize].lap
  BY PageOf
<1> HIDE DEF all, page
<1>3. PageSize \in Nat \ {0}
  BY ReaderAssumption
<1>4. /\ Taken(Len(all)) \in 0 .. Len(all)
      /\ Len(all) > PageSize <=> Taken(Len(all)) < Len(all)
      /\ Len(all) > PageSize => Taken(Len(all)) = PageSize
  BY <1>1, <1>3 DEF Taken
<1>5. Shown(page, all)
  BY <1>2, <1>3, <1>4 DEF Shown
<1>. QED BY <1>5 DEF all, page

(* The first k of a sequence and the next t of it. *)
LEMMA Continued ==
    ASSUME NEW S, NEW all \in Seq(S), NEW k \in 0 .. Len(all),
           NEW tail \in Seq(S), Len(tail) = Len(all) - k,
           \A i \in 1 .. Len(tail) : tail[i] = all[k + i],
           NEW t \in 0 .. Len(tail)
    PROVE  SubSeq(all, 1, k) \o SubSeq(tail, 1, t) = SubSeq(all, 1, k + t)
<1> DEFINE a == SubSeq(all, 1, k)
           b == SubSeq(tail, 1, t)
           c == SubSeq(all, 1, k + t)
<1>1. k \in Nat /\ t \in Nat /\ Len(all) \in Nat /\ Len(tail) \in Nat
      /\ k + t <= Len(all)
  OBVIOUS
<1>2. a \in Seq(S) /\ Len(a) = k /\ \A i \in 1 .. k : a[i] = all[i]
  OBVIOUS
<1>3. b \in Seq(S) /\ Len(b) = t /\ \A i \in 1 .. t : b[i] = tail[i]
  OBVIOUS
<1>4. c \in Seq(S) /\ Len(c) = k + t /\ \A i \in 1 .. (k + t) : c[i] = all[i]
  BY <1>1
<1> HIDE DEF a, b, c
<1> DEFINE d == a \o b
<1>5. /\ d \in Seq(S) /\ Len(d) = Len(a) + Len(b)
      /\ \A i \in 1 .. Len(a) + Len(b) :
            d[i] = IF i <= Len(a) THEN a[i] ELSE b[i - Len(a)]
  BY <1>2, <1>3, ConcatProperties
<1> HIDE DEF d
<1>6. ASSUME NEW i \in 1 .. (k + t) PROVE d[i] = c[i]
  <2>0. i \in Int /\ d[i] = IF i <= k THEN a[i] ELSE b[i - k]
    BY <1>1, <1>2, <1>3, <1>5
  <2>1. CASE i <= k
    <3>1. i \in 1 .. k
      BY <1>1, <2>1
    <3>2. a[i] = all[i] /\ c[i] = all[i]
      BY <1>2, <1>4, <3>1
    <3>. QED BY <2>0, <2>1, <3>2
  <2>2. CASE ~(i <= k)
    <3>1. i - k \in 1 .. t /\ i - k \in 1 .. Len(tail) /\ k + (i - k) = i
      BY <1>1, <2>2
    <3>2. b[i - k] = all[k + (i - k)]
      BY <1>3, <3>1
    <3>3. b[i - k] = all[i] /\ c[i] = all[i]
      BY <1>4, <3>1, <3>2
    <3>. QED BY <2>0, <2>2, <3>3
  <2>. QED BY <2>1, <2>2
<1>7. d = c
  BY <1>1, <1>2, <1>3, <1>4, <1>5, <1>6, SeqEqual
<1>. QED BY <1>7 DEF a, b, c, d

(* A page that is asked for where another ended continues it. *)
LEMMA NextPage ==
    ASSUME NEW rows, Lapped(rows), NEW id, NEW page,
           Shown(page, LapsAfter(rows, id, None)), page.more
    PROVE  LET next == LapPage(rows, id, page.next)
           IN  Shown([next EXCEPT !.items = page.items \o @],
                     LapsAfter(rows, id, None))
<1> DEFINE S == LapsOf(rows, id)
           all == InOrder(S)
           n == Cardinality(S)
           next == LapPage(rows, id, page.next)
           new == [next EXCEPT !.items = page.items \o @]
<1>1. Numbered(S) /\ LapsAfter(rows, id, None) = all
  BY LapsNumbered
<1>2. /\ Len(all) = n /\ n \in Nat /\ all \in Seq(S)
      /\ \A i \in 1 .. n : all[i] \in S
  BY <1>1, OrderedAt
<1>3. PICK k \in 1 .. (n - 1) : page.items = SubSeq(all, 1, k)
                                 /\ page.next = all[k].lap
  <2> DEFINE Told(i) == /\ page.items = SubSeq(all, 1, i)
                        /\ page.more <=> i < Len(all)
                        /\ page.more => i > 0 /\ page.next = all[i].lap
  <2>1. \E i \in 0 .. Len(all) : Told(i)
    BY <1>1 DEF Shown
  <2>2. PICK i \in 0 .. Len(all) : Told(i)
    BY <2>1
  <2>3. i < n /\ i > 0
    BY <1>2, <2>2
  <2>4. i \in 1 .. (n - 1)
    <3> HIDE DEF all, n
    <3>. QED BY <1>2, <2>2, <2>3
  <2>. QED BY <2>2, <2>4
<1>4. k \in 1 .. n /\ all[k] \in S /\ all[k].lap \in Int
  BY <1>1, <1>2, <1>3 DEF Numbered
<1> DEFINE rest == {l \in S : l.lap > all[k].lap}
<1>5. /\ Numbered(rest) /\ Cardinality(rest) = n - k
      /\ \A i \in 1 .. Cardinality(rest) : InOrder(rest)[i] = all[k + i]
  BY <1>1, <1>4, OrderedRest
<1>6. LapsAfter(rows, id, page.next) = InOrder(rest)
  <2>1. page.next # None /\ page.next = all[k].lap
    BY <1>3, <1>4, MissingAssumption
  <2>2. {l \in S : page.next # None => l.lap > page.next} = rest
    BY <2>1
  <2>. QED BY <2>2 DEF LapsAfter
<1> DEFINE tail == InOrder(rest)
           m == n - k
<1>7. Len(tail) = m /\ tail \in Seq(S) /\ \A i \in 1 .. m : tail[i] = all[k + i]
  <2>1. /\ Len(tail) = m /\ tail \in Seq(rest)
        /\ \A i \in 1 .. m : tail[i] = all[k + i]
    BY <1>5, OrderedAt
  <2>2. rest \subseteq S
    OBVIOUS
  <2> HIDE DEF tail, rest, S
  <2>. QED BY <2>1, <2>2
<1>8. /\ next.items = SubSeq(tail, 1, Taken(m))
      /\ next.more <=> m > PageSize
      /\ next.more => next.next = tail[PageSize].lap
      /\ next = [items |-> next.items, more |-> next.more, next |-> next.next]
  <2>1. next = [items |-> next.items, more |-> next.more, next |-> next.next]
    BY DEF LapPage
  <2>2. LapsAfter(rows, id, page.next) = tail /\ Len(tail) = m
    BY <1>6, <1>7
  <2>3. /\ next.items = SubSeq(tail, 1, Taken(Len(tail)))
        /\ next.more <=> Len(tail) > PageSize
        /\ next.more => next.next = tail[PageSize].lap
    <3> HIDE DEF tail
    <3>. QED BY <2>2, PageOf
  <2> HIDE DEF next, tail, m
  <2>. QED BY <2>1, <2>2, <2>3
<1>9. PageSize \in Nat \ {0}
  BY ReaderAssumption
<1> DEFINE t == Taken(m)
<1>10. /\ t \in 0 .. m
       /\ m > PageSize <=> t < m
       /\ m > PageSize => t = PageSize
  BY <1>2, <1>3, <1>9 DEF Taken
<1> HIDE DEF S, all, n, next, rest, tail, t
<1>11. new.items = page.items \o next.items /\ new.more = next.more
       /\ new.next = next.next
  BY <1>8
<1>12. new.items = SubSeq(all, 1, k + t)
  <2>1. k \in 0 .. Len(all) /\ Len(tail) = Len(all) - k /\ t \in 0 .. Len(tail)
    BY <1>2, <1>4, <1>7, <1>10
  <2>2. \A i \in 1 .. Len(tail) : tail[i] = all[k + i]
    BY <1>7
  <2>3. all \in Seq(S) /\ tail \in Seq(S)
    BY <1>2, <1>7
  <2>4. SubSeq(all, 1, k) \o SubSeq(tail, 1, t) = SubSeq(all, 1, k + t)
    BY <2>1, <2>2, <2>3, Continued
  <2>. QED BY <1>3, <1>8, <1>11, <2>4 DEF t
<1>13. k + t \in 0 .. n /\ (new.more <=> k + t < n)
  BY <1>2, <1>3, <1>8, <1>10, <1>11
<1>14. new.more => k + t > 0 /\ new.next = all[k + t].lap
  <2> SUFFICES ASSUME new.more PROVE k + t > 0 /\ new.next = all[k + t].lap
    OBVIOUS
  <2>1. m > PageSize /\ t = PageSize /\ new.next = tail[PageSize].lap
    BY <1>8, <1>10, <1>11
  <2>2. t \in 1 .. m
    BY <1>2, <1>3, <1>9, <2>1
  <2>. QED BY <1>3, <1>7, <2>1, <2>2
<1>15. Shown(new, all)
  <2> HIDE DEF new
  <2>. QED BY <1>2, <1>12, <1>13, <1>14 DEF Shown
<1>. QED BY <1>1, <1>15 DEF next

-----------------------------------------------------------------------------
(* What is committed stays, and each version has laps that can be ordered. *)

(* The rows a transaction works on have finitely many laps. *)
FewLaps == txn.at \notin {"idle", "loaded"} => IsFiniteSet(txn.rows.laps)

PastInv ==
    \A v \in 1 .. Version : history[v].completed = v - 1 /\ Lapped(history[v])

LEMMA Ordered ==
    ASSUME NEW rows \in Rows, SoundRows(rows), IsFiniteSet(rows.laps)
    PROVE  Lapped(rows)
  BY DEF Rows, LapRow, SoundRows, Lapped

LEMMA VersionKept ==
    ASSUME TxnInv, NEW rows, history' = Append(history, rows) \/ history' = history,
           NEW v \in 1 .. Version
    PROVE  v \in 1 .. Version' /\ history'[v] = history[v] /\ Version \in Nat
  BY DEF TxnInv, HistoryInv, Version

LEMMA Executed ==
    ASSUME NEW rows, NEW accepted, NEW next, Execute(rows, accepted, next),
           txn \in Transactions, FewLaps, IsFiniteSet(rows.laps)
    PROVE  FewLaps'
<1>1. CASE accepted /\ Sound(rows)
  <2>1. txn' = [txn EXCEPT !.at = next, !.rows = rows]
    BY <1>1, Zenon DEF Execute
  <2>2. txn'.rows = rows
    BY <2>1 DEF Transactions
  <2>. QED BY <2>2 DEF FewLaps
<1>2. CASE ~(accepted /\ Sound(rows))
  <2>1. txn' = [NoTxn EXCEPT !.outcome = "refused"]
    BY <1>2, Zenon DEF Execute
  <2>2. txn'.at = "idle"
    BY <2>1 DEF NoTxn
  <2>. QED BY <2>2 DEF FewLaps
<1>. QED BY <1>1, <1>2

(* A batch of laps is finite. *)
LEMMA BatchFinite ==
    ASSUME NEW rows \in Rows, IsFiniteSet(rows.laps), NEW s, Proper(s), NEW b
    PROVE  IsFiniteSet(UpsertLaps(rows, s, b).laps)
<1> DEFINE in == {j \in DOMAIN s.laps : (j - 1) \div BatchSize = b - 1}
           put == {LapRowOf(rows, s.laps[j]) : j \in in}
           kept == {l \in rows.laps : \A m \in put : m.entry # l.entry \/ m.lap # l.lap}
<1>1. UpsertLaps(rows, s, b).laps = kept \cup put
  <2>1. UpsertLaps(rows, s, b) = [rows EXCEPT !.laps = kept \cup put]
    BY DEF UpsertLaps, LapRowOf
  <2> HIDE DEF kept, put
  <2>. QED BY <2>1 DEF Rows
<1>2. IsFiniteSet(in)
  <2>1. DOMAIN s.laps = 1 .. Len(s.laps) /\ Len(s.laps) \in Nat
    BY DEF Proper, Snapshots
  <2>2. IsFiniteSet(DOMAIN s.laps)
    BY <2>1, FS_Interval
  <2>. QED BY <2>2, FS_Subset
<1>3. IsFiniteSet(put)
  <2> DEFINE g == [j \in in |-> LapRowOf(rows, s.laps[j])]
  <2>1. g \in Surjection(in, put)
    BY DEF Surjection
  <2> HIDE DEF in, put, g
  <2>. QED BY <1>2, <2>1, FS_Surjection
<1>4. IsFiniteSet(kept)
  BY FS_Subset
<1> HIDE DEF kept, put
<1>. QED BY <1>1, <1>3, <1>4, FS_Union

LEMMA FewLapsStep ==
    ASSUME TxnInv, PastInv, FewLaps, ArchiveNext
    PROVE  FewLaps'
<1> DEFINE s == txn.snapshot
<1>1. txn \in Transactions
  BY DEF TxnInv
<1>2. txn.at \notin {"idle", "loaded"} =>
        txn.rows \in Rows /\ IsFiniteSet(txn.rows.laps) /\ Proper(s)
  BY Working DEF FewLaps
<1>3. ASSUME NEW f \in Feed, Load(f) PROVE FewLaps'
  BY <1>3 DEF Load, NoTxn, FewLaps
<1>4. CASE Begin
  <2>1. txn'.at \in {"idle", "loaded"} \/ txn'.rows = Committed
    BY <1>1, <1>4 DEF Begin, Transactions, NoTxn
  <2>2. IsFiniteSet(Committed.laps)
    BY DEF Committed, PastInv, Lapped, TxnInv, HistoryInv, Version
  <2>. QED BY <2>1, <2>2 DEF FewLaps
<1>5. CASE Drivers
  <2>1. UpsertDrivers(txn.rows, s).laps = txn.rows.laps
    BY <1>2, <1>5 DEF UpsertDrivers, Drivers, Rows
  <2>. QED BY <1>1, <1>2, <1>5, <2>1, Executed DEF Drivers
<1>6. CASE Clear
  <2>1. ClearUniqueValues(txn.rows, s).laps = txn.rows.laps
    BY <1>2, <1>6 DEF ClearUniqueValues, Clear, Rows
  <2>. QED BY <1>1, <1>2, <1>6, <2>1, Executed DEF Clear
<1>7. CASE PutEntries
  <2>1. UpsertEntries(txn.rows, s).laps = txn.rows.laps
    BY <1>2, <1>7 DEF UpsertEntries, PutEntries, Rows
  <2>. QED BY <1>1, <1>2, <1>7, <2>1, Executed DEF PutEntries
<1>8. CASE PutResults
  <2>1. UpsertResults(txn.rows, s).laps = txn.rows.laps
    BY <1>2, <1>8 DEF UpsertResults, PutResults, Rows
  <2>. QED BY <1>1, <1>2, <1>8, <2>1, Executed DEF PutResults
<1>9. CASE PutLaps
  <2> DEFINE rows == UpsertLaps(txn.rows, s, txn.batch + 1)
  <2>1. txn.rows \in Rows /\ IsFiniteSet(txn.rows.laps) /\ Proper(s)
    BY <1>2, <1>9 DEF PutLaps
  <2>2. IsFiniteSet(rows.laps)
    BY <2>1, BatchFinite
  <2>3. txn'.at = "idle" \/ txn'.rows = rows
    BY <1>1, <1>9 DEF PutLaps, Transactions, NoTxn
  <2>. QED BY <2>2, <2>3 DEF FewLaps
<1>10. CASE DropLaps
  <2>1. DeleteStaleLaps(txn.rows, s).laps \in SUBSET txn.rows.laps
    BY <1>2, <1>10 DEF DeleteStaleLaps, DropLaps, Rows
  <2>2. IsFiniteSet(DeleteStaleLaps(txn.rows, s).laps)
    BY <1>2, <1>10, <2>1, FS_Subset DEF DropLaps
  <2>. QED BY <1>1, <1>10, <2>2, Executed DEF DropLaps
<1>11. CASE DropResults
  <2>1. DeleteStaleResults(txn.rows, s).laps = txn.rows.laps
    BY <1>2, <1>11 DEF DeleteStaleResults, DropResults, Rows
  <2>. QED BY <1>1, <1>2, <1>11, <2>1, Executed DEF DropResults
<1>12. CASE DropEntries
  <2>1. DeleteStaleEntries(txn.rows, s).laps = txn.rows.laps
    BY <1>2, <1>12 DEF DeleteStaleEntries, DropEntries, Rows
  <2>. QED BY <1>1, <1>2, <1>12, <2>1, Executed DEF DropEntries
<1>13. CASE Commit \/ Abort
  BY <1>13 DEF Commit, Abort, NoTxn, FewLaps
<1>. QED BY <1>3, <1>4, <1>5, <1>6, <1>7, <1>8, <1>9, <1>10, <1>11, <1>12,
            <1>13 DEF ArchiveNext

LEMMA PastStep ==
    ASSUME TxnInv, PastInv, FewLaps, ArchiveNext
    PROVE  PastInv'
<1>1. CASE UNCHANGED history
  BY <1>1 DEF PastInv, Version, Lapped
<1>2. CASE Commit
  <2> DEFINE new == Committed'
             old == Committed
  <2>1. /\ new.laps = txn.rows.laps /\ new.completed = old.completed + 1
        /\ SoundRows(new) /\ new \in Rows
    BY <1>2, Published
  <2>2. txn.at = "complete"
    BY <1>2 DEF Commit
  <2>3. IsFiniteSet(new.laps)
    BY <2>1, <2>2 DEF FewLaps
  <2>4. new \in Rows /\ new.completed = Version
    <3>1. old.completed = Version - 1 /\ Version \in Nat
      BY DEF TxnInv, HistoryInv, Version
    <3> HIDE DEF new, old
    <3>. QED BY <2>1, <3>1
  <2>5. Lapped(new)
    BY <2>1, <2>3, <2>4, Ordered
  <2>6. Version' = Version + 1 /\ new = history'[Version']
    BY <1>2 DEF Commit, TxnInv, HistoryInv, Version, Committed
  <2>7. PICK rows : history' = Append(history, rows)
    BY <1>2 DEF Commit
  <2> HIDE DEF new, old
  <2>8. ASSUME NEW v \in 1 .. Version'
        PROVE  history'[v].completed = v - 1 /\ Lapped(history'[v])
    <3>1. CASE v \in 1 .. Version
      <4>1. history'[v] = history[v]
        BY <2>7, <3>1, VersionKept
      <4>. QED BY <3>1, <4>1 DEF PastInv
    <3>2. CASE v \notin 1 .. Version
      <4>1. v = Version' /\ Version \in Nat
        BY <2>6, <3>2 DEF TxnInv, HistoryInv, Version
      <4>. QED BY <2>4, <2>5, <2>6, <4>1
    <3>. QED BY <3>1, <3>2
  <2>. QED BY <2>8 DEF PastInv, Lapped
<1>3. ArchiveNext => UNCHANGED history \/ Commit
  BY DEF ArchiveNext, Load, Begin, Drivers, Clear, PutEntries, PutResults, PutLaps,
         DropLaps, DropResults, DropEntries, Abort
<1>. QED BY <1>1, <1>2, <1>3

-----------------------------------------------------------------------------
(* What the workspace shows, whatever is committed between two pages.      *)

Requests == [kind : {"none", "detail", "results", "laps"}, view : 0 .. Version]

(* The workspace knows versions by their completion time; a page under way *)
(* is the first, or continues what is on screen.                           *)
ReaderInv ==
    /\ request \in Requests
    /\ laps # None =>
           /\ lapSnapshot \in 0 .. (Version - 1)
           /\ Shown(laps, LapsAfter(VersionAt(lapSnapshot), entry, None))
    /\ request.kind = "laps" =>
           IF cursor = None THEN laps = None
           ELSE laps # None /\ laps.more /\ cursor = laps.next
    /\ \A s \in selections :
           /\ s.snapshot \in 0 .. (Version - 1)
           /\ s.laps \subseteq LapsOf(VersionAt(s.snapshot), s.entry)

PagesInv == TxnInv /\ FewLaps /\ PastInv /\ SelectionsComparable /\ ReaderInv

LEMMA VersionAtKept ==
    ASSUME TxnInv, NEW rows, history' = Append(history, rows) \/ history' = history,
           NEW completed \in 0 .. (Version - 1)
    PROVE  /\ completed \in 0 .. (Version' - 1)
           /\ VersionAt(completed)' = history[completed + 1]
           /\ VersionAt(completed) = history[completed + 1]
<1>1. Version \in Nat
  BY DEF TxnInv, HistoryInv, Version
<1>2. completed + 1 \in 1 .. Version
  BY <1>1
<1>3. completed + 1 \in 1 .. Version' /\ history'[completed + 1] = history[completed + 1]
  BY <1>2, VersionKept
<1>4. Version' \in Nat
  BY <1>1 DEF TxnInv, HistoryInv, Version
<1>5. completed \in 0 .. (Version' - 1)
  <2>1. PICK n, m : n = Version' /\ m = Version
    OBVIOUS
  <2>2. n \in Nat /\ completed \in 0 .. (m - 1) /\ completed + 1 \in 1 .. n /\ m \in Nat
    BY <1>1, <1>3, <1>4, <2>1
  <2>3. completed \in 0 .. (n - 1)
    BY <2>2
  <2>. QED BY <2>1, <2>3
<1>6. VersionAt(completed)' = history'[completed + 1]
  BY DEF VersionAt
<1>7. VersionAt(completed) = history[completed + 1]
  BY DEF VersionAt
<1>. QED BY <1>3, <1>5, <1>6, <1>7

LEMMA ViewIsVersion ==
    ASSUME TxnInv, PastInv, request.view \in 1 .. Version
    PROVE  /\ View.completed \in 0 .. (Version - 1)
           /\ VersionAt(View.completed) = View
           /\ Lapped(View)
<1>1. View.completed = request.view - 1 /\ Lapped(View)
  BY DEF PastInv, View
<1>2. Version \in Nat
  BY DEF TxnInv, HistoryInv, Version
<1>. QED BY <1>1, <1>2 DEF VersionAt, View

(* A step of the archive leaves the versions the workspace has seen.       *)
LEMMA ArchiveKeepsPages ==
    ASSUME TxnInv, ReaderInv, UNCHANGED reader,
           NEW rows, history' = Append(history, rows) \/ history' = history
    PROVE  ReaderInv'
<1>1. UNCHANGED <<request, laps, lapSnapshot, entry, cursor, selections>>
  BY DEF reader, workspace
<1>2. \A c \in 0 .. (Version - 1) :
        /\ c \in 0 .. (Version' - 1)
        /\ VersionAt(c)' = VersionAt(c)
  BY VersionAtKept
<1>3. request' \in Requests'
  <2>1. Version \in Nat /\ Version' \in Nat /\ Version <= Version'
    BY DEF TxnInv, HistoryInv, Version
  <2>. QED BY <1>1, <2>1 DEF ReaderInv, Requests
<1>4. laps' # None =>
        /\ lapSnapshot' \in 0 .. (Version' - 1)
        /\ Shown(laps', LapsAfter(VersionAt(lapSnapshot)', entry', None))
  <2> SUFFICES ASSUME laps # None
               PROVE  /\ lapSnapshot \in 0 .. (Version' - 1)
                      /\ Shown(laps, LapsAfter(VersionAt(lapSnapshot)', entry, None))
    BY <1>1
  <2>1. lapSnapshot \in 0 .. (Version - 1)
    BY DEF ReaderInv
  <2>2. PICK c : c = lapSnapshot
    OBVIOUS
  <2>3. lapSnapshot' = c
    BY <1>1, <2>2
  <2>4. VersionAt(lapSnapshot)' = VersionAt(c)'
    BY <2>3 DEF VersionAt
  <2>. QED BY <1>2, <2>1, <2>2, <2>4 DEF ReaderInv
<1>5. \A s \in selections' :
        /\ s.snapshot \in 0 .. (Version' - 1)
        /\ s.laps \subseteq LapsOf(VersionAt(s.snapshot)', s.entry)
  BY <1>1, <1>2 DEF ReaderInv
<1>6. request'.kind = "laps" =>
        IF cursor' = None THEN laps' = None
        ELSE laps' # None /\ laps'.more /\ cursor' = laps'.next
  BY <1>1 DEF ReaderInv
<1>. QED BY <1>3, <1>4, <1>5, <1>6 DEF ReaderInv, LapsAfter, LapsOf

(* Steps of the reader that show no page.                                  *)
LEMMA VersionsStay ==
    ASSUME UNCHANGED archive
    PROVE  Version' = Version /\ \A c : VersionAt(c)' = VersionAt(c)
  BY DEF archive, Version, VersionAt

LEMMA NothingShown ==
    ASSUME ReaderInv, UNCHANGED archive, laps' = None, cursor' = None,
           selections' \subseteq selections,
           request' \in Requests
    PROVE  ReaderInv'
  BY VersionsStay DEF ReaderInv, Requests

LEMMA SameShown ==
    ASSUME ReaderInv, UNCHANGED <<archive, entry, laps, lapSnapshot>>,
           selections' \subseteq selections,
           request' \in Requests,
           request'.kind = "laps" =>
               IF cursor' = None THEN laps = None
               ELSE laps # None /\ laps.more /\ cursor' = laps.next
    PROVE  ReaderInv'
<1>1. Version' = Version /\ \A c : VersionAt(c)' = VersionAt(c)
  BY VersionsStay
<1>2. laps' # None =>
        /\ lapSnapshot' \in 0 .. (Version' - 1)
        /\ Shown(laps', LapsAfter(VersionAt(lapSnapshot)', entry', None))
  <2>1. PICK c : c = lapSnapshot
    OBVIOUS
  <2>2. VersionAt(lapSnapshot)' = VersionAt(c)'
    BY <2>1 DEF VersionAt
  <2>. QED BY <1>1, <2>1, <2>2 DEF ReaderInv
<1>3. \A s \in selections' :
        /\ s.snapshot \in 0 .. (Version' - 1)
        /\ s.laps \subseteq LapsOf(VersionAt(s.snapshot)', s.entry)
  BY <1>1 DEF ReaderInv
<1>. QED BY <1>1, <1>2, <1>3 DEF ReaderInv, LapsAfter, LapsOf, Requests

(* The page that arrives. *)
LEMMA PageArrives ==
    ASSUME PagesInv, LapsArrive
    PROVE  ReaderInv'
<1>1. /\ request.kind = "laps" /\ request.view \in 1 .. Version
      /\ UNCHANGED <<archive, entry>>
  BY DEF PagesInv, ReaderInv, LapsArrive, Answered, TxnInv, HistoryInv, Version, Requests
<1> DEFINE c == View.completed
           all == LapsAfter(View, entry, None)
           page == LapPage(View, entry, cursor)
<1>2. c \in 0 .. (Version - 1) /\ VersionAt(c) = View /\ Lapped(View)
  BY <1>1, ViewIsVersion DEF PagesInv
<1>3. selections' \subseteq selections
  BY DEF LapsArrive, Compatible
<1>4. Version' = Version /\ \A d : VersionAt(d)' = VersionAt(d)
  BY <1>1, VersionsStay
<1>5. CASE Restarted(c)
  <2>1. laps' = None /\ cursor' = None /\ request' = [kind |-> "laps", view |-> 0]
    BY <1>5 DEF LapsArrive, RestartPages, Send
  <2>2. request' \in Requests
    BY <2>1 DEF PagesInv, TxnInv, HistoryInv, Version, Requests
  <2>. QED BY <1>1, <1>3, <2>1, <2>2, NothingShown DEF PagesInv
<1>6. CASE ~Restarted(c)
  <2>1. ShowPage(page, c)
    BY <1>6 DEF LapsArrive
  <2>2. /\ lapSnapshot' = c /\ request' = NoRequest
        /\ laps' = IF cursor = None \/ laps = None THEN page
                   ELSE [page EXCEPT !.items = laps.items \o @]
    BY <2>1 DEF ShowPage
  <2>3. Shown(laps', all)
    <3>1. CASE cursor = None
      <4>1. laps' = LapPage(View, entry, None)
        BY <2>2, <3>1
      <4>. QED BY <1>2, <4>1, FirstPage
    <3>2. CASE cursor # None
      <4>1. laps # None /\ laps.more /\ cursor = laps.next
        BY <1>1, <3>2 DEF PagesInv, ReaderInv
      <4>2. lapSnapshot = c
        BY <1>6, <3>2 DEF Restarted
      <4>3. Shown(laps, all)
        BY <1>2, <4>1, <4>2 DEF PagesInv, ReaderInv
      <4>4. laps' = [LapPage(View, entry, laps.next) EXCEPT !.items = laps.items \o @]
        BY <2>2, <3>2, <4>1
      <4>. QED BY <1>2, <4>1, <4>3, <4>4, NextPage
    <3>. QED BY <3>1, <3>2
  <2>4. VersionAt(lapSnapshot)' = View
    <3>1. PICK d : d = c
      OBVIOUS
    <3>2. VersionAt(lapSnapshot)' = VersionAt(d)'
      BY <2>2, <3>1 DEF VersionAt
    <3>. QED BY <1>2, <1>4, <3>1, <3>2
  <2>5. Shown(laps', LapsAfter(VersionAt(lapSnapshot)', entry', None))
    BY <1>1, <2>3, <2>4
  <2>6. lapSnapshot' \in 0 .. (Version' - 1)
    BY <1>2, <1>4, <2>2
  <2>7. /\ request' \in Requests'
        /\ request'.kind # "laps"
    BY <1>4, <2>2 DEF NoRequest, PagesInv, TxnInv, HistoryInv, Version, Requests
  <2>8. \A s \in selections' :
          /\ s.snapshot \in 0 .. (Version' - 1)
          /\ s.laps \subseteq LapsOf(VersionAt(s.snapshot)', s.entry)
    BY <1>3, <1>4 DEF PagesInv, ReaderInv
  <2>. QED BY <2>5, <2>6, <2>7, <2>8 DEF ReaderInv, LapsAfter, LapsOf
<1>. QED BY <1>5, <1>6

(* Laps on the page are laps of the entry in its snapshot. *)
LEMMA ShownLaps ==
    ASSUME NEW rows, Lapped(rows), NEW id, NEW page,
           Shown(page, LapsAfter(rows, id, None)), NEW lap \in Range(page.items)
    PROVE  lap \in LapsOf(rows, id)
<1> DEFINE all == LapsAfter(rows, id, None)
<1>1. all \in Seq(LapsOf(rows, id))
  BY LapsNumbered, OrderedAt
<1>2. PICK k \in 0 .. Len(all) : page.items = SubSeq(all, 1, k)
  BY DEF Shown
<1> HIDE DEF all
<1>3. SubSeq(all, 1, k) \in Seq(LapsOf(rows, id))
  BY <1>1, <1>2
<1>. QED BY <1>2, <1>3 DEF Range

LEMMA ToggleKeepsPages ==
    ASSUME PagesInv, NEW lap, ToggleLap(lap)
    PROVE  ReaderInv'
<1> DEFINE existing == IF SelectionOf(entry) # {}
                       THEN CHOOSE s \in SelectionOf(entry) : TRUE
                       ELSE [entry |-> entry, snapshot |-> lapSnapshot, laps |-> {}]
           next == Toggled(existing, lap)
           mine == LapsOf(VersionAt(lapSnapshot), entry)
<1>1. /\ laps # None /\ lapSnapshot # None /\ lap \in Range(laps.items)
      /\ UNCHANGED <<archive, entry, laps, cursor, lapSnapshot, request>>
  BY DEF ToggleLap
<1>2. lapSnapshot \in 0 .. (Version - 1)
  BY <1>1 DEF PagesInv, ReaderInv
<1>3. Lapped(VersionAt(lapSnapshot))
  <2>1. lapSnapshot + 1 \in 1 .. Version
    BY <1>2 DEF PagesInv, TxnInv, HistoryInv, Version
  <2>. QED BY <2>1 DEF PagesInv, PastInv, VersionAt
<1>4. lap \in mine
  BY <1>1, <1>3, ShownLaps DEF PagesInv, ReaderInv
<1>5. existing.snapshot = lapSnapshot /\ existing.entry = entry
      /\ existing.laps \subseteq mine
  <2>1. CASE SelectionOf(entry) # {}
    <3>1. existing \in selections /\ existing.entry = entry
      BY <2>1 DEF SelectionOf
    <3>2. existing.snapshot = lapSnapshot
      BY <1>1, <3>1 DEF PagesInv, SelectionsComparable
    <3> HIDE DEF existing
    <3>. QED BY <3>1, <3>2 DEF PagesInv, ReaderInv
  <2>2. CASE SelectionOf(entry) = {}
    BY <2>2
  <2>. QED BY <2>1, <2>2
<1>6. next.snapshot = lapSnapshot /\ next.entry = entry /\ next.laps \subseteq mine
  <2> HIDE DEF existing, mine
  <2>. QED BY <1>4, <1>5 DEF Toggled
<1>7. selections' \subseteq selections \cup {next}
  <2>1. selections' = (selections \ {existing})
                      \cup (IF next.laps = {} THEN {} ELSE {next})
    BY DEF ToggleLap
  <2>. HIDE DEF next, existing
  <2>. QED BY <2>1
<1>. HIDE DEF next, existing
<1>8. Version' = Version /\ \A c : VersionAt(c)' = VersionAt(c)
  BY <1>1, VersionsStay
<1>9. \A s \in selections' :
        /\ s.snapshot \in 0 .. (Version - 1)
        /\ s.laps \subseteq LapsOf(VersionAt(s.snapshot), s.entry)
  BY <1>2, <1>6, <1>7 DEF PagesInv, ReaderInv
<1>10. \A s \in selections' :
         /\ s.snapshot \in 0 .. (Version' - 1)
         /\ s.laps \subseteq LapsOf(VersionAt(s.snapshot)', s.entry)
  BY <1>8, <1>9
<1>11. laps' # None =>
         /\ lapSnapshot' \in 0 .. (Version' - 1)
         /\ Shown(laps', LapsAfter(VersionAt(lapSnapshot)', entry', None))
  <2>1. PICK c : c = lapSnapshot
    OBVIOUS
  <2>2. VersionAt(lapSnapshot)' = VersionAt(c)'
    BY <1>1, <2>1 DEF VersionAt
  <2>. QED BY <1>1, <1>8, <2>1, <2>2 DEF PagesInv, ReaderInv
<1>12. /\ request' \in Requests'
       /\ request'.kind = "laps" =>
            IF cursor' = None THEN laps' = None
            ELSE laps' # None /\ laps'.more /\ cursor' = laps'.next
  BY <1>1, <1>8 DEF PagesInv, ReaderInv, Requests
<1>. QED BY <1>10, <1>11, <1>12 DEF ReaderInv, LapsAfter, LapsOf

(* Where a page ends is a number. *)
LEMMA NextKnown ==
    ASSUME NEW rows, Lapped(rows), NEW id, NEW page,
           Shown(page, LapsAfter(rows, id, None)), page.more
    PROVE  page.next # None
<1> DEFINE S == LapsOf(rows, id)
           all == LapsAfter(rows, id, None)
<1>1. Numbered(S) /\ all = InOrder(S)
  BY LapsNumbered
<1>2. Len(all) \in Nat /\ \A i \in 1 .. Len(all) : all[i].lap \in Int
  BY <1>1, OrderedAt DEF Numbered
<1>3. PICK k \in 0 .. Len(all) : k > 0 /\ page.next = all[k].lap
  BY DEF Shown
<1> HIDE DEF all
<1>4. k \in 1 .. Len(all)
  BY <1>2, <1>3
<1>. QED BY <1>2, <1>3, <1>4, MissingAssumption

LEMMA ReaderStep ==
    ASSUME PagesInv, ReaderNext
    PROVE  ReaderInv'
<1>0. /\ UNCHANGED archive /\ Version \in Nat \ {0} /\ ReaderInv
      /\ request \in Requests
  BY ReaderReads DEF PagesInv, ReaderInv, TxnInv, HistoryInv, Version
<1>1. NoRequest \in Requests /\ NoRequest.kind = "none"
  BY <1>0 DEF NoRequest, Requests
<1>2. \A kind \in {"detail", "results", "laps"} :
        Send(kind) => request' \in Requests /\ request'.kind = kind
  BY <1>0 DEF Send, Requests
<1>3. CASE Open \/ Close
  <2>1. laps' = None /\ cursor' = None /\ selections' = {} /\ request' \in Requests
    BY <1>1, <1>2, <1>3 DEF Open, Close, Reset
  <2>. QED BY <1>0, <2>1, NothingShown DEF Requests
<1>4. CASE BeginRead
  <2>1. request' \in Requests /\ request'.kind = request.kind
    BY <1>0, <1>4 DEF BeginRead, Requests
  <2>. QED BY <1>0, <1>4, <2>1, SameShown DEF Requests, BeginRead, workspace, ReaderInv
<1>5. CASE DetailArrives
  <2>1. request' \in Requests /\ request'.kind # "laps"
    BY <1>1, <1>2, <1>5 DEF DetailArrives
  <2>. QED BY <1>0, <1>5, <2>1, SameShown DEF Requests, DetailArrives
<1>6. CASE ResultsArrive
  BY <1>0, <1>1, <1>6, SameShown DEF Requests, ResultsArrive
<1>7. CASE LapsArrive
  BY <1>7, PageArrives
<1>8. CASE EntryGone \/ RequestFails
  BY <1>0, <1>1, <1>8, SameShown DEF Requests, EntryGone, RequestFails, workspace
<1>9. ASSUME NEW id \in 1 .. lastId, SelectEntry(id) PROVE ReaderInv'
  <2>1. laps' = None /\ cursor' = None /\ selections' = selections /\ request' \in Requests
    BY <1>2, <1>9 DEF SelectEntry
  <2>. QED BY <1>0, <2>1, NothingShown DEF Requests
<1>10. CASE LoadMore
  <2>1. /\ laps # None /\ laps.more /\ cursor' = laps.next /\ request' \in Requests
        /\ UNCHANGED <<archive, entry, laps, lapSnapshot, selections>>
    BY <1>2, <1>10 DEF LoadMore
  <2>2. laps.next # None
    <3> DEFINE rows == VersionAt(lapSnapshot)
    <3>1. lapSnapshot + 1 \in 1 .. Version /\ Shown(laps, LapsAfter(rows, entry, None))
      BY <1>0, <2>1 DEF ReaderInv
    <3>2. Lapped(rows)
      BY <3>1 DEF PagesInv, PastInv, VersionAt
    <3> HIDE DEF rows
    <3>. QED BY <2>1, <3>1, <3>2, NextKnown
  <2>. QED BY <1>0, <2>1, <2>2, SameShown DEF Requests
<1>11. ASSUME NEW lap \in Range(laps.items), ToggleLap(lap) PROVE ReaderInv'
  BY <1>11, ToggleKeepsPages
<1>12. ASSUME NEW s \in selections, ClearSelection(s) PROVE ReaderInv'
  <2>1. /\ UNCHANGED <<archive, entry, laps, lapSnapshot, cursor, request>>
        /\ selections' \subseteq selections
    BY <1>12 DEF ClearSelection
  <2>. QED BY <1>0, <2>1, SameShown DEF Requests, ReaderInv
<1>. QED BY <1>3, <1>4, <1>5, <1>6, <1>7, <1>8, <1>9, <1>10, <1>11, <1>12
         DEF ReaderNext

LEMMA PagesStep == PagesInv /\ [Next]_vars => PagesInv'
<1> SUFFICES ASSUME PagesInv, [Next]_vars PROVE PagesInv'
  OBVIOUS
<1>1. TxnInv' /\ SelectionsComparable'
  BY TxnStep, StepPreserves DEF PagesInv
<1>2. CASE ArchiveNext /\ UNCHANGED reader
  <2>1. FewLaps' /\ PastInv'
    BY <1>2, FewLapsStep, PastStep DEF PagesInv
  <2>2. \E rows : history' = Append(history, rows) \/ history' = history
    BY <1>2 DEF ArchiveNext, Load, Begin, Drivers, Clear, PutEntries, PutResults,
       PutLaps, DropLaps, DropResults, DropEntries, Commit, Abort
  <2>3. ReaderInv'
    BY <1>2, <2>2, ArchiveKeepsPages DEF PagesInv
  <2>. QED BY <1>1, <2>1, <2>3 DEF PagesInv
<1>3. ASSUME UNCHANGED archive PROVE FewLaps' /\ PastInv'
  BY <1>3 DEF archive, PagesInv, FewLaps, PastInv, Version, Lapped
<1>4. CASE ReaderNext
  BY <1>1, <1>3, <1>4, ReaderReads, ReaderStep DEF PagesInv
<1>5. CASE UNCHANGED vars
  <2>1. UNCHANGED archive /\ UNCHANGED reader /\ history' = history
    BY <1>5 DEF vars, archive
  <2>2. ReaderInv'
    BY <2>1, ArchiveKeepsPages DEF PagesInv
  <2>. QED BY <1>1, <1>3, <2>1, <2>2 DEF PagesInv
<1>. QED BY <1>2, <1>4, <1>5 DEF Next

LEMMA PagesInit == Init => PagesInv
<1> SUFFICES ASSUME Init PROVE PagesInv
  OBVIOUS
<1>1. TxnInv /\ SelectionsComparable
  BY TxnInit DEF Init, ReaderInit, SelectionsComparable
<1>2. history = <<NoRows>> /\ txn = NoTxn /\ Version = 1 /\ history[1] = NoRows
  BY DEF Init, ArchiveInit, Version
<1>3. FewLaps
  BY <1>2 DEF FewLaps, NoTxn
<1>4. PastInv
  BY <1>2, FS_EmptySet DEF PastInv, Lapped, NoRows
<1>5. ReaderInv
  BY <1>2 DEF ReaderInv, Init, ReaderInit, NoRequest, Requests
<1>. QED BY <1>1, <1>3, <1>4, <1>5 DEF PagesInv

(* The laps on screen are the first laps of the entry in one version, none *)
(* missing and none twice, and the selected laps are those of theirs,      *)
(* however often the session is replaced between two pages                 *)
(* (read_session_laps and the laps effect of SessionExplorer.tsx).         *)
THEOREM PagesOfOneSnapshot == Spec => []LapsOfOneSnapshot
<1>1. PagesInv => LapsOfOneSnapshot
  <2> SUFFICES ASSUME PagesInv PROVE LapsOfOneSnapshot
    OBVIOUS
  <2>1. ASSUME laps # None
        PROVE  LET all == LapsAfter(VersionAt(lapSnapshot), entry, None)
               IN  /\ laps.items = SubSeq(all, 1, Len(laps.items))
                   /\ laps.more <=> Len(laps.items) < Len(all)
    <3> DEFINE rows == VersionAt(lapSnapshot)
               all == LapsAfter(rows, entry, None)
    <3>1. lapSnapshot + 1 \in 1 .. Version /\ Shown(laps, all)
      BY <2>1 DEF PagesInv, ReaderInv, TxnInv, HistoryInv, Version
    <3>2. Lapped(rows)
      BY <3>1 DEF PagesInv, PastInv, VersionAt
    <3>3. all \in Seq(LapsOf(rows, entry))
      BY <3>2, LapsNumbered, OrderedAt
    <3>4. PICK k \in 0 .. Len(all) :
            /\ laps.items = SubSeq(all, 1, k)
            /\ laps.more <=> k < Len(all)
      BY <3>1 DEF Shown
    <3> HIDE DEF all
    <3>5. Len(SubSeq(all, 1, k)) = k
      BY <3>3, <3>4
    <3>6. /\ laps.items = SubSeq(all, 1, Len(laps.items))
          /\ laps.more <=> Len(laps.items) < Len(all)
      BY <3>4, <3>5
    <3>. QED BY <3>6 DEF all
  <2>. QED BY <2>1 DEF LapsOfOneSnapshot, PagesInv, ReaderInv
<1>. QED BY <1>1, PagesInit, PagesStep, PTL DEF Spec
=============================================================================
