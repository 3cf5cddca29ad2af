-------------------------- MODULE SportingSnapshot --------------------------
(***************************************************************************)
(* What one loaded FastF1 session becomes: the normalisation of its        *)
(* results and laps (fastf1_normalization.py) and the contract that the    *)
(* persistence checks again (_validate_snapshot of archive_persistence.py).*)
(*                                                                         *)
(* A feed is [rows, laps], two sequences of records in the order of the    *)
(* data frames.  A row has a driver id, a car number and an abbreviation,  *)
(* each possibly None, and a name or not; a lap names its car by number,   *)
(* by abbreviation or by both.  Texts are spelled in several ways:         *)
(* Canonical gives the one name behind each spelling, and None for blanks  *)
(* and for the sentinels FastF1 writes where it has no id.                 *)
(***************************************************************************)
EXTENDS Integers, Sequences, FiniteSets

CONSTANTS
    None,           \* a missing value
    Spelling,       \* how FastF1 may write an id, a number or a short name
    Canonical       \* spelling -> the name it stands for, or None

ASSUME SpellingAssumption == DOMAIN Canonical = Spelling
ASSUME MissingAssumption == None \notin Int

(* What the loader hands over: pandas gives a number or a missing value.   *)
Text == Spelling \cup {None}
Measure == Int \cup {None}

FeedRow == [driver: Text, number: Text, abbreviation: Text, named: BOOLEAN,
            position: Measure, completed: Measure, time: Measure]
FeedLap == [number: Text, abbreviation: Text, lap: Int, time: Measure,
            start: Measure]

\* _optional_identifier, _optional_racing_number, _optional_text().upper()
Name(text) == IF text = None THEN None ELSE Canonical[text]

(* _optional_integral, _optional_duration_us: missing, or at least minimum. *)
AtLeast(minimum, value) == value = None \/ value >= minimum

-----------------------------------------------------------------------------
(* Session entries. *)

Driver(row) == Name(row.driver)
Number(row) == Name(row.number)
Short(row) == Name(row.abbreviation)

(* _entry_key: the driver's id, else the car number. *)
EntryKey(row) ==
    IF Driver(row) # None THEN <<"driver", Driver(row)>>
                          ELSE <<"car-number", Number(row)>>

(* No two rows agree on a value, missing values apart. *)
Distinct(rows, Value(_)) ==
    \A i, j \in DOMAIN rows :
        i # j /\ Value(rows[i]) # None => Value(rows[i]) # Value(rows[j])

(* The row loop of normalize_fastf1_session: every row has an identity and *)
(* a usable name, and the identities do not repeat.  FastF1 often leaves   *)
(* the abbreviation as the only name.                                      *)
EntriesSound(rows) ==
    /\ rows # <<>>
    /\ \A i \in DOMAIN rows :
           /\ Driver(rows[i]) # None \/ Number(rows[i]) # None
           /\ rows[i].named \/ Short(rows[i]) # None
    /\ Distinct(rows, EntryKey)
    /\ Distinct(rows, Driver)
    /\ Distinct(rows, Number)
    /\ Distinct(rows, Short)

Entries(rows) ==
    [i \in DOMAIN rows |->
        [key |-> EntryKey(rows[i]), driver |-> Driver(rows[i]),
         number |-> Number(rows[i])]]

-----------------------------------------------------------------------------
(* Results: _normalize_results. *)

Winners(rows) == {i \in DOMAIN rows : rows[i].position = 1}

(* Counts and durations are in range; a race and a sprint have exactly one *)
(* winner.                                                                 *)
ResultsSound(rows, raceLike) ==
    /\ \A i \in DOMAIN rows :
           /\ AtLeast(1, rows[i].position) /\ AtLeast(0, rows[i].completed)
           /\ AtLeast(0, rows[i].time)
    /\ raceLike => Cardinality(Winners(rows)) = 1

(* FastF1 gives the winner's time, and everyone else's gap to it, in one   *)
(* column; the laps behind follow from the laps completed.                 *)
LapsBehind(winner, row) ==
    IF winner.completed = None \/ row.completed = None THEN None
    ELSE IF winner.completed > row.completed
         THEN winner.completed - row.completed ELSE 0

ResultOf(row, winner) ==
    [key |-> EntryKey(row), position |-> row.position,
     elapsed |-> IF row = winner THEN row.time ELSE None,
     gap |-> IF row = winner THEN 0 ELSE row.time,
     behind |-> IF row = winner THEN 0 ELSE LapsBehind(winner, row)]

Results(rows, raceLike) ==
    [i \in DOMAIN rows |->
        IF raceLike
        THEN ResultOf(rows[i], rows[CHOOSE w \in Winners(rows) : TRUE])
        ELSE [key |-> EntryKey(rows[i]), position |-> rows[i].position,
              elapsed |-> None, gap |-> None, behind |-> None]]

-----------------------------------------------------------------------------
(* Laps: _normalize_laps and _lap_entry. *)

(* The row of a lap: by its number, which must then exist and not          *)
(* contradict the abbreviation, else by its abbreviation.                  *)
RowOfLap(rows, lap) ==
    {i \in DOMAIN rows :
        IF Name(lap.number) # None
        THEN /\ Number(rows[i]) = Name(lap.number)
             /\ \/ Name(lap.abbreviation) = None
                \/ Short(rows[i]) = None
                \/ Short(rows[i]) = Name(lap.abbreviation)
        ELSE /\ Name(lap.abbreviation) # None
             /\ Short(rows[i]) = Name(lap.abbreviation)}

KeyOfLap(rows, lap) ==
    EntryKey(rows[CHOOSE i \in RowOfLap(rows, lap) : TRUE])

(* Every lap belongs to an entry and no entry has a lap twice.  A lap time *)
(* is a duration; its start is an instant counted from the session's       *)
(* official start, which it may precede.                                   *)
LapsSound(rows, laps) ==
    /\ \A j \in DOMAIN laps :
           /\ RowOfLap(rows, laps[j]) # {}
           /\ laps[j].lap >= 1 /\ AtLeast(0, laps[j].time)
    /\ \A i, j \in DOMAIN laps :
           i # j /\ laps[i].lap = laps[j].lap
               => KeyOfLap(rows, laps[i]) # KeyOfLap(rows, laps[j])

Laps(rows, laps) ==
    [j \in DOMAIN laps |->
        [key |-> KeyOfLap(rows, laps[j]), lap |-> laps[j].lap,
         time |-> laps[j].time, start |-> laps[j].start]]

-----------------------------------------------------------------------------
(* normalize_fastf1_session. *)

Normalisable(feed, raceLike) ==
    /\ EntriesSound(feed.rows)
    /\ ResultsSound(feed.rows, raceLike)
    /\ LapsSound(feed.rows, feed.laps)

Normalised(feed, raceLike) ==
    [drivers |-> {Driver(feed.rows[i]) : i \in DOMAIN feed.rows} \ {None},
     entries |-> Entries(feed.rows),
     results |-> Results(feed.rows, raceLike),
     laps |-> Laps(feed.rows, feed.laps)]

(* _validate_snapshot of archive_persistence.py. *)
Keys(records) == {records[i].key : i \in DOMAIN records}

ValidSnapshot(s) ==
    /\ s.entries # <<>>
    /\ Cardinality(Keys(s.entries)) = Len(s.entries)
    /\ {s.entries[i].driver : i \in DOMAIN s.entries} \ {None} = s.drivers
    /\ Cardinality(Keys(s.results)) = Len(s.results)
    /\ Keys(s.results) = Keys(s.entries)
    /\ \A i, j \in DOMAIN s.laps :
           i # j => \/ s.laps[i].key # s.laps[j].key
                    \/ s.laps[i].lap # s.laps[j].lap
    /\ Keys(s.laps) \subseteq Keys(s.entries)
=============================================================================
