--------------------------- MODULE SeasonSchedule ---------------------------
(***************************************************************************)
(* What a season's schedule is and when it calls for work: the             *)
(* normalisation of FastF1's season index (fastf1_schedule.py), the        *)
(* freshness policy of coverage and archive (freshness_policy.py) and the  *)
(* status a season is shown with (season_status.py).  No state: the        *)
(* planner and the overview use these operators.                           *)
(*                                                                         *)
(* A meeting is what FastF1 says of one event: its name, whether it has a  *)
(* number other than 0, and its sessions in order, each with a key,        *)
(* whether it is usable (it has a name and a key other than -1), and its   *)
(* boundaries in UTC.  Text, time zones and the sessions' display names    *)
(* are left out.                                                           *)
(***************************************************************************)
EXTENDS Integers, Sequences, FiniteSets

CONSTANTS
    Event,          \* events the curated schedule may hold, by name
    Testing,        \* the name of a test event, which is no championship event
    Key,            \* session keys
    Order,          \* event -> its place in the calendar, which gives rounds
    Grace,          \* settings.archive_availability_grace, in ticks
    Checkpoints,    \* settings.archive_correction_checkpoints, in ticks
    CoverageTTL     \* settings.current_season_coverage_ttl, in ticks

None == -1          \* a NULL timestamp
SessionLimit == 5   \* an event has at most five sessions

Round == 1 .. Cardinality(Event)
Slot == Round \X Key            \* a session row: what it is found by

(* BackfillRuntimeSettings.__post_init__: corrections are later than the   *)
(* first archiving, and coverage lasts.                                    *)
SettingsValid ==
    /\ Grace \in Nat
    /\ CoverageTTL \in Nat \ {0}
    /\ Checkpoints \subseteq Nat /\ Checkpoints # {}
    /\ \A c \in Checkpoints : c > Grace

ASSUME ScheduleAssumption ==
    /\ SettingsValid
    /\ IsFiniteSet(Event) /\ Testing \notin Event
    /\ Order \in [Event -> Nat]
    /\ \A e, f \in Event : Order[e] = Order[f] => e = f

-----------------------------------------------------------------------------
(* Normalisation of the season index. *)

(* The curated schedule numbers its events: a cancelled event gives its    *)
(* round to the next.                                                      *)
RoundOf(e, curated) == Cardinality({f \in curated : Order[f] <= Order[e]})

(* Entries without a number are passed over, like test events.             *)
Championship(meetings) ==
    {m \in meetings : m.event # Testing /\ m.numbered}

(* The places of a meeting's first usable sessions. *)
Usable(m) ==
    LET named == {i \in DOMAIN m.sessions : m.sessions[i].usable}
    IN  {i \in named : Cardinality({j \in named : j <= i}) <= SessionLimit}

(* One event: at least one usable session, no key twice, every session     *)
(* ends after it starts.                                                   *)
WellFormed(m) ==
    /\ Usable(m) # {}
    /\ \A i, j \in Usable(m) :
           m.sessions[i].key = m.sessions[j].key => i = j
    /\ \A i \in Usable(m) : m.sessions[i].start < m.sessions[i].end

(* The index as a whole: the curated schedule knows every event and gives  *)
(* it its round, so two meetings of one event are a duplicate round; one   *)
(* bad event fails the whole load.                                         *)
Acceptable(meetings, curated) ==
    /\ curated # {}
    /\ Championship(meetings) # {}
    /\ \A m \in Championship(meetings) : m.event \in curated /\ WellFormed(m)
    /\ \A m, n \in Championship(meetings) : m.event = n.event => m = n

Listed(meetings) == {m.event : m \in meetings}

(* Curated events without an entry in the season index, whatever the entry *)
(* is worth.                                                               *)
MissingEvents(meetings, curated) == curated \ Listed(meetings)

(* Curated events whose only entries are passed over.                      *)
SkippedEvents(meetings, curated) ==
    {e \in curated : /\ e \in Listed(meetings)
                     /\ e \notin Listed(Championship(meetings))}

(* The normalised sessions by round and key: whose they are and when each  *)
(* ends, which is what planning needs.                                     *)
Scheduled(meetings, curated) ==
    LET Sessions(m) ==
            {[slot |-> <<RoundOf(m.event, curated), m.sessions[i].key>>,
              event |-> m.event, end |-> m.sessions[i].end] :
                i \in Usable(m)}
        listed == UNION {Sessions(m) : m \in Championship(meetings)}
    IN  [slot \in {x.slot : x \in listed} |->
            CHOOSE x \in listed : x.slot = slot]

-----------------------------------------------------------------------------
(* Freshness of coverage and of archived data. *)

RefreshRequired(validUntil, t) == validUntil = None \/ validUntil <= t

(* Mutant: data completed in the instant of a checkpoint is too old. *)
UnsatisfiedInclusive(end, completed) ==
    {c \in Checkpoints : completed <= end + c}

Unsatisfied(end, completed) == {c \in Checkpoints : completed < end + c}

(* initial_archive or correction_checkpoint: data is due. *)
Eligible(end, completed, t) ==
    IF completed = None
    THEN end + Grace <= t
    ELSE \E c \in Unsatisfied(end, completed) : end + c <= t

-----------------------------------------------------------------------------
(* The status of a season, from the facts the overview counts. *)

SeasonStatus(facts) ==
    LET gap == \E k \in {"pending", "running", "failed", "refresh"} :
                   facts.required[k] > 0
    IN  IF facts.available > 0 /\ gap THEN "partial"
        ELSE IF facts.required["running"] > 0 THEN "running"
        ELSE IF facts.active \/ facts.required["pending"] > 0 THEN "pending"
        ELSE IF facts.required["failed"] > 0 THEN "failed"
        ELSE IF facts.available > 0 /\ facts.stale THEN "stale"
        ELSE IF facts.available > 0 THEN "completed"
        ELSE "missing"
=============================================================================
