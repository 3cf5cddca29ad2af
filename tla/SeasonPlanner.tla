--------------------------- MODULE SeasonPlanner ---------------------------
(***************************************************************************)
(* How a season's sessions come to be archived: schedule coverage, its     *)
(* refresh from FastF1, the planning of due sessions and the corrections   *)
(* that follow (season_backfill.py, fastf1_schedule.py, worker.py, the     *)
(* planning loop of backfill_worker.py, seasons.py, season_overview.py).   *)
(*                                                                         *)
(* Two kinds of process call ensure_season_backfill: the archive worker,   *)
(* which plans and archives in one loop, and API requests.  Coverage is    *)
(* checked without a lock, the schedule is loaded outside a transaction,   *)
(* and one transaction under the season's advisory lock decides again.     *)
(* That transaction reads the clock first and then waits for row locks, so *)
(* it takes three steps here.  READ COMMITTED: each statement sees what is *)
(* committed by then.                                                      *)
(*                                                                         *)
(* The queue is abstracted: attempts, leases and the job's aggregation are *)
(* ArchiveLeases'.  What matters here is when a session's data is          *)
(* completed, by which clock reading, and under which row locks.           *)
(*                                                                         *)
(* One season, the current one; time is the clock of PostgreSQL, which the *)
(* API and the worker share up to less than a tick.                        *)
(***************************************************************************)
EXTENDS SeasonSchedule

CONSTANTS
    Worker,         \* the planner that runs in the archive worker's loop
    Request,        \* API requests that may plan at the same time
    Nil,            \* nothing loaded, no lock held
    StartAt,        \* event -> its curated start
    Meeting,        \* what upstream may say of an event
    Calendar,       \* the meetings upstream announces at first
    MaxTime,        \* bound: the clock
    LastChange,     \* bound: upstream changes no more after it
    MaxChanges,     \* bound: changes of upstream
    MaxFailures,    \* bound: loads and archive attempts that fail
    MaxHold         \* ticks within which a schedule read is used or dropped

Planner == {Worker} \cup Request

ASSUME PlannerAssumption ==
    /\ Worker \notin Request /\ Nil \notin Planner
    /\ IsFiniteSet(Key)
    /\ \A m \in Meeting : \A i \in Usable(m) :
           m.sessions[i].key \in Key /\ m.sessions[i].end \in Int
    /\ StartAt \in [Event -> Nat]
    /\ Calendar \subseteq Meeting
    /\ MaxTime \in Nat /\ LastChange \in Nat
    /\ MaxChanges \in Nat /\ MaxFailures \in Nat
    /\ MaxHold \in Nat /\ MaxHold < CoverageTTL

VARIABLES
    now,            \* PostgreSQL's clock
    index,          \* meetings of FastF1's season index
    details,        \* meetings whose per-session metadata is published
    curated,        \* events of the curated schedule
    season,         \* coverage_checked_at and coverage_valid_until
    race_session,   \* slot -> last_discovered_at, scheduled_end_at, its event
    deferred,       \* round -> discovered_at of its deferred row
    ingestion,      \* slot -> status, completed_at, whose data it holds
    job,            \* children of the active job: slot -> status
    advisory,       \* who holds the season's advisory lock
    planner,        \* where each planner is
    persisting,     \* the archive attempt of the worker
    reads,          \* history: when the season index in force was read
    members,        \* history: curated events when it was read
    skipped,        \* history: those of them it only lists without a number
    loads,          \* history: completed archive attempts, by slot
    changes, failures

upstream == <<index, details, curated, changes>>
archive == <<ingestion, job, persisting, loads>>
coverage == <<season, race_session, deferred, reads, members, skipped>>
vars == <<now, index, details, curated, season, race_session, deferred,
          ingestion, job, advisory, planner, persisting, reads, members,
          skipped, loads, changes, failures>>

-----------------------------------------------------------------------------

Unseen == [seen |-> None, end |-> None, event |-> Nil]
NoIngestion == [status |-> "absent", completed |-> None, about |-> Nil]
NotPersisting == [pc |-> "idle", slot |-> Nil, at |-> None, about |-> Nil]

Active == {"pending", "running"}
Status == {"absent", "pending", "running", "completed", "failed"}
JobActive == \E s \in Slot : job[s] # "absent"

(* A planner outside ensure_season_backfill, and one that has loaded a     *)
(* schedule: normalised sessions, deferred events and, as history, the     *)
(* curated events and the instant of the read.                             *)
Idle == [pc |-> "idle", tries |-> 0, loaded |-> Nil, at |-> None,
         meetings |-> {}, later |-> {}, todo |-> {}, known |-> {}]

Loaded(p) == planner[p].loaded # Nil

Due(t) == RefreshRequired(season.valid, t)

Times == 0 .. MaxTime
Stamps == Times \cup {None}

(* What a load yields, and what a planner remembers. *)
Schedule == UNION {[d -> [slot: Slot, event: Event, end: Int]] :
                      d \in SUBSET Slot}
Snapshot == [sessions: Schedule, later: SUBSET Event, members: SUBSET Event,
             skipped: SUBSET Event, read: Times]
Memory == [pc: {"idle", "check", "load", "detail", "lock", "rows", "write",
                "plan"},
           tries: Nat, loaded: Snapshot \cup {Nil}, at: Stamps,
           meetings: SUBSET Meeting, later: SUBSET Event,
           todo: SUBSET Event, known: SUBSET Event]

(* The types of all rows, and that a planner holds the season's advisory   *)
(* lock exactly while its planning transaction is open.                    *)
TypeOK ==
    /\ now \in Times
    /\ index \subseteq Meeting /\ details \subseteq Meeting
    /\ curated \subseteq Event
    /\ season \in [checked: Stamps, valid: Int]
    /\ race_session \in [Slot -> [seen: Stamps, end: Int, event: Event \cup {Nil}]]
    /\ deferred \in [Round -> Stamps]
    /\ ingestion \in [Slot -> [status: Status, completed: Stamps,
                               about: Event \cup {Nil}]]
    /\ job \in [Slot -> Status]
    /\ advisory \in Planner \cup {Nil}
    /\ planner \in [Planner -> Memory]
    /\ \A p \in Planner :
           planner[p].pc \in {"rows", "write", "plan"} <=> advisory = p
    /\ persisting \in [pc: {"idle", "fetch", "stamped", "aggregate"},
                       slot: Slot \cup {Nil}, at: Stamps,
                       about: Event \cup {Nil}]
    /\ reads \in Stamps /\ members \subseteq Event /\ skipped \subseteq Event
    /\ loads \in [Slot -> Nat]
    /\ changes \in 0 .. MaxChanges /\ failures \in 0 .. MaxFailures

Init ==
    /\ now = 0
    /\ index = Calendar /\ details = {} /\ curated = Event
    /\ season = [checked |-> None, valid |-> None]
    /\ race_session = [s \in Slot |-> Unseen]
    /\ deferred = [r \in Round |-> None]
    /\ ingestion = [s \in Slot |-> NoIngestion]
    /\ job = [s \in Slot |-> "absent"]
    /\ advisory = Nil
    /\ planner = [p \in Planner |-> Idle]
    /\ persisting = NotPersisting
    /\ reads = None /\ members = {} /\ skipped = {}
    /\ loads = [s \in Slot |-> 0]
    /\ changes = 0 /\ failures = 0

-----------------------------------------------------------------------------
(* Coverage: the check without a lock and the load of the schedule. *)

(* _coverage_refresh_required, unless a schedule is already at hand. *)
Checked(p, tries) ==
    planner' = [planner EXCEPT
        ![p].tries = tries,
        ![p].pc = IF ~Loaded(p) /\ Due(now) THEN "load" ELSE "lock"]

(* An API request, or the worker's loop when planning is due: the worker   *)
(* does one thing at a time.                                               *)
Begin(p) ==
    /\ planner[p].pc = "idle"
    /\ p = Worker => persisting.pc = "idle"
    /\ Checked(p, 1)
    /\ UNCHANGED <<now, upstream, archive, coverage, advisory, failures>>

Recheck(p) ==
    /\ planner[p].pc = "check"
    /\ Checked(p, 2)
    /\ UNCHANGED <<now, upstream, archive, coverage, advisory, failures>>

(* FastF1SessionLoader's lock serialises loads across processes.  The      *)
(* season index and the curated schedule are read without FastF1's cache.  *)
ReadIndex(p) ==
    /\ planner[p].pc = "load"
    /\ \A q \in Planner : planner[q].pc # "detail"
    /\ planner' = [planner EXCEPT
           ![p].pc = "detail", ![p].at = now, ![p].meetings = index,
           ![p].known = curated, ![p].todo = MissingEvents(index, curated)]
    /\ UNCHANGED <<now, upstream, archive, coverage, advisory, failures>>

(* Mutant: an event without metadata is passed over. *)
LoadMissingForgotten(p, e) ==
    /\ planner[p].pc = "detail" /\ e \in planner[p].todo
    /\ LET published == {m \in details : m.event = e}
           waits == StartAt[e] > planner[p].at
       IN  planner' = [planner EXCEPT
               ![p].todo = @ \ {e},
               ![p].later = IF waits THEN @ \cup {e} ELSE @,
               ![p].meetings = IF waits THEN @ ELSE @ \cup published]
    /\ UNCHANGED <<now, upstream, archive, coverage, advisory, failures>>

(* A curated event that the index lacks: deferred when it has not begun,   *)
(* else read session by session, and deferred when upstream has no session *)
(* metadata yet (SessionNotAvailableError).                                *)
LoadMissing(p, e) ==
    /\ planner[p].pc = "detail" /\ e \in planner[p].todo
    /\ LET published == {m \in details : m.event = e}
           waits == StartAt[e] > planner[p].at \/ published = {}
       IN  planner' = [planner EXCEPT
               ![p].todo = @ \ {e},
               ![p].later = IF waits THEN @ \cup {e} ELSE @,
               ![p].meetings = IF waits THEN @ ELSE @ \cup published]
    /\ UNCHANGED <<now, upstream, archive, coverage, advisory, failures>>

EndLoad(p) ==
    /\ planner[p].pc = "detail" /\ planner[p].todo = {}
    /\ LET l == planner[p]
       IN  planner' = [planner EXCEPT ![p] =
               IF Acceptable(l.meetings, l.known)
               THEN [Idle EXCEPT
                        !.pc = "lock", !.tries = l.tries,
                        !.loaded = [sessions |-> Scheduled(l.meetings, l.known),
                                    later |-> l.later, members |-> l.known,
                                    skipped |-> SkippedEvents(l.meetings, l.known),
                                    read |-> l.at]]
               ELSE Idle]
    /\ UNCHANGED <<now, upstream, archive, coverage, advisory, failures>>

-----------------------------------------------------------------------------
(* The planning transaction. *)

(* Mutant: what was loaded is written without deciding again. *)
LockSeasonTrusting(p) ==
    /\ planner[p].pc = "lock" /\ advisory = Nil
    /\ advisory' = p
    /\ planner' = [planner EXCEPT
           ![p].at = now, ![p].pc = IF Loaded(p) THEN "rows" ELSE "plan"]
    /\ UNCHANGED <<now, upstream, archive, coverage, failures>>

(* pg_advisory_xact_lock, the clock, the season row, and coverage again.   *)
(* If it went stale since it was checked, the transaction ends and the     *)
(* loop starts over once, then gives up.                                   *)
LockSeason(p) ==
    /\ planner[p].pc = "lock" /\ advisory = Nil
    /\ IF Due(now) /\ ~Loaded(p)
       THEN /\ planner' = [planner EXCEPT ![p] =
                   IF @.tries < 2 THEN [@ EXCEPT !.pc = "check"] ELSE Idle]
            /\ UNCHANGED advisory
       ELSE /\ advisory' = p
            /\ planner' = [planner EXCEPT
                   ![p].at = now,
                   ![p].pc = IF Due(now) THEN "rows" ELSE "plan"]
    /\ UNCHANGED <<now, upstream, archive, coverage, failures>>

(* _persist_schedule_snapshot locks the season's events and sessions, and  *)
(* waits while an archive attempt holds one of them.                       *)
LockRows(p) ==
    /\ planner[p].pc = "rows"
    /\ persisting.pc # "stamped"
    /\ planner' = [planner EXCEPT ![p].pc = "write"]
    /\ UNCHANGED <<now, upstream, archive, coverage, advisory, failures>>

(* The transaction ends and with it the lock. *)
Leave(p) ==
    /\ planner' = [planner EXCEPT ![p] = Idle]
    /\ advisory' = IF advisory = p THEN Nil ELSE advisory

(* Sessions of the latest snapshot; an active ingestion that no active job *)
(* accounts for is left alone.                                             *)
Considered(rows, checked) ==
    {s \in Slot : /\ rows[s].seen = checked
                  /\ ingestion[s].status \in Active => JobActive}

(* Mutant: a session whose last attempt failed is not queued again. *)
DueSessionsButFailed(rows, checked, at) ==
    {s \in Considered(rows, checked) :
        /\ Eligible(rows[s].end, ingestion[s].completed, at)
        /\ ingestion[s].status # "failed"}

DueSessions(rows, checked, at) ==
    {s \in Considered(rows, checked) :
        Eligible(rows[s].end, ingestion[s].completed, at)}

(* evaluate_archive_ingestion refuses data that is completed later than    *)
(* the clock the transaction has read.                                     *)
FromTheFuture(rows, checked, at) ==
    \E s \in Considered(rows, checked) : ingestion[s].completed > at

(* _create_or_reuse_job: the active job, or a new one, takes what is due   *)
(* and neither in it nor under way.                                        *)
Queue(rows, checked, at) ==
    job' = [s \in Slot |->
        IF /\ s \in DueSessions(rows, checked, at)
           /\ job[s] = "absent" /\ ingestion[s].status \notin Active
        THEN "pending" ELSE job[s]]

(* Coverage is fresh: what was loaded meanwhile is dropped. *)
PlanFresh(p) ==
    /\ planner[p].pc = "plan"
    /\ ~FromTheFuture(race_session, season.checked, planner[p].at)
    /\ Queue(race_session, season.checked, planner[p].at)
    /\ Leave(p)
    /\ UNCHANGED <<now, upstream, ingestion, persisting, loads, coverage,
                   failures>>

(* The snapshot replaces the season's: its sessions and deferred events    *)
(* are discovered now, others stay as they were and are no longer current, *)
(* deferred rows of other events are deleted.                              *)
PlanRefreshed(p) ==
    /\ planner[p].pc = "write"
    /\ LET new == planner[p].loaded
           at == planner[p].at
           rows == [s \in Slot |->
                       IF s \in DOMAIN new.sessions
                       THEN [seen |-> at, end |-> new.sessions[s].end,
                             event |-> new.sessions[s].event]
                       ELSE race_session[s]]
       IN  /\ ~FromTheFuture(rows, at, at)
           /\ Queue(rows, at, at)
           /\ race_session' = rows
           /\ deferred' =
                  [r \in Round |->
                      IF \E e \in new.later : RoundOf(e, new.members) = r
                      THEN at ELSE None]
           /\ season' = [checked |-> at, valid |-> at + CoverageTTL]
           /\ reads' = new.read /\ members' = new.members
           /\ skipped' = new.skipped
    /\ Leave(p)
    /\ UNCHANGED <<now, upstream, ingestion, persisting, loads, failures>>

(* The transaction is rolled back by that refusal. *)
Refused(p) ==
    /\ \/ /\ planner[p].pc = "plan"
          /\ FromTheFuture(race_session, season.checked, planner[p].at)
       \/ /\ planner[p].pc = "write"
          /\ LET new == planner[p].loaded
                 rows == [s \in Slot |->
                             IF s \in DOMAIN new.sessions
                             THEN [seen |-> planner[p].at,
                                   end |-> new.sessions[s].end,
                                   event |-> new.sessions[s].event]
                             ELSE race_session[s]]
             IN  FromTheFuture(rows, planner[p].at, planner[p].at)
    /\ Leave(p)
    /\ UNCHANGED <<now, upstream, archive, coverage, failures>>

(* FastF1, its budget or the database fails, or the process ends: the call *)
(* raises and what it has not committed is lost.                           *)
Fail(p) ==
    /\ planner[p].pc \notin {"idle"}
    /\ failures < MaxFailures
    /\ failures' = failures + 1
    /\ Leave(p)
    /\ UNCHANGED <<now, upstream, archive, coverage>>

-----------------------------------------------------------------------------
(* The archive worker, from the planner's side. *)

(* A session is claimed and its data loaded by its round: FastF1 gives     *)
(* what has that round by then, or nothing.                                *)
Claim(s) ==
    /\ persisting.pc = "idle" /\ planner[Worker].pc = "idle"
    /\ job[s] = "pending"
    /\ job' = [job EXCEPT ![s] = "running"]
    /\ ingestion' = [ingestion EXCEPT ![s].status = "running"]
    /\ LET named == {e \in curated : RoundOf(e, curated) = s[1]}
       IN  persisting' = [pc |-> "fetch", slot |-> s, at |-> None,
                          about |-> IF named = {} THEN Nil
                                    ELSE CHOOSE e \in named : TRUE]
    /\ UNCHANGED <<now, upstream, coverage, advisory, planner, loads,
                   failures>>

(* A failed attempt is retried, or is the last. *)
AttemptFails ==
    /\ persisting.pc = "fetch"
    /\ \/ /\ persisting.about = Nil
          /\ UNCHANGED failures
       \/ /\ failures < MaxFailures
          /\ failures' = failures + 1
    /\ \E status \in {"pending", "failed"} :
           /\ failures' = failures => status = "failed"
           /\ job' = [job EXCEPT ![persisting.slot] = status]
           /\ ingestion' = [ingestion EXCEPT
                               ![persisting.slot].status = status]
    /\ persisting' = [NotPersisting EXCEPT !.pc = "aggregate"]
    /\ UNCHANGED <<now, upstream, coverage, advisory, planner, loads>>

(* replace_archive_session locks the session and its event, then reads     *)
(* the clock.  The identity it checks again is the slot: season, round and *)
(* session name.                                                           *)
LockSession ==
    /\ persisting.pc = "fetch" /\ persisting.about # Nil
    /\ \A p \in Planner : planner[p].pc # "write"
    /\ persisting' = [persisting EXCEPT !.pc = "stamped", !.at = now]
    /\ UNCHANGED <<now, upstream, ingestion, job, loads, coverage, advisory,
                   planner, failures>>

(* It commits the data as completed at that reading. *)
Complete ==
    /\ persisting.pc = "stamped"
    /\ job' = [job EXCEPT ![persisting.slot] = "completed"]
    /\ ingestion' = [ingestion EXCEPT ![persisting.slot] =
           [status |-> "completed", completed |-> persisting.at,
            about |-> persisting.about]]
    /\ loads' = [loads EXCEPT ![persisting.slot] = @ + 1]
    /\ persisting' = [NotPersisting EXCEPT !.pc = "aggregate"]
    /\ UNCHANGED <<now, upstream, coverage, advisory, planner, failures>>

(* A job ends with the last of its children. *)
Aggregate ==
    /\ persisting.pc = "aggregate"
    /\ IF \E s \in Slot : job[s] \in Active
       THEN UNCHANGED job ELSE job' = [s \in Slot |-> "absent"]
    /\ persisting' = NotPersisting
    /\ UNCHANGED <<now, upstream, ingestion, loads, coverage, advisory,
                   planner, failures>>

-----------------------------------------------------------------------------
(* FastF1 and time. *)

(* An event enters or leaves the index, or changes there, also between     *)
(* having a number and none; the per-session metadata of an event that the *)
(* index does not list is published; an event is cancelled, and the index  *)
(* may go on listing it.                                                   *)
UpstreamChanges ==
    /\ changes < MaxChanges /\ now <= LastChange
    /\ changes' = changes + 1
    /\ \/ \E m \in Meeting \ index :
              /\ m.event # Testing
              /\ index' = {n \in index : n.event # m.event} \cup {m}
              /\ UNCHANGED <<details, curated>>
       \/ \E m \in index :
              /\ m.event # Testing
              /\ index' = index \ {m}
              /\ UNCHANGED <<details, curated>>
       \/ \E m \in Championship(Meeting \ details) :
              /\ m.event \notin Listed(index)
              /\ details' = {n \in details : n.event # m.event} \cup {m}
              /\ UNCHANGED <<index, curated>>
       \/ \E e \in curated :
              /\ curated' = curated \ {e}
              /\ index' \in {index, {m \in index : m.event # e}}
              /\ UNCHANGED details
    /\ UNCHANGED <<now, archive, coverage, advisory, planner, failures>>

(* Time passes, but no planner holds what it read for longer than MaxHold. *)
Tick ==
    /\ now < MaxTime
    /\ \A p \in Planner :
           /\ planner[p].pc = "detail" => now < planner[p].at + MaxHold
           /\ Loaded(p) => now < planner[p].loaded.read + MaxHold
    /\ now' = now + 1
    /\ UNCHANGED <<upstream, archive, coverage, advisory, planner, failures>>

-----------------------------------------------------------------------------

Plan(p) ==
    \/ Recheck(p) \/ ReadIndex(p) \/ EndLoad(p)
    \/ \E e \in Event : LoadMissing(p, e)
    \/ LockSeason(p) \/ LockRows(p)
    \/ PlanFresh(p) \/ PlanRefreshed(p) \/ Refused(p)

(* FastF1 answers, also when it has nothing for the round. *)
Attempt ==
    \/ LockSession \/ Complete \/ Aggregate
    \/ persisting.about = Nil /\ AttemptFails

Next ==
    \/ \E p \in Planner : Begin(p) \/ Plan(p) \/ Fail(p)
    \/ \E s \in Slot : Claim(s)
    \/ AttemptFails \/ Attempt
    \/ UpstreamChanges \/ Tick

Spec == Init /\ [][Next]_vars

(* The worker's loop goes on, a request that has begun is carried out, and *)
(* time passes.  PostgreSQL grants the advisory lock in the order it is    *)
(* asked for, so a planner that waits for it gets it in the end, and the   *)
(* loop plans and archives by turns: those two need strong fairness.       *)
(* Nobody need ever send a request.                                        *)
Fairness ==
    /\ WF_vars(Begin(Worker) \/ Plan(Worker))
    /\ \A p \in Request : WF_vars(Plan(p)) /\ SF_vars(LockSeason(p))
    /\ SF_vars(LockSeason(Worker))
    /\ SF_vars(\E s \in Slot : Claim(s))
    /\ WF_vars(Attempt)
    /\ WF_vars(Tick)

FairSpec == Spec /\ Fairness

-----------------------------------------------------------------------------
(* The season as the overview shows it. *)

(* Mutant: sessions of every snapshot count, also those of a round that an *)
(* earlier one gave to another event.                                      *)
CurrentOnce(s) == race_session[s].seen # None

Current(s) == season.checked # None /\ race_session[s].seen = season.checked

RequiredState(s) ==
    IF ingestion[s].status \in {"absent", "completed"}
    THEN "refresh" ELSE ingestion[s].status

(* read_season_overview, in one snapshot of the database. *)
Overview ==
    LET current == {s \in Slot : Current(s)}
        due == {s \in current :
                  Eligible(race_session[s].end, ingestion[s].completed, now)}
        Count(k) == Cardinality({s \in due : RequiredState(s) = k})
    IN  [available |-> Cardinality({s \in current :
                                     ingestion[s].completed # None}),
         required |-> [pending |-> Count("pending"),
                       running |-> Count("running"),
                       failed |-> Count("failed"),
                       refresh |-> Count("refresh")],
         active |-> JobActive,
         stale |-> Due(now)]

-----------------------------------------------------------------------------
(* Properties. *)

(* A snapshot of the schedule is never replaced by one that was read       *)
(* before it, however the loads of two planners overlap                    *)
(* (ensure_season_backfill decides again under the lock).                  *)
SnapshotAdvances == [][reads' >= reads]_reads

(* In the snapshot in force every curated event is exactly once: with its  *)
(* sessions, or deferred.  Only an event that the index lists without a    *)
(* number is neither: normalisation passes its entry over, and the entry   *)
(* keeps it from being loaded or deferred as missing.                      *)
(* (normalize_fastf1_schedule, _missing_curated_events, the deferrals and  *)
(* the deletion of stale deferred rows.)                                   *)
EveryEventPlaced ==
    /\ \A e \in members :
           LET r == RoundOf(e, members)
               rows == {s \in Slot : s[1] = r /\ Current(s)}
           IN  /\ \A s \in rows : race_session[s].event = e
               /\ IF e \in skipped
                  THEN rows = {} /\ deferred[r] = None
                  ELSE rows = {} <=> deferred[r] = season.checked
    /\ \A s \in Slot : Current(s) => s[1] <= Cardinality(members)

(* "The expected identity is checked again after the target session and    *)
(* event rows are locked, so a concurrent metadata change aborts the       *)
(* replacement" (docs/FASTF1_INGESTION_CONTRACT.md:132): what is stored    *)
(* belongs to the event the row describes.                                 *)
StoredWhereItBelongs ==
    [][\A s \in Slot :
          loads'[s] # loads[s] =>
              ingestion'[s].about = race_session[s].event]_loads

(* The instants at which a slot's data fall due for a correction: the      *)
(* checkpoints after every end that upstream may give its session.         *)
Corrections(s) ==
    {t \in Times : \E m \in Championship(Meeting) : \E i \in Usable(m) :
        /\ m.sessions[i].key = s[2]
        /\ \E c \in Checkpoints : t = m.sessions[i].end + c}

(* A session has been archived once, and once more per correction that has *)
(* fallen due by now: however often planning is repeated, by whom, and     *)
(* whatever fails, nothing is loaded again without a new reason.           *)
LoadsBounded ==
    \A s \in Slot :
        loads[s] <= 1 + Cardinality({t \in Corrections(s) : t <= now})

(* No planner is refused by data completed after the clock it has read     *)
(* ("completed_at must not be later than database_now").                   *)
PlannersSeeThePast ==
    \A p \in Planner :
        /\ planner[p].pc = "plan" =>
               ~FromTheFuture(race_session, season.checked, planner[p].at)

(* What upstream offers when it has come to rest: the sessions a load      *)
(* would find.                                                             *)
Offered ==
    LET known == {m \in details : /\ m.event \in MissingEvents(index, curated)
                                  /\ StartAt[m.event] <= now}
    IN  IF Acceptable(index \cup known, curated)
        THEN Scheduled(index \cup known, curated) ELSE <<>>

(* In the end every session upstream offers is archived, with its last     *)
(* correction: through deferrals, stale coverage, cancelled events whose   *)
(* rounds others take over, failed loads and attempts, and planners in     *)
(* each other's way.  Whose data it then holds is SettlesOnOwnData's.      *)
SeasonSettles ==
    <>[](LET offered == Offered
         IN  \A s \in DOMAIN offered :
                 ~Eligible(offered[s].end, ingestion[s].completed, now))

(* In the end a session holds data of the event that has its round: what   *)
(* StoredWhereItBelongs lets pass would be loaded again, which it is not   *)
(* once the last checkpoint of the event that takes the round is past.     *)
SettlesOnOwnData ==
    <>[](LET offered == Offered
         IN  \A s \in DOMAIN offered :
                 ingestion[s].completed # None =>
                     ingestion[s].about = offered[s].event)

(* In the end the overview shows a season with a session that was due for  *)
(* archiving as completed: it counts nothing as failed, pending or stale   *)
(* that is left behind by a cancelled round, a refresh or a failed attempt *)
(* (read_season_overview, derive_season_status).                           *)
OverviewSettles ==
    <>[](\/ SeasonStatus(Overview) = "completed"
         \/ ~\E s \in DOMAIN Offered : Offered[s].end + Grace <= now)
=============================================================================
