# Formula 1 Dashboard: a TLA+ model

This directory specifies the dashboard in TLA+, from the planning of a season to the
browser tab that shows it, checks the specifications with TLC on small instances and
proves their central properties with TLAPS for every instance. Paths below are relative
to the repository; `backend/app` is the Python service, `frontend/src` the React client.

## 1. The system

PostgreSQL holds all durable state. Several processes share it: the API (which
starts the season planner on request), the background worker (planner on a timer,
lease recovery, archive ingestion, telemetry ingestion, one thing at a time, with a
heartbeat thread beside each ingestion) and, possibly, more workers. Live timing
lives in the API process only, in asyncio tasks and log files.

| Component | State | Operations | Talks to |
|---|---|---|---|
| Season planner (`ingestion/season_backfill.py`, `freshness_policy.py`) | `seasons` coverage, `events`, `sessions`, `backfill_jobs`, new `backfill_job_sessions` | refresh the schedule, create or reuse the season's one active job | FastF1 schedule, backfill queue |
| Archive backfill queue (`backfill_orchestration.py`) | `backfill_jobs`, `backfill_job_sessions`, `session_ingestions`, the `fastf1_archive` request gate | claim, heartbeat, failure transition, recovery, aggregation | workers |
| Backfill worker (`backfill_worker.py`, `archive_ingestion.py`) | its claim, a heartbeat thread | claim - load - normalise - persist - settle - aggregate, maintenance | queue, FastF1, persistence |
| Archive persistence (`archive_persistence.py`) | drivers, entries, results, laps of a session | replace a session's snapshot in the transaction that completes the claim | queue rows |
| Request budget (`request_budget.py`) | ledger of sends, the request gate | reserve one send, report the budget | all FastF1 users |
| Historical telemetry (`telemetry_ingestion.py`) | one ingestion row and the samples per lap | request, claim, heartbeat, replace, fail, recover | archive snapshot, FastF1 |
| Live service (`live/service.py`, `retention.py`) | one collector, its task, the log directory | start, replay, stop, sweep | collector |
| Live collector (`live/collector.py`, `current_view.py`, `session_log.py`) | connection state, merged view, log, buffered frames, subscriber queues | reconnect, merge a frame, log, publish | feed, websocket clients |
| Normalisation (`fastf1_normalization.py`) | none | one loaded session to entries, results and laps | persistence |
| Trackers and board (`live/pit_stops.py`, `positions.py`, `board.py`) | open pit visits, stops, positions | observe a frame, read a board from the merged view | collector |
| Sign-in (`auth/`) | failure count, lockout time | log in, log out, check a token | dashboard |
| Read API (`api/`) | none | queries in one repeatable-read snapshot | dashboard |
| Frontend (`App.tsx`, `archive/`, `live/`) | selected season, polled job | polling effects, aborted on cleanup | API |

### What is hard about it, and what makes it correct

* **Queue.** A worker can stall anywhere, lose its lease and wake up later; its
  heartbeat thread can fail on its own; two rows and the sporting data must change
  together; pauses give attempts back; aggregation, recovery and planning lock the
  same rows in different orders. Correct means: at most one worker passes the
  ownership checks of a session; the rows of an attempt agree; the budget of
  attempts is kept; a completed session shows the data of its last attempt; settled
  rows are final; a parent is settled only when its children are; every lease and
  every job ends.
* **Planner.** Coverage is checked, the schedule loaded outside any transaction, and
  coverage checked again under an advisory lock. Correct means: one active job per
  season, no session queued twice or while it is busy, a refresh for every
  correction checkpoint, every event of the season placed or deferred, and an overview
  that ends by showing the season as completed.
* **Archive.** Ten statements replace a session under unique indexes that are checked
  row by row, while readers page through it. Correct means: what normalises is stored,
  readers see one version, a comparison is of one version.
* **Budget.** Several processes count and reserve at once. Correct means: never
  more sends in a window than the ceiling, a gate that a stronger reason keeps
  closed, and no pause longer than what it waits for.
* **Telemetry.** The same lease pattern, but a new request resets the token, and the
  sporting snapshot may change while samples are loaded.
* **Live.** Stopping, starting and replaying overlap; the feed reconnects and repeats
  itself; buffers, queues and logs are bounded. Correct means: one writer per log, a
  log from which the view can be rebuilt, subscribers that end up with the current
  state, a board that is the session, and stops that really happened.
* **Frontend.** Every effect aborts its requests on cleanup, the two buttons' requests
  carry no signal, and any answer may end the session. Correct means: a response that
  selecting a year aborts never overwrites the selection, one job is polled once, no
  control stays locked.

`PROJECT.json` lists every component with its status and every hazard at its line.

## 2. Plan

In order of importance. The modules are written; what is left is at the end.

1. The queue: `ArchiveLeases` against the abstract `FencedLease`, `ArchiveLeasesProofs`.
2. The upstream budget: `RequestBudget`, `RequestBudgetProofs`.
3. Telemetry: `TelemetryLeases`, `TelemetryLeasesProofs`. It is not a second refinement
   of `FencedLease`: the token reset breaks that (section 6), and another argument, the
   snapshot in the claim, keeps the shown samples right.
4. Live: `LiveCollector` and `LiveService` with `LiveProofs`; `LiveBoard`, `LiveTrackers`
   and `LiveTrackersProofs`.
5. The season: `SeasonSchedule` (pure) and `SeasonPlanner`, `SeasonPlannerProofs`.
6. The archive and its reader: `SportingSnapshot` (pure), `ArchiveReplacement` against the
   abstract `SessionStore`, `SessionReader` on top of it, `SessionReaderProofs`.
7. The tab: `SignIn`, `DashboardShell`, which extends it, `DashboardShellProofs`.

Composition: `SessionReader` interleaves with `ArchiveReplacement`, `DashboardShell` with
`SignIn`; `LiveTrackers` uses `LiveBoard`, `SeasonPlanner` uses `SeasonSchedule` and
`ArchiveReplacement` uses `SportingSnapshot`. Otherwise a module states what it assumes of
the others: `SeasonPlanner` has attempts that complete or fail (`ArchiveLeases`),
`ArchiveReplacement` a transaction that may be refused (`ArchiveLeases`),
`TelemetryLeases` an archive that may be replaced (`ArchiveReplacement`).

Every safety property that a passing run checks is now a theorem as well (section 5). Left,
as models: the queue's transactions as single locking statements (the lock cycle of planner
and workers), standings and head-to-head under READ COMMITTED, the retention sweep.

## 3. Modules

### FencedLease

The abstract specification: one lease per key. `Acquire` draws a token never drawn
before, `Drop` ends leases without a result, `Publish` stores the result of the
holder's token and ends the lease in the same step.

### ArchiveLeases

The rows, and where each process stands between its transactions.

| Model | Code |
|---|---|
| `job`, `job_session`, `ingestion` | `backfill_jobs`, `backfill_job_sessions`, `session_ingestions`; a missing row has status `absent` |
| `snapshot` | the sporting rows of a session, reduced to the token of the attempt that wrote them |
| `gate` | the `fastf1_archive` row of `upstream_request_gates` |
| `planner` | the session rows `_create_or_reuse_job` read before it locked anything |
| `pc`, `claim`, `monitor`, `error`, `todo`, `seen` | a worker: position in `process_next_archive_job_session` or `perform_worker_maintenance`, its claim, the failure its heartbeat thread stored, the exception of the attempt, jobs left to aggregate, the children the aggregation's SELECT returned |

| Action | Code |
|---|---|
| `PlanRead`, `PlanCommit`, `PlanAbort` | `_create_or_reuse_job` under the advisory lock; sessions that are due are any set |
| `ClaimNext` | `claim_next_archive_job_session` |
| `Heartbeat`, `HeartbeatFails` | `ClaimHeartbeatMonitor._run`, `heartbeat_archive_job_session` |
| `LoadSucceeds`, `LoadFails` | `ingest_fastf1_archive_session` up to `before_persist` |
| `Persist`, `PersistFails` | `replace_archive_session` |
| `StopMonitor` | `monitor.stop()` and the choice of `effective_error` |
| `RecordFailure`, `FailureNotOwned` | `transition_archive_job_failure` |
| `AggregateRead`, `AggregateWrite` | `aggregate_backfill_job` |
| `Recover`, `ListActiveJobs` | `perform_worker_maintenance` |
| `Abandon` | a worker process dies, or `ArchiveBackfillWorker.run` swallows an exception |
| `Tick` | PostgreSQL's clock |

*Atomicity.* A transaction that locks every row before it decides on it is one
action: later statements cannot see anything else. Two are split. The planner reads
ingestion rows without a lock, so `PlanRead` precedes `PlanCommit`. And under READ
COMMITTED (the engine's default, `db/engine.py`) the aggregation's `SELECT ... FOR
UPDATE` returns the rows of the snapshot it took before it waited, in their latest
version, so the set of children is fixed in `AggregateRead` while their values are
read in `AggregateWrite`.

*Time.* Rows store timestamps and each decision compares one with the database
clock; the model stores the distance to now. A heartbeat's age saturates just above
the lease timeout, a retry time at 0.

*Left out.* Diagnostics, display timestamps, the job's own heartbeat (no decision reads
it), the `source` column (one source), and the writes of the request budget to the gate
while a session loads, which only delay claims (they are in `RequestBudget`). The order in
which eligible children are claimed is any order, because rows locked by other
transactions are skipped; `Eligible` is the claim's SELECT, `Claimable` what it may then
lease. When the row it picks belongs to a session that is running the code raises, which
leaves everything as it was: that is a step that does not happen, and a worker is only
sure to get a claim while no such row is in the way (`Unobstructed`, in the fairness). In
`Recover(w, T)` the set `T` is the batch that the LIMIT cuts from the rows, and of it
those are recovered that the checks after the SELECT do not pass over (`Recoverable`).

### RequestBudget

One gate row, one ledger of reservations, and the processes that use them. Archive
workers claim through the gate; schedule loads of the API and telemetry loads do not.

| Model | Code |
|---|---|
| `gate` | the `fastf1_archive` row: time until it opens, and the reason |
| `ledger` | `upstream_request_events` inside the window, as ages |
| `sent` | the requests that really left, as FastF1 sees them |
| `missing` | cache misses a load still has; what was fetched stays in the cache |
| `pc`, `retry_at` | a process: idle, loading, sending, refused with a retry time, limited |
| `cooling` | what is left of the last rate limit that was recorded |

| Action | Code |
|---|---|
| `Claim` | the gate's part of `claim_next_archive_job_session` |
| `Begin` | `serialized_fastf1_access` of a schedule or telemetry load |
| `ReserveClosed`, `ReserveFull`, `Reserve` | the three outcomes of `FastF1RequestBudget.reserve` |
| `Send` | the HTTP request after the reservation is committed, and its response |
| `RecordBudget`, `RecordRateLimit` | the gate's part of `transition_archive_job_failure` |
| `Report`, `Drop`, `Finish` | other loads report their error; a process dies; a load ends |
| `Tick` | PostgreSQL's clock |

*Atomicity.* `reserve` locks the gate row before it counts, and so do claim and
transition before they write it, so each is one action. The request leaves after the
reservation's commit, possibly ticks later: `Send` is a separate action. Times are
distances to now. The three named operations of the ledger are not told apart, and
rows older than the window are dropped at once, since no count includes them.

### TelemetryLeases

One row per lap of one session, workers, and the archive refreshes that replace the
session meanwhile.

| Model | Code |
|---|---|
| `sporting` | the session's `session_ingestions` row; `completed_at` is a snapshot number |
| `laps` | the stored laps |
| `row` | `lap_telemetry_ingestions`; `absent` when there is none |
| `samples` | for which snapshot the stored samples were loaded |
| `pc`, `at`, `claim`, `monitor`, `error` | a worker: position, the row its open transaction locks, its claim, its heartbeat's failure, its error |

| Action | Code |
|---|---|
| `Ensure` | `ensure_lap_telemetry` when it queues |
| `ClaimSelect`, `ClaimCommit`, `ClaimUnidentified` | `claim_next_telemetry_lap` |
| `Heartbeat`, `HeartbeatFails` | `TelemetryHeartbeatMonitor`, `heartbeat_telemetry_lap` |
| `LoadEnds` | the load, `monitor.stop()` and the choice of the effective error |
| `ReplaceCheck`, `ReplaceCommit` | `replace_lap_telemetry` |
| `RecordFailure`, `FailureNotOwned` | `transition_telemetry_failure` |
| `Recover` | `recover_stale_telemetry_leases` |
| `RefreshBegins`, `RefreshFails`, `RefreshCommits` | the session's archive attempt, as far as telemetry sees it |
| `Abandon`, `Tick` | a worker dies or its transaction is aborted; the clock |

*Atomicity.* Claim and replacement read `session_ingestions` without a lock while
they hold the request row, so each takes two actions with the row locked in between:
a refresh may commit in the middle. A request locks the lap, which a refresh upserts
or deletes, so those two exclude each other. A refresh that removes a lap deletes its
telemetry by cascade and waits for a locked row; should the worker then wait for the
refresh, PostgreSQL aborts one of them (`Abandon`, `RefreshFails`).

### LiveCollector

One collector after the other (`LiveService` has the overlaps), the upstream, the log
files and the websocket clients. Everything on our side runs on one event loop, so what
the code does between two awaits is one action.

| Model | Code |
|---|---|
| `feed` | what F1 would send in full: a topic's payload is a function from leaf fields to values |
| `connection`, `queue`, `lost` | one `SignalRFeed`: its connection, its queue, and that `_offer` has dropped an item |
| `pc`, `stopping` | where `LiveCollector.run` is; `request_stop` was called |
| `view`, `identity` | `LiveCurrentView`, the name from the first `SessionInfo` |
| `logging`, `pending`, `opened`, `dropped` | `_logging_enabled`, `_pending`, `_log`, `dropped_by_log_cap > 0` |
| `files` | the log per session, kept over restarts; a line is as long as its payload has fields |
| `at`, `backlog`, `shown` | a client's handler: sending, waiting or gone; updates in its queue; the view of its last board |

| Action | Code |
|---|---|
| `Change`, `NewSession`, `ConnectionCloses` | the upstream, through `_on_message` and `_on_close` |
| `Connected`, `ConnectFails` | `_start_blocking`, with the snapshot that answers Subscribe |
| `HandleFrame`, `HandleDuplicate` | `_handle`: merge, name, record, publish |
| `HandleFails` | the same when the log raises an `OSError` |
| `StreamEnds`, `FeedClosed`, `Reconnect` | the end of `_consume`, `_close_quietly`, the delay |
| `Start`, `StopRequested`, `Cancelled`, `Crash` | what the service and the host do to it |
| `Join`, `Sent`, `Redraw`, `Leave` | `stream_live_session` |

A message reaches the queue through `call_soon_threadsafe`; the model lets the upstream
change at the moment that callback runs, which only leaves out time. The snapshot is
queued at once: the collector may take its topics in any order, and changes come after
it. `dropped` is a flag because only "has a frame been dropped" matters. Because a
handler redraws from the view, its queue is a number. Validation, array patches, trackers
and timestamps are left out, and so is `log_degraded`, which no decision reads; the state
`connecting` the status is meant to show is left
out because `_consume` overwrites it before the first await.

### LiveService

| Model | Code |
|---|---|
| `slot` | `_collector` and `_task` |
| `task`, `replay`, `asked`, `cancelled` | each collector's task, whether it replays, `request_stop`, `task.cancel` |
| `stop`, `target` | each `stop_session` under way and the collector it took from the slot |
| `has`, `socket`, `busy`, `answer` | a tab: `hasSession`, the collector its websocket is subscribed to, the pending command, a poll's answer on its way |

| Action | Code |
|---|---|
| `Make` in `TabStarts`, `OtherStarts` | `start_session`, `start_replay` under the lock |
| `Stop`, `GraceEnds`, `StopReturns` | `stop_session` before, between and after its waits |
| `Begin`, `Leaves`, `CancelArrives`, `Ends` | `LiveCollector.run`, reduced to where it can end |
| `Poll`, `PollAnswered`, `PollArrives` | `refreshStatus`, answered at once or overtaken |
| `StreamOpens` | the effect on `hasSession`; the server subscribes or refuses the stream |
| `TabClicks`, `TabStarts`, `TabStops`, `TabStopped` | the tab's commands and their answers |

`Shared` adds commands of other tabs, `Delayed` answers that are overtaken. A stream is
only opened when `hasSession` changes.

### SeasonSchedule and SeasonPlanner

`SeasonSchedule` is stateless: what FastF1's season index and the curated schedule make
of a season (`MissingEvents`, `SkippedEvents`, `Acceptable`, `Scheduled`; an entry whose
number is 0 is passed over, but counts as listed), when coverage has to be
refreshed and a session is due or due again (`RefreshRequired`, `Eligible`), and the one
status a season is shown with (`SeasonStatus`). `SeasonPlanner` lets the worker's loop
and API requests plan one season.

| Model | Code |
|---|---|
| `index`, `details`, `curated` | FastF1's season index, its per-session metadata, the curated schedule |
| `season`, `race_session`, `deferred` | `seasons`, `events` with `sessions`, and the deferred rows; a session row is found by round and key |
| `ingestion`, `job` | `session_ingestions`; the children of the season's active job |
| `advisory` | the season's advisory lock |
| `planner` | each call of `ensure_season_backfill`: step, try, the schedule it has loaded |
| `persisting` | the worker's archive attempt: its session, the clock it read, whose data it has |
| `reads`, `members`, `skipped`, `loads` | history: the read and the events behind the snapshot in force, those of them that are listed without a number, completed loads |

| Action | Code |
|---|---|
| `Begin`, `Recheck` | `ensure_season_backfill`, its check without a lock and its second round |
| `ReadIndex`, `LoadMissing`, `EndLoad` | `FastF1ScheduleLoader`, under the process-wide lock |
| `LockSeason`, `LockRows` | the planning transaction: advisory lock, clock, coverage again; the row locks it waits for |
| `PlanFresh`, `PlanRefreshed`, `Refused` | `_persist_schedule_snapshot` and `_create_or_reuse_job`, or their refusal |
| `Claim`, `AttemptFails`, `LockSession`, `Complete`, `Aggregate` | the queue as far as planning sees it |
| `UpstreamChanges`, `Fail`, `Tick` | FastF1, failures, PostgreSQL's clock |

*Atomicity.* The planning transaction reads the clock before it waits for row locks, and
so does the archive attempt after its own, so both are split there. The overview is one
REPEATABLE READ transaction: the operator `Overview`. *Left out:* names, circuits, time
zones and the display status of sessions; boundaries of a session are its start and end;
seasons other than the current one, which have no coverage to lose.
An attempt for a round that no event has fails without being counted among the failures.

### SportingSnapshot, SessionStore, ArchiveReplacement

`SportingSnapshot` says which loaded sessions normalise and what they become: identities,
duplicates, the winner, gaps and laps behind, the row each lap belongs to, and the
contract that persistence checks again. `SessionStore` is what replacement promises: one
step from one whole version to a newer one, ids kept. `ArchiveReplacement` has the
statements.

| Model | Code |
|---|---|
| `history` | the committed versions of one session's rows |
| `txn` | the transaction of `replace_archive_session`: next statement, snapshot, its rows so far |
| `lastId` | the identity sequence of `session_entries` |

Each action is a statement, in the code's order: `Drivers`, `Clear`
(`_clear_entry_unique_values`), `PutEntries`, `PutResults`, `PutLaps` (one batch),
`DropLaps`, `DropResults`, `DropEntries`, `Commit`; `Load` and `Begin` come before,
`Abort` may come any time. A statement that breaks a unique index, a foreign key or a
CHECK rolls back (`Execute`); unique indexes are tried after every row of the upsert
(`EntriesAccepted`), since PostgreSQL does not defer them. *Left out:* columns that no
constraint and no reader distinguishes (grid, points, sector times, tyres, driver names),
unit conversions, the claim (`ArchiveLeases`).

### SessionReader

`SessionExplorer.tsx` and the read services it calls, while the archive replaces the
session: `BeginRead` is the first statement of a REPEATABLE READ transaction, after which
the request has its version; the answer arrives later (`DetailArrives`, `ResultsArrive`,
`LapsArrive`, `EntryGone`, `RequestFails`). `Open`, `Close`, `SelectEntry`, `LoadMore`,
`ToggleLap` and `ClearSelection` are the user's. State: `detail`, `results`, `entry`,
`laps`, `cursor`, `lapSnapshot`, `selections` are the component's hooks and refs, and
`request` is the one request whose answer will still be looked at. `InOrder` is the
`ORDER BY` of the laps. `Restarted` and
`Compatible` are the two comparisons of `completed_at`. *Left out:* plots, statistics and
the telemetry panel of the selected laps.

### LiveBoard and LiveTrackers

`LiveBoard` is the merged view and the board as operators: `merge_delta` and `apply` of
`current_view.py`, rows, pit lane, fastest lap and race control of `board.py`.
`LiveTrackers` puts the trackers on the way of the frames.

| Model | Code |
|---|---|
| `world`, `events` | the session as it really is: pit lane, places, status, messages, best laps |
| `connected`, `queue` | the feed's connection and its bounded queue |
| `view` | `LiveCurrentView` |
| `visits`, `stops` | `PitStopTracker._open`, `_stops` |
| `baseline`, `current` | `PositionTracker` |
| `inside`, `completed`, `whole`, `firstSeen` | history: the visits as they were, and what was delivered |
| `at` of a frame; `entry`, `stamped` of an open visit and a stop | history: when an update was sent; the entry update behind a visit |

| Action | Code |
|---|---|
| `EnterPit`, `LeavePit` | the upstream: an update with the feed's clock or without, queued or lost (`_on_message`, `_offer`) |
| `Overtake`, `ChangeStatus`, `SendMessage`, `SetFastestLap` | the same, for updates of which nothing is timed |
| `Connect` | `SignalRFeed.stream`: a new queue with an unstamped snapshot of every topic, in an order of F1's choice |
| `Disconnect` | the connection ends; what is queued is still consumed |
| `Handle` | `LiveCollector._handle`: apply, drop a replay, tell the trackers |
| `Tick` | the clock of arrival |

`ObservePits` is `PitStopTracker.observe` with all its rules: a snapshot's entry is not
observed, a frame without the feed's clock is timed on arrival (`Moment`), implausible
times and visits over a change of status do not count. *Left out:* the arrows of recent
moves, team radio, stints, sectors, benchmarks, and retired cars.

### SignIn and DashboardShell

`SignIn` is the limiter and the cookie: `WrongPassword`, `RightPassword`, `Logout`,
`Authenticated`. `DashboardShell` is one tab on top of it.

| Model | Code |
|---|---|
| `phase` | `AuthGate`: checking, signed in or out, unreachable |
| `page` | the hooks of `App`: selected season, the season shown with its active job, loading, pending command, polled id (`polling`) and the id whose effect is in force (`followed`); whether the list of `SeasonSelect` is open |
| `page.overtaken` | history: requests that may show another season were on their way when this one was selected |
| `requests` | the requests under way, by what they are for, with their answers; the poll's timer |
| `jobs` | the newest job of each season |

A request is served (`Serve`) and its answer read (`...Arrives`) in two steps and in any
order. Cleanup of an effect removes its requests (`Aborted`). The polled id changes in one
step and its effect in another, the next render (`Rerender`), so answers come in between.
A disabled `SeasonSelect` does not open (`OpenList`), but a list that is open still takes
a year (`SelectYear`). Requests of the two buttons have no signal: when the shell is
unmounted they become strays (`Stray`), whose 401 still ends the session. *Left out:*
navigation between views, the budget's display, texts of errors.

*Mutants.* Operators whose comment starts with "Mutant" are not part of the
specification. Each is a plausible bug of the definition that follows it, and shows
that the property named in `PROJECT.json` notices it.

## 4. Runs

| Run | Instance | Shows |
|---|---|---|
| `retries` | 2 workers, 1 session, 2 jobs, 2 attempts, lease of 1 tick, 1 pause, 1 crash | the invariants of the queue, `SettledIsFinal`, the refinement |
| `single` | 1 worker, 2 sessions, 1 job, 2 attempts, 1 pause, 1 crash, with fairness | `LeaseEnds`, `JobEnds` for the documented deployment |
| `phantom` | 1 worker, 2 sessions | `TerminalJobIsDone` fails: see Findings |
| `budget` | 1 archive worker and the API, window 2, ceiling 2, cooldown 3, pacing 1, 2 loads of 3 requests, 1 rate limit, 1 failure, with fairness | `SendsBounded`, `CooldownRespected`, `PausesJustified`, `LoadsEnd` |
| `telemetry` | 2 workers, 1 lap, 2 attempts, 3 snapshots, 2 requests, 1 crash, with fairness | current samples, `AvailableStays`, `LeaseEnds`, `RequestEnds` |
| `live_client` | 1 client, 2 upstream sessions, 2 fields, 2 changes, 2 closes, feed queue of 2, subscriber queue of 2, with fairness | `CaughtUp`, `NothingMissed`, `CatchesUp` |
| `live_log` | no client, 2 upstream sessions, 2 changes, 1 close, 2 starts, 1 crash, 1 log error, buffer of 1, log of 4 fields | `LogRebuilds` |
| `service` | the tab, commands of other tabs, 1 further stop request, 2 starts, delayed answers, with fairness | `NoneUnseen`, `StopEnds`, `StreamSettles` |
| `season` | the worker and 1 API request, 2 events of one session and a test event, clock to 3, coverage of 2, 1 checkpoint, 1 upstream change, 1 failure, with fairness (564 thousand states) | `EveryEventPlaced`, `LoadsBounded`, `SnapshotAdvances`, `SeasonSettles`, `OverviewSettles` |
| `archive` | 3 feeds that normalise and 5 that do not, 2 cars, batches of 2, 3 versions, 1 abort; pages of 1, 2 slots, 1 failed request | `NeverRefused`, the refinement `Replaces`, `LapsOfOneSnapshot`, `SelectionsComparable` |
| `trackers` | 2 cars, 4 events, clock to 3, queue of 4, a visit limit of 2, 1 outage, either order of status and timing in a snapshot, entries and exits with and without the feed's clock (8.4 million states) | `BoardCurrent`, `StopsExact`, `NeverShort`, `TrackersAgree` |
| `shell` | 2 seasons, 1 job each, 2 attempts, lockout of 1, cookie of 1 tick, clock to 2, 3 wrong passwords, 3 selections, commands or refreshes (981 thousand states) | `GuessesBounded`, `OwnSeason`, `OnePoller`, `ControlsComeBack` |

No run spends itself on type correctness: it is proved (section 5), as `TypeOK` or as a
part of the inductive invariant.

*Why these bounds are enough to be interesting.* In the queue the second worker is the
stale one of every fencing argument; the second job is the refresh that reuses a
session's lifetime token with a new budget; two attempts give a retry, a last attempt
and an exhausted budget; two sessions give batches, mixed outcomes and a child inserted
late. A lease of one tick separates fresh, due and stale heartbeats. `MaxPauses` and
`MaxCrashes` bound what FastF1 and the operating system may do to us; nothing else is
bounded, the attempt tokens are finite because the budgets are.

In `budget` a ceiling of two lets the worker and the API meet at the last free place, a
load needs more requests than the window has, and a cooldown longer than the window
separates the two reasons for a pause. Two archive workers that record pauses against
each other need no run: the safety properties are proved for any number of them
(section 5). In `telemetry` three snapshots let a refresh come before and after a
request, and the second request finds a row that failed, went stale, or is still being
loaded by the worker of the first. `MaxLoads`, `MaxLimits`, `MaxFailures`,
`MaxSnapshots` and `MaxRequests` bound the environment.

In `live_client` the feed's queue is as small as the snapshot, so that it overflows at
once, two fields make a delta differ from a full state, and two closes are a connect that
fails after a connection that ended. The log is out of the way there (no buffer, no room):
with a log that fails while a client listens `NothingMissed` says less. In `live_log` a
buffer of one holds the frame that comes before the session has a name, and a log of four
fields has room for a snapshot and a change, not for two runs. In `service` the second
start is the session that takes the place of a stopped one; two stops can wait for the
same task. `MaxChanges`, `MaxCloses`, `MaxStarts`, `MaxCrashes` and `MaxLogErrors` bound
the environment, and `MaxMade` the collectors a service makes. Workers, sessions and jobs
are interchangeable, and so are fields and values: `retries` and `live_log`, which check
no liveness, use that as symmetry.

In `season` the second event is over when it is first seen and lists a session that is not
usable; the first is missing from the index and begins later. The change of upstream lists
it, lists it without a number, publishes its metadata alone, unlists the second, or
cancels one of them. When the first is cancelled the second takes its round, and an
attempt for the round it had finds nothing (`AttemptFails`). Coverage of 2 expires within
the clock's 3 ticks, so a second planner refreshes what a first has loaded, and the
checkpoint at 1 makes a correction due. The change of upstream comes at time 0
(`LastChange`), so that it has come to rest for `SeasonSettles` and `OverviewSettles`; the
other events of the season happen at any time. Two changes up to time 2, with a clock to
6, were checked once as well: these two hold there, and section 6 has what does not. In
`archive` the feeds are a provisional classification, a correction in which two cars
exchange numbers and places, a lap disappears and the driver ids are spelled otherwise,
one in which a driver has no id yet, so that its entry's key changes, and one feed per
rule that normalisation enforces; three versions make two replacements, both between two
pages. In `trackers` four events are a visit with something else in it and an event after
it, a snapshot of all four topics fills the queue, so updates after it are lost, and one
outage hides an entry, an exit or both; either may be timed on arrival, at once or ticks
late. In `shell` a job ends while its season is polled, a second season has a job of its
own, a year is chosen in a list that was opened before a command or a refresh, the cookie
lapses under every request, and three wrong passwords span a lockout. `MaxVersions`,
`MaxAborts`, `MaxEvents`, `MaxOutages`, `MaxJobs`, `MaxActs`, `MaxWrong` and `MaxTime`
bound the environment.

*Fairness* (`FairSpec`). Time passes. A busy worker moves on: FastF1 calls and
transactions return, and what else can happen to it is `Abandon`. An idle worker
tries a claim in every iteration of `run()` and maintenance every scan interval, in
turn, so each is attempted again and again: strong fairness, because two workers or
the gate can disable one between attempts. Heartbeats, the planner and crashes are
not promised. `Recover(w, {})`, maintenance that finds nothing to recover, has its
own fairness, since it leads to the aggregation of active jobs.

In `RequestBudget` an archive worker with something to load tries to claim again and
again (strong fairness, the gate closes in between), while schedule and telemetry loads
may stop trying. `LoadsEnd` is checked with one archive worker: with two, a pause that
one of them files late relabels the pacing of the other's claim as a pause and refuses
it, in turn and for ever, a livelock no code prevents and the documented deployment
cannot have. In `TelemetryLeases` a busy worker moves on, and claims and
maintenance are attempted again and again; requests, refreshes, heartbeats and crashes
are not promised.

In `LiveCollector` the event loop runs what is ready, connects are answered (or fail,
`MaxCloses` times) and boards are sent; the upstream promises nothing. In `LiveService`
tasks move when they can, the grace period ends, the tab polls and requests are
answered; but no fairness lets a task see `request_stop` (`Leaves`), since the feed may
be silent for ever: `StopEnds` rests on the cancellation.

In `SeasonPlanner` the worker's loop goes on, and a request that was sent is carried out.
The advisory lock is granted in the order it is asked for, and the loop plans and archives
by turns, so `LockSeason` and `Claim` have strong fairness. No request is promised, and
failures are bounded (`MaxFailures`). The other modules check safety only.

## 5. Theorems

Every invariant, action property and refinement that a passing run checks is proved for
every value of the constants that satisfies the named assumptions; `PROJECT.json` pairs
theorem and property. Each part of a module states its inductive invariant first.

What stays with TLC: the liveness properties (`LeaseEnds`, `JobEnds`, `LoadsEnd`,
`RequestEnds`, `CatchesUp`, `StopEnds`, `StreamSettles`, `SeasonSettles`,
`OverviewSettles`), since the prover
has no rule for fairness, and the properties that fail (section 6). Sorting and summing
operators of the library are recursive or choose a function, which the provers cannot open;
where a property needed one, the module says the same by a definition they can reason about:
`ClaimsAccounted` counts pairs instead of summing, `InOrder` sorts by rank, `Rows` of the
board picks an ordered arrangement.

`ArchiveLeasesProofs`, for every number of workers, sessions and jobs and any settings
that satisfy `ArchiveAssumption`:

* `TypeCorrect`: `TypeOK` alone is not inductive: a worker about to persist needs a claim.
  `TypeInv` adds `Shape`, what a worker's position says about its memory.
* `Fencing` (`AtMostOneOwner`): `FenceInv` says that claims carry tokens that were drawn,
  and that two claims of one session carry different ones. `OnlyClaimsDrawTokens` reduces
  every other step to one fact, tokens stay and claims only disappear, so two cases remain:
  a step of that kind, and a claim, whose token is larger than all before.
* `TwoRowsAgree` (`RowsAgree`), `AttemptsInBudget` (`AttemptBudget`), `SettledForGood`
  (`SettledIsFinal`), from `LedgerInv`. The rows agree because at most one job is active
  (`OneActiveJob`), so a child that waits or runs has no rival in another job; no child
  precedes its job (`KnownJobs`), which is what a new job needs; and a settled child has
  neither a heartbeat nor a retry time left that the clock could change (`SettledAtRest`).
  The lemmas `...Effect` say once, row by row, what each transaction does.
* `ClaimsArePaidFor` (`ClaimsAccounted`): a pause is counted when FastF1 reports it and
  gives its attempt back when the failure is recorded. In between the worker owes it
  (`Owed`), and the account balances when the debts of a session are added (`Accounted`).
* `CompletedMeansStored` (`CompletedHasData`): a running session has drawn a token
  (`RunningHasToken`), so what is stored under it is not the empty snapshot.
* `FencedLeasePerSession` (`ImplementsFencedLease`): under the mapping of section 3 every
  step is one of `FencedLease` or a stutter. Its argument is `ArchiveInv`, all of the above:
  the step that persists is `Publish` because the token it checked is the newest one.

`RequestBudgetProofs`, for every set of processes and any settings that satisfy
`BudgetAssumption`:

* `TypeCorrect`, `LedgerCeiling` (`LedgerBounded`), `CooldownKept` (`CooldownRespected`),
  each inductive with its types: a reservation is only added below the ceiling, and every
  writer of the gate extends its time or finds it open.
* `SendsCeiling` (`SendsBounded`). The bound on what FastF1 sees is not inductive:
  the ledger forgets a reservation when it leaves the window, its send can still be on
  the way. `SendsFollow` compares the two for every age: the sends of that age or
  younger, with those held back, are at most the reservations of that age or younger
  and one per process.
* `PausesEnd` (`PausesJustified`): a pause is for the rest of a recorded rate limit, for
  the pacing of claims, or until the oldest reservation leaves the window (`Cause`). A worker
  may record a refusal long after it was refused, so `PauseInv` asks the same of the waiting
  time each refused process remembers; it stays true because causes only end when time
  passes, which shortens what is remembered as well.

`TelemetryLeasesProofs`, for every number of workers and laps and any settings that
satisfy `TelemetryAssumption`: `TypeCorrect`, `BudgetKept` (`AttemptBudget`),
`ShownIsCurrent` (`AvailableIsCurrent`) and `ShownStays` (the action property). The
inductive invariant `IInv` has four parts: the types with `Shape`; `LockInv`, a locked row
is the one its transaction found and at most one transaction holds it; `DataInv`, a
completed row's samples belong to the snapshot in the row; and `AttemptBudget`. Since a
snapshot number is never reused, the samples a late worker writes can only be shown with
their own snapshot; no fencing by attempt is needed, and none could be used (section 6).

`LiveProofs`, for any clients, fields, sessions, buffers and bounds of `LiveCollector`
(`CollectorAssumption`), and any number of starts and overlapping stops of `LiveService`
(`ServiceAssumption`):

* `CollectorTyped` (`TypeOK`), from `Types`, which knows more of the queue: a topic in full
  is not empty, and a `SessionInfo` has a name.
* `NothingIsMissed` (`NothingMissed`). A waiting client with an empty queue follows from
  a handler that was sending, so the invariant demands the same of both (`Told`): nothing
  announced to a connected client means that its last board shows the present view.
* `ViewCatchesUp` (`CaughtUp`): while nothing is lost, the view after all frames that are
  queued is what F1 would send in full. What a sequence of frames makes of a view is the
  recursive function `AppliedAll`.
* `LogLeadsToView` (`LogRebuilds`): `LogInv` says that the file leads to the view, or,
  before the file is opened, that the buffered frames do so from any view whatever: only
  then may they follow what an earlier run has left. That holds because the first frame of
  a topic is the topic in full (`FullFirst`). What a sequence of frames makes of a file is
  `PutAll`; a file that grew by all frames it was given leads where they lead (`Grown`).
  The facts about both functions are proved by induction on the number of frames, from the
  well-foundedness of the numbers (`Induct`).
* `SlotTyped` and `NothingRunsUnseen` (`NoneUnseen`), inductive together: `Make` needs a
  slot whose task has ended, and by `NoneUnseen` itself nothing else could take frames then.

`LiveTrackersProofs`, for any finite set of cars (`CarsAssumption`), queue, limit, snapshot
orders and bounds:

* `PitsMatchBoard` (`TrackersAgree`): a frame that is dropped as a replay changed neither,
  a snapshot names every car, so replacing the payload and observing it agree. `Base` has
  the shapes of frames, world and view this needs.
* `StopsAreReal` (`NeverShort`). A stop is recorded when an exit is handled, long after
  the car may have left, entered again and left again with updates lost in between. `Truth`
  therefore speaks of the queue: behind every observed entry, open or still queued, there is
  a real one that was sent then, and either the car is still inside and no exit is queued, or
  the visit that began then has ended and no queued exit was sent before it ended (`Real`).
  An exit is timed when it was sent or, without the feed's clock, when it is handled, later
  still. An entry without that clock begins its stop late, so that the stop may be shorter
  than the visit, and the theorem only bounds its end.
* `StopsAreExact` (`StopsExact`) and `BoardIsCurrent` (`BoardCurrent`), from `Full`
  (`Followed`). Both speak of views that are still to come: `Path` is the function from 0 to
  the length of the queue whose value at i is the view after the i-th frame. While nothing
  is lost the last of them shows the session (`Shows`); every visit that was seen is begun
  in one of them or in the tracker (`Begun`), and its exit is still to be told (`Pending`) or
  recorded exactly if it was a racing stop (`Settled`). `Once`, no entry is timed twice, is
  what keeps two visits of one car apart; `Times`, `Standings`, `Positions` and `PlacesOK`
  carry the clock, the real order and the places counted from.
  The first attempt at `StopsExact` failed for a reason: a car that left and came back
  within one tick made two visits with one name, which the bounds of the run never show. Since
  a visit is identified by car and moment, `EnterPit` now takes a tick.

`SeasonPlannerProofs`, for any events, sessions, requests and upstream changes that satisfy
`ScheduleAssumption` and `PlannerAssumption`; `Inv` is `TypeOK`, `PlannerInv`,
`CoverageInv`, `ArchiveInv` and `EveryEventPlaced`:

* `TypeCorrect`; `EventsArePlaced` (`EveryEventPlaced`): a load in progress has, of each
  event it has dealt with, meetings or a deferral and not both, or neither if the index lists
  the event without a number (`Loading`, `Placed`), and
  rounds number the curated events injectively (`RoundsDiffer`), so no two share a slot.
* `SnapshotsAdvance` (`SnapshotAdvances`): what a planner has loaded is at most `MaxHold`
  ticks old, while a planner that waits for the lock writes only when coverage is due again
  (`Sound`). The proof needs `MaxHold < CoverageTTL`: a load that took longer than coverage
  lasts could replace a newer one. No code checks it; coverage lasts six hours by default
  (`current_season_coverage_ttl_seconds`), a load minutes.
* `NothingLoadedTwice` (`LoadsBounded`): each load but the first has satisfied a correction
  that had fallen due (`Satisfied`, `Wanted`). The bound counts the corrections of every end
  that upstream may give a session; one per checkpoint would hold only because
  upstream changes so seldom in the run.

`SessionReaderProofs`, for any feeds, batches, page size and number of slots that satisfy
`FeedAssumption`, `ReplacementAssumption`, `ReaderAssumption` and, for what a missing value
is, `MissingAssumption`:

* `Comparable` (`SelectionsComparable`), inductive as it stands: a lap joins the selections
  only with the snapshot on screen, and a page of another snapshot empties them first.
* `FeedsAreStored` (`NeverRefused`): what passes the normalisation has distinct keys, drivers
  and numbers and no lap without an entry (`NormalisedProper`), and from such a snapshot no
  statement is refused. `TxnInv` says after each statement which rows of the snapshot are
  there and which others are gone (`Progress`), that every constraint holds, and that every
  entry committed before still has its id. The facts about a statement are about
  rows, not states, and are proved once each.
* `ReplacesAtomically` (`Replaces`): by the same invariant what `Commit` appends is the
  snapshot and keeps ids, so it is the one step of `SessionStore`; all others stutter.
* `PagesOfOneSnapshot` (`LapsOfOneSnapshot`), from `PagesInv`: a page is a prefix of the
  sequence its version has after the cursor (`Shown`), the next page continues where it
  ended because the i-th lap has exactly i - 1 before it (`OrderedAt`), and an answer
  of another version starts over. `PastInv` and `FewLaps` say that what is committed stays
  and can be ordered: laps of an entry are finitely many, no two with one number.

`DashboardShellProofs`, for any seasons, limits, cookie lifetime and bounds:

* `GuessesStayBounded` (`GuessesBounded`): `Limited` says that fewer failures than the
  limit leave no lock, so a lock can only elapse after the limit was reached, and then the
  next failure locks again before it is answered.
* `ShowsItsSeason` (`OwnSeason`), `FollowsOneJob` (`OnePoller`), `ControlsReturn`
  (`ControlsComeBack`), from one invariant, `Consistent`: every request of the mounted
  shell that will show a season is for the selected one, unless `overtaken` says that this one
  was selected while one for another was on its way; there is at most one command and one
  poll or timer; a flag that is up has the request that will clear it; and polls are of the
  job whose effect is in force (`Expected`, `Rivals`).

## 6. Findings

* `phantom`: `aggregate_backfill_job` locks the children before the job. A session
  the planner adds between the two is not counted, and the job can be settled with
  an unsettled child, which no worker claims any more (claims and recovery ask for an
  active job). A pending child is merely lost to that job; the next planning run
  skips its session while the `session_ingestions` row is pending from an earlier
  pause or retry, and queues it otherwise. With two workers the child can even be
  running: its lease then never ends (`LeaseEnds` fails with 2 workers and 2
  sessions), since recovery wants a running job and the planner skips a running
  session. The documentation requires one-session worker concurrency.

The following are not among the runs. Each is stated as a property of its module, which
TLC refutes when it is added to the named configuration:

* `RateLimitClosesGate` (`ArchiveLeases`, `phantom`): when a heartbeat fails in the attempt
  to which FastF1 reports its rate limit, the heartbeat's error replaces it: an ordinary
  failure is charged and the gate stays open.
* `AtMostOneOwner` (`TelemetryLeases`, `telemetry`): a repeated request resets the attempt
  count, which is the fencing token, so a worker stalled in the old request passes the
  ownership check of the new one. What is shown stays current (`ShownIsCurrent`). It needs
  two workers.
* `StreamingUnaffected` (`LiveCollector`, `live_client` with one log error): an error of the
  log leaves `_handle` before the frame is published and costs the connection. The client
  catches up only with the next change.
* `CloseNoticed` (`LiveCollector`, `live_client`): the sentinel that ends a stream is
  dropped when the queue is full; the collector then waits until it is stopped.
* `NewestMessagesShown` (`LiveTrackers`, `trackers`): the snapshot sends race-control
  messages as an array and the updates as a mapping by index; the merge never extends an
  array, so a new message is not shown before the next reconnect.
* `StoredWhereItBelongs` (`SeasonPlanner`, `season`): the identity checked under the row
  locks is season, round and session name. After a cancellation the round is another
  event's, and data loaded for the old one are stored there. With two changes up to time 2
  and a clock to 6 `SettlesOnOwnData` is refuted as well: they stay there for good when
  the last checkpoint of the event that takes the round is past.
* `PlannersSeeThePast` (`SeasonPlanner`, `season`): the plan's clock is read before it waits
  for the rows; a session completed in the meantime is "later than database_now" and the
  plan is rolled back with an error. The next one succeeds.
* `AlwaysOwnSeason` (`DashboardShell`, `shell`): a list of seasons opened before "Refresh" or
  a command takes a year while their requests, which carry no signal
  (frontend/src/App.tsx:318), are under way; the answer puts the season before on the page of
  the one selected. So does the refresh after the end of a job, when a year is
  selected as the poll is answered. `OwnSeason` is what remains.
* `EndNoticed` (`DashboardShell`, `shell`): the refresh after the end of a job is aborted by
  the cleanup that the end itself triggers; the page keeps the job as active.
* `FollowedIsPolled` (`DashboardShell`, `shell`): one failed poll is the last.
* `CleanAfterWindow` (`SignIn`, `shell`): a wrong password is counted before the elapsed
  lockout is cleared, so the first one after the window locks again.

Seen while modelling, without a run of their own:

* A budget pause recorded by an attempt that met the closed gate replaces the gate's
  reason (`transition_archive_job_failure`), so the status reads `paused` for the rest
  of a rate limit's cooldown, against docs/BACKFILL_RUNTIME_POLICY.md:115-116. The time
  itself is kept (`CooldownRespected`). It needs two workers.
* The first line after a restart is appended to a cut line and lost with it
  (`LiveSessionLog.append`); docs/LIVE_TIMING_DESIGN.md:238 only gives up the cut one.
  `LogRebuilds` therefore excludes cut lines.
* A log at its limit takes shorter frames after it has refused a longer one; line 241
  of that document has the collector stop appending.
* The collector takes its identity once, so the frames of the upstream's next session
  go to the first one's log.
* `LiveService` never names a collector it starts, so no view is rebuilt from a log
  after a restart, which line 247 of that document promises.
* A stop gives the slot away before the task has ended, so two collectors can run in the
  grace period (lines 152-155). `NothingRunsUnseen` is what remains: the old one takes no
  more frames.
* The tab's stream depends on whether there is a session, not on which: an exchange
  between two polls leaves it on the old one, and a stream refused because the answer
  was overtaken is not opened again. `StreamSettles` is what remains.
* A connect that is cancelled or times out leaves its thread and its connection behind
  (`_start_blocking` sets `_connection` last).
* The reconnect delay grows over the whole life of a collector, since `attempt` is not
  reset by a stream that worked.
* A handler whose collector has ended does not notice that its client left.
* An event the season index lists with the number 0 is passed over by the normalisation
  (fastf1_schedule.py:287) and not missed by `_missing_curated_events` (494-505): it is
  neither scheduled nor deferred, against the "complete championship membership" of
  docs/PROJECT_CONTEXT.md:1964. `EveryEventPlaced` excepts it.
* An entry without the feed's timestamp begins its visit when it is handled, so the stop is
  shorter by the time it waited (pit_stops.py:96); `NeverShort` excepts it.
* An exit lost in an outage and told by the next snapshot makes a stop that is too long,
  by up to the outage; `NeverShort` is what remains. A session status that goes away and
  comes back within a visit keeps it.
* A snapshot that lists `TimingData` before `SessionStatus` is observed under the status of
  before the outage.
* After a failed page request "Load next 50 laps" sets the cursor it already has, so nothing
  is requested; choosing the same entry returns early (`LoadMore`).
* `lapTelemetry.ts` pages through samples without comparing snapshots.
* A late 401 to a button's request of the session before ends a session that has just begun
  (`Stray`, `Unauthorized`).
* `LiveTiming.tsx` does not open its socket again once it has closed.
* Rate limits met by telemetry and schedule loads are never written to the gate, and the
  documentation does not say they are.

## 7. Not modelled

`PROJECT.json` gives every component its status and the reason. In short:

* Worth a model of their own: the queue's transactions as single statements with row locks
  (a PostgreSQL deadlock of planner and workers is one aborted transaction here); standings
  and head-to-head, several statements under READ COMMITTED over the points rules; the
  retention sweep; the recent-move arrows, radio and stints of the live board.
* Threads of the SignalR library that outlive a cancelled connect.
* Numbers a test checks better than a small instance: jitter and backoff, lap and telemetry
  statistics, unit conversions, benchmarks.
* Bearer tokens and the mode without a password; the F1 TV token file.
* Wire formats, schemas and error shapes, rendering, password hashing and signatures,
  migrations and deployment; the manual attempt and the telemetry measurement, which no
  service runs.
