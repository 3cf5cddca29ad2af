--------------------------- MODULE ArchiveLeases ---------------------------
(***************************************************************************)
(* The archive backfill queue of one season: the database rows that the    *)
(* planner, the archive workers, their heartbeat threads and the lease     *)
(* recovery share, and the control flow of each of those processes between *)
(* its transactions (backend/app/ingestion: backfill_orchestration.py,     *)
(* backfill_worker.py, archive_ingestion.py, archive_persistence.py and    *)
(* the job part of season_backfill.py).                                    *)
(*                                                                         *)
(* Granularity.  A transaction that locks every row it reads before it     *)
(* decides is one action.  Two transactions are not of that kind and take  *)
(* two: the planner reads session_ingestions without a lock before it      *)
(* locks the job, and aggregate_backfill_job fixes the set of children by  *)
(* the snapshot of its SELECT ... FOR UPDATE, taken before it waits for    *)
(* their locks (READ COMMITTED), so a child inserted meanwhile is missed.  *)
(*                                                                         *)
(* Time.  Rows store timestamps and every decision compares one with       *)
(* PostgreSQL's clock, so the model stores the distance to now: a          *)
(* heartbeat is the number of ticks since it was written (saturating once  *)
(* the lease is over), next_retry_at and next_request_at the number of     *)
(* ticks until they are due.                                               *)
(*                                                                         *)
(* Diagnostics, display timestamps, the job heartbeat (which no decision   *)
(* reads) and the source column (always fastf1_archive here) are left out. *)
(***************************************************************************)
EXTENDS Integers, FiniteSets

CONSTANTS
    Worker,         \* archive worker processes
    Session,        \* race sessions of the season
    Job,            \* identifiers of year-level jobs; bounds how many exist
    Nil,            \* no claim, no aggregation under way
    MaxAttempts,    \* settings.max_attempts
    LeaseTimeout,   \* settings.lease_timeout, in ticks
    Backoff,        \* delays calculate_retry_schedule may return, in ticks
    Cooldown,       \* settings.fastf1_rate_limit_cooldown, in ticks
    BudgetDelay,    \* delays to a budget error's retry_at, in ticks
    MinInterval,    \* settings.archive_session_min_interval, in ticks
    RecoveryBatch,  \* recover_stale_archive_job_sessions' batch_size
    MaxPauses,      \* bound: how often FastF1 or the budget pauses an attempt
    MaxCrashes      \* bound: how often a worker drops what it is doing

None == -1          \* a NULL timestamp

Child == Job \X Session
Claims == [job: Job, session: Session, attempt: Int, token: Nat]
Views == [job: Job, sessions: SUBSET Session]

ASSUME ArchiveAssumption ==
    /\ MaxAttempts \in Nat \ {0}
    /\ LeaseTimeout \in Nat
    /\ Backoff \subseteq Nat /\ Backoff # {}
    /\ Cooldown \in Nat
    /\ BudgetDelay \subseteq Nat /\ BudgetDelay # {}
    /\ MinInterval \in Nat
    /\ RecoveryBatch \in Nat \ {0}
    /\ MaxPauses \in Nat
    /\ MaxCrashes \in Nat
    /\ Nil \notin Claims /\ Nil \notin Views

VARIABLES
    job,            \* backfill_jobs
    job_session,    \* backfill_job_sessions, by <<job, session>>
    ingestion,      \* session_ingestions
    snapshot,       \* session -> token of the attempt whose data is stored
    gate,           \* upstream_request_gates row of fastf1_archive
    planner,        \* sessions the planner found eligible and not busy, or Nil
    pc,             \* where each worker is between its transactions
    claim,          \* the worker's ClaimedArchiveJobSession
    monitor,        \* outcome so far of the worker's heartbeat thread
    error,          \* the error ingest_fastf1_archive_session raised
    todo,           \* jobs the worker still has to aggregate
    seen,           \* children the aggregation's SELECT saw
    pauses,         \* pauses so far (bounded by MaxPauses)
    crashes         \* abandoned attempts so far (bounded by MaxCrashes)

rows == <<job, job_session, ingestion, snapshot, gate>>
local == <<pc, claim, monitor, error, todo, seen>>
vars == <<job, job_session, ingestion, snapshot, gate, planner,
          pc, claim, monitor, error, todo, seen, pauses, crashes>>

-----------------------------------------------------------------------------
(* Rows and their empty values. *)

Status == {"absent", "pending", "running", "completed", "failed"}
Active == {"pending", "running"}
Terminal == {"completed", "failed"}
Pausing == {"rate_limited", "budget"}
Failures == {"retryable", "terminal"} \cup Pausing

Absent == [status |-> "absent", attempt |-> 0, beat |-> None, retry |-> None]
NewChild == [Absent EXCEPT !.status = "pending"]

NoIngestion == [status |-> "absent", token |-> 0, beat |-> None, retry |-> None]

JobRow == [status: Status, started: BOOLEAN]
ChildRow == [status: Status, attempt: Int, beat: Int, retry: Int]
IngestionRow == [status: Status, token: Nat, beat: Int, retry: Int]

TypeOK ==
    /\ job \in [Job -> JobRow]
    /\ job_session \in [Child -> ChildRow]
    /\ ingestion \in [Session -> IngestionRow]
    /\ snapshot \in [Session -> Nat]
    /\ gate \in [wait: Nat, reason: {"pacing", "rate_limit", "budget"}]
    /\ planner = Nil \/ planner \subseteq Session
    /\ pc \in [Worker -> {"idle", "loading", "persisting", "stopping",
                          "failing", "aggregating", "deriving", "listing"}]
    /\ claim \in [Worker -> Claims \cup {Nil}]
    /\ monitor \in [Worker -> {"ok", "ownership", "retryable", "terminal"}]
    /\ error \in [Worker -> {"none", "ownership"} \cup Failures]
    /\ todo \in [Worker -> SUBSET Job]
    /\ seen \in [Worker -> Views \cup {Nil}]
    /\ pauses \in Nat
    /\ crashes \in Nat

Children(j) == {s \in Session : job_session[<<j, s>>].status # "absent"}
ActiveJobs == {j \in Job : job[j].status \in Active}

(* Operators whose comment begins with "Mutant" are no part of the         *)
(* specification: each replaces the definition after it by a plausible bug *)
(* to show that a property notices.                                        *)

(* Mutant: ownership by status, as if no attempt number were compared. *)
OwnsByStatus(c) ==
    /\ job_session[<<c.job, c.session>>].status = "running"
    /\ job[c.job].status = "running"
    /\ ingestion[c.session].status = "running"

(* The ownership check of heartbeat_archive_job_session,                   *)
(* transition_archive_job_failure and replace_archive_session: the locked  *)
(* rows still carry both numbers of the claim.                             *)
Owns(c) ==
    /\ job_session[<<c.job, c.session>>].status = "running"
    /\ job_session[<<c.job, c.session>>].attempt = c.attempt
    /\ job[c.job].status = "running"
    /\ ingestion[c.session].status = "running"
    /\ ingestion[c.session].token = c.token

Init ==
    /\ job = [j \in Job |-> [status |-> "absent", started |-> FALSE]]
    /\ job_session = [c \in Child |-> Absent]
    /\ ingestion = [s \in Session |-> NoIngestion]
    /\ snapshot = [s \in Session |-> 0]
    /\ gate = [wait |-> 0, reason |-> "pacing"]
    /\ planner = Nil
    /\ pc = [w \in Worker |-> "idle"]
    /\ claim = [w \in Worker |-> Nil]
    /\ monitor = [w \in Worker |-> "ok"]
    /\ error = [w \in Worker |-> "none"]
    /\ todo = [w \in Worker |-> {}]
    /\ seen = [w \in Worker |-> Nil]
    /\ pauses = 0
    /\ crashes = 0

-----------------------------------------------------------------------------
(* The planner: _create_or_reuse_job inside ensure_season_backfill.  The   *)
(* schedule and freshness decisions are the choice of E: any set of        *)
(* sessions may be due for a first ingestion or for a refresh.  The season *)
(* advisory lock lets one planner run at a time.                           *)

PlanRead(E) ==
    /\ planner = Nil
    /\ planner' = {s \in E : ingestion[s].status \notin Active}
    /\ UNCHANGED <<rows, local, pauses, crashes>>

(* Children are inserted for the wanted sessions that are not in the job   *)
(* yet; without an active job one is created for them, unless there are    *)
(* none.                                                                   *)
PlanInto(j) ==
    /\ \/ job[j].status \in Active
       \/ /\ ActiveJobs = {}
          /\ job[j].status = "absent"
          /\ planner # {}
    /\ job' = IF job[j].status = "absent"
              THEN [job EXCEPT ![j].status = "pending"] ELSE job
    /\ job_session' =
        [c \in Child |-> IF /\ c[1] = j /\ c[2] \in planner
                            /\ job_session[c].status = "absent"
                         THEN NewChild ELSE job_session[c]]

PlanCommit ==
    /\ planner # Nil
    /\ \/ \E j \in Job : PlanInto(j)
       \/ /\ ActiveJobs = {}
          /\ planner = {}
          /\ UNCHANGED <<job, job_session>>
    /\ planner' = Nil
    /\ UNCHANGED <<ingestion, snapshot, gate, local, pauses, crashes>>

(* The planner's transaction fails (deadlock victim, lost connection) and  *)
(* leaves the rows alone.                                                  *)
PlanAbort ==
    /\ planner # Nil
    /\ planner' = Nil
    /\ UNCHANGED <<rows, local, pauses, crashes>>

-----------------------------------------------------------------------------
(* claim_next_archive_job_session.  The ORDER BY picks the first row that  *)
(* no other transaction has locked (SKIP LOCKED), which may be any of the  *)
(* eligible ones.  A claim of a session that is already running raises and *)
(* changes nothing, and stands in the way of the rows after it.            *)

(* Mutant: a failed child is tried again while attempts are left. *)
EligibleWhenFailed(c) ==
    /\ job[c[1]].status \in Active
    /\ job_session[c].status \in {"pending", "failed"}
    /\ job_session[c].attempt < MaxAttempts
    /\ job_session[c].retry \in {None, 0}

(* The rows of the SELECT. *)
Eligible(c) ==
    /\ job[c[1]].status \in Active
    /\ job_session[c].status = "pending"
    /\ job_session[c].attempt < MaxAttempts
    /\ job_session[c].retry \in {None, 0}

Claimable(c) == Eligible(c) /\ ingestion[c[2]].status # "running"

(* No eligible row raises. *)
Unobstructed == \A c \in Child : Eligible(c) => Claimable(c)

ClaimNext(w, c) ==
    /\ pc[w] = "idle"
    /\ gate.wait = 0
    /\ Claimable(c)
    /\ LET attempt == job_session[c].attempt + 1
           token == ingestion[c[2]].token + 1
       IN  /\ job' = [job EXCEPT ![c[1]] =
                        [status |-> "running", started |-> TRUE]]
           /\ job_session' = [job_session EXCEPT ![c] =
                [status |-> "running", attempt |-> attempt,
                 beat |-> 0, retry |-> None]]
           /\ ingestion' = [ingestion EXCEPT ![c[2]] =
                [status |-> "running", token |-> token,
                 beat |-> 0, retry |-> None]]
           /\ claim' = [claim EXCEPT ![w] =
                [job |-> c[1], session |-> c[2],
                 attempt |-> attempt, token |-> token]]
    /\ gate' = [wait |-> MinInterval, reason |-> "pacing"]
    /\ pc' = [pc EXCEPT ![w] = "loading"]
    /\ UNCHANGED <<snapshot, planner, monitor, error, todo, seen, pauses, crashes>>

-----------------------------------------------------------------------------
(* ClaimHeartbeatMonitor: a thread that lives until monitor.stop() joins   *)
(* it, and ends at its first exception.                                    *)

MonitorRuns(w) ==
    /\ pc[w] \in {"loading", "persisting", "stopping"}
    /\ monitor[w] = "ok"

(* Mutant: only the job-session's heartbeat is refreshed. *)
HeartbeatOneRow(w) ==
    /\ MonitorRuns(w)
    /\ Owns(claim[w])
    /\ job_session' =
        [job_session EXCEPT ![<<claim[w].job, claim[w].session>>].beat = 0]
    /\ UNCHANGED <<job, ingestion, snapshot, gate, planner, local, pauses, crashes>>

Heartbeat(w) ==
    /\ MonitorRuns(w)
    /\ Owns(claim[w])
    /\ job_session' =
        [job_session EXCEPT ![<<claim[w].job, claim[w].session>>].beat = 0]
    /\ ingestion' = [ingestion EXCEPT ![claim[w].session].beat = 0]
    /\ UNCHANGED <<job, snapshot, gate, planner, local, pauses, crashes>>

HeartbeatFails(w, e) ==
    /\ MonitorRuns(w)
    /\ e = "ownership" => ~Owns(claim[w])
    /\ monitor' = [monitor EXCEPT ![w] = e]
    /\ UNCHANGED <<rows, planner, pc, claim, error, todo, seen, pauses, crashes>>

-----------------------------------------------------------------------------
(* process_next_archive_job_session after the claim: load and normalise,   *)
(* the before_persist check of the monitor, the claim-aware replacement.   *)

Fails(w, e) ==
    /\ pc' = [pc EXCEPT ![w] = "stopping"]
    /\ error' = [error EXCEPT ![w] = e]
    /\ UNCHANGED <<rows, planner, claim, monitor, todo, seen, crashes>>

LoadFails(w, e) ==
    /\ pc[w] = "loading"
    /\ e \in Pausing => pauses < MaxPauses
    /\ pauses' = IF e \in Pausing THEN pauses + 1 ELSE pauses
    /\ Fails(w, e)

LoadSucceeds(w) ==
    /\ pc[w] = "loading"
    /\ IF monitor[w] = "ok"
       THEN /\ pc' = [pc EXCEPT ![w] = "persisting"]
            /\ UNCHANGED <<rows, planner, claim, monitor, error, todo, seen,
                           crashes>>
       ELSE Fails(w, monitor[w])
    /\ UNCHANGED pauses

(* replace_archive_session commits the sporting data and both rows in one  *)
(* transaction.                                                            *)
Persist(w) ==
    /\ pc[w] = "persisting"
    /\ Owns(claim[w])
    /\ LET c == claim[w]
       IN  /\ snapshot' = [snapshot EXCEPT ![c.session] = c.token]
           /\ job_session' = [job_session EXCEPT
                ![<<c.job, c.session>>] =
                    [status |-> "completed", attempt |-> c.attempt,
                     beat |-> None, retry |-> None]]
           /\ ingestion' = [ingestion EXCEPT ![c.session] =
                    [status |-> "completed", token |-> c.token,
                     beat |-> None, retry |-> None]]
    /\ pc' = [pc EXCEPT ![w] = "stopping"]
    /\ UNCHANGED <<job, gate, planner, claim, monitor, error, todo, seen,
                   pauses, crashes>>

(* The replacement raises: ArchivePersistenceOwnershipError when the claim *)
(* is lost; a changed target or a database error (either class) otherwise. *)
PersistFails(w, e) ==
    /\ pc[w] = "persisting"
    /\ e = "ownership" => ~Owns(claim[w])
    /\ Fails(w, e)
    /\ UNCHANGED pauses

(* The attempt is over: its claim and its monitor are gone, and the parent *)
(* job is aggregated next.                                                 *)
ToAggregation(w) ==
    /\ pc' = [pc EXCEPT ![w] = "aggregating"]
    /\ todo' = [todo EXCEPT ![w] = {claim[w].job}]
    /\ claim' = [claim EXCEPT ![w] = Nil]
    /\ monitor' = [monitor EXCEPT ![w] = "ok"]
    /\ error' = [error EXCEPT ![w] = "none"]
    /\ UNCHANGED seen

(* monitor.stop(), then the choice of effective_error. *)
StopMonitor(w) ==
    /\ pc[w] = "stopping"
    /\ LET effective == IF monitor[w] # "ok" THEN monitor[w] ELSE error[w]
       IN  IF error[w] = "none" \/ effective = "ownership"
           THEN ToAggregation(w)
           ELSE /\ pc' = [pc EXCEPT ![w] = "failing"]
                /\ error' = [error EXCEPT ![w] = effective]
                /\ UNCHANGED <<todo, claim, monitor, seen>>
    /\ UNCHANGED <<rows, planner, pauses, crashes>>

-----------------------------------------------------------------------------
(* transition_archive_job_failure.  A pause gives the attempt back and     *)
(* closes the gate; a retryable failure backs off while attempts are left; *)
(* anything else is final.                                                 *)

Delays == Backoff \cup BudgetDelay \cup {Cooldown, None}

Later(a, b) == IF a > b THEN a ELSE b

RetryDelays(w) ==
    CASE error[w] = "rate_limited" -> {Cooldown}
      [] error[w] = "budget" -> BudgetDelay
      [] error[w] = "retryable" /\ claim[w].attempt < MaxAttempts -> Backoff
      [] OTHER -> {None}

(* Both rows leave "running" together, with one status and one retry time. *)
(* Mutant: the last failure is filed as a success. *)
SettledAsCompleted(delay) == IF delay = None THEN "completed" ELSE "pending"

SettledStatus(delay) == IF delay = None THEN "failed" ELSE "pending"

SettledChild(attempt, delay) ==
    [status |-> SettledStatus(delay), attempt |-> attempt,
     beat |-> None, retry |-> delay]

(* Mutant: the retry time reaches the job-session only. *)
SettledUntimed(token, delay) ==
    [status |-> SettledStatus(delay), token |-> token,
     beat |-> None, retry |-> None]

(* Mutant: a settled session starts counting its attempts anew. *)
SettledForgetful(token, delay) ==
    [status |-> SettledStatus(delay), token |-> 0,
     beat |-> None, retry |-> delay]

SettledIngestion(token, delay) ==
    [status |-> SettledStatus(delay), token |-> token,
     beat |-> None, retry |-> delay]

(* Mutant: a retryable failure costs nothing either. *)
ChargedForTerminal(w) ==
    IF error[w] = "terminal" THEN claim[w].attempt ELSE claim[w].attempt - 1

(* The attempts the job-session stays charged with. *)
Charged(w) ==
    IF error[w] \in Pausing THEN claim[w].attempt - 1 ELSE claim[w].attempt

RecordFailure(w, delay) ==
    /\ pc[w] = "failing"
    /\ Owns(claim[w])
    /\ delay \in RetryDelays(w)
    /\ job_session' = [job_session EXCEPT ![<<claim[w].job, claim[w].session>>] =
                            SettledChild(Charged(w), delay)]
    /\ ingestion' = [ingestion EXCEPT ![claim[w].session] =
                            SettledIngestion(claim[w].token, delay)]
    /\ gate' = IF error[w] \in Pausing
               THEN [wait |-> Later(gate.wait, delay),
                     reason |-> IF error[w] = "budget" THEN "budget"
                                ELSE "rate_limit"]
               ELSE gate
    /\ ToAggregation(w)
    /\ UNCHANGED <<job, snapshot, planner, pauses, crashes>>

(* The claim was lost between the error and the transition. *)
FailureNotOwned(w) ==
    /\ pc[w] = "failing"
    /\ ~Owns(claim[w])
    /\ ToAggregation(w)
    /\ UNCHANGED <<rows, planner, pauses, crashes>>

-----------------------------------------------------------------------------
(* aggregate_backfill_job, after an attempt and during maintenance. *)

AggregateRead(w, j) ==
    /\ pc[w] = "aggregating"
    /\ j \in todo[w]
    /\ seen' = [seen EXCEPT ![w] = [job |-> j, sessions |-> Children(j)]]
    /\ pc' = [pc EXCEPT ![w] = "deriving"]
    /\ UNCHANGED <<rows, planner, claim, monitor, error, todo, pauses, crashes>>

(* Mutant: children of both outcomes leave the job running. *)
DeriveUnanimous(j, S) ==
    LET all(status) == \A s \in S : job_session[<<j, s>>].status = status
    IN  CASE S = {} -> job[j].status
          [] S # {} /\ all("completed") -> "completed"
          [] S # {} /\ all("failed") -> "failed"
          [] OTHER -> "running"

(* _derive_active_job_status over the children S of job j. *)
DeriveStatus(j, S) ==
    LET has(status) == \E s \in S : job_session[<<j, s>>].status = status
        hasStarted ==
            \/ job[j].status = "running"
            \/ job[j].started
            \/ has("running") \/ has("completed") \/ has("failed")
            \/ \E s \in S : job_session[<<j, s>>].attempt > 0
    IN  CASE S = {} -> job[j].status
          [] S # {} /\ (has("pending") \/ has("running")) ->
                IF hasStarted THEN "running" ELSE "pending"
          [] OTHER -> IF has("failed") THEN "failed" ELSE "completed"

(* Mutant: a job that has ended is aggregated again. *)
AggregatedAgain(j, S) ==
    [status |-> DeriveStatus(j, S),
     started |-> job[j].started \/ DeriveStatus(j, S) # "pending"]

(* The row of job j after _apply_job_aggregation over the children S. *)
Aggregated(j, S) ==
    IF job[j].status \in Terminal THEN job[j]
    ELSE [status |-> DeriveStatus(j, S),
          started |-> job[j].started \/ DeriveStatus(j, S) # "pending"]

AggregateWrite(w) ==
    /\ pc[w] = "deriving"
    /\ LET j == seen[w].job
           left == todo[w] \ {j}
       IN  /\ job' = [job EXCEPT ![j] = Aggregated(j, seen[w].sessions)]
           /\ todo' = [todo EXCEPT ![w] = left]
           /\ pc' = [pc EXCEPT ![w] = IF left = {} THEN "idle"
                                      ELSE "aggregating"]
    /\ seen' = [seen EXCEPT ![w] = Nil]
    /\ UNCHANGED <<job_session, ingestion, snapshot, gate, planner,
                   claim, monitor, error, pauses, crashes>>

-----------------------------------------------------------------------------
(* perform_worker_maintenance: recover_stale_archive_job_sessions, the     *)
(* list of active jobs, then an aggregation of each of them.               *)

Stale(beat) == beat # None /\ beat > LeaseTimeout

(* The rows the SELECT of a recovery may lock: any of them, because those  *)
(* that other transactions have locked are skipped.                        *)
Expired ==
    {c \in Child :
        /\ job[c[1]].status = "running"
        /\ job_session[c].status = "running"
        /\ Stale(job_session[c].beat)}

(* Mutant: an attempt out of retries is not recovered. *)
RecoverableWithRetries ==
    {c \in Expired :
        /\ ingestion[c[2]].status = "running"
        /\ job_session[c].attempt \in 1..(MaxAttempts - 1)
        /\ Stale(ingestion[c[2]].beat)}

(* The rows among them that are not skipped afterwards. *)
Recoverable ==
    {c \in Expired :
        /\ ingestion[c[2]].status = "running"
        /\ job_session[c].attempt >= 1
        /\ Stale(ingestion[c[2]].beat)}

RecoveryDelays(c) ==
    IF job_session[c].attempt < MaxAttempts THEN Backoff ELSE {None}

RecoverWith(S, delay) ==
    /\ \A c \in S : delay[c] \in RecoveryDelays(c)
    /\ job_session' =
        [c \in Child |->
            IF c \in S THEN SettledChild(job_session[c].attempt, delay[c])
            ELSE job_session[c]]
    /\ ingestion' =
        [s \in Session |->
            IF \E c \in S : c[2] = s
            THEN SettledIngestion(ingestion[s].token,
                                  delay[CHOOSE c \in S : c[2] = s])
            ELSE ingestion[s]]

RecoverRows(S) ==
    \E delay \in [S -> Backoff \cup {None}] : RecoverWith(S, delay)

(* The rows T are locked, of the stale ones as many as the batch allows;   *)
(* those that are skipped have taken a place in it.                        *)
Recover(w, T) ==
    /\ pc[w] = "idle"
    /\ T \subseteq Expired
    /\ Cardinality(T) <= RecoveryBatch
    /\ RecoverRows(T \cap Recoverable)
    /\ pc' = [pc EXCEPT ![w] = "listing"]
    /\ UNCHANGED <<job, snapshot, gate, planner,
                   claim, monitor, error, todo, seen, pauses, crashes>>

(* Mutant: maintenance looks at the jobs that have not started. *)
ListPendingJobs(w) ==
    /\ pc[w] = "listing"
    /\ todo' = [todo EXCEPT ![w] = {j \in Job : job[j].status = "pending"}]
    /\ pc' = [pc EXCEPT ![w] = IF todo'[w] = {} THEN "idle" ELSE "aggregating"]
    /\ UNCHANGED <<rows, planner, claim, monitor, error, seen, pauses, crashes>>

ListActiveJobs(w) ==
    /\ pc[w] = "listing"
    /\ todo' = [todo EXCEPT ![w] = ActiveJobs]
    /\ pc' = [pc EXCEPT ![w] = IF ActiveJobs = {} THEN "idle"
                               ELSE "aggregating"]
    /\ UNCHANGED <<rows, planner, claim, monitor, error, seen, pauses, crashes>>

-----------------------------------------------------------------------------
(* The worker drops what it was doing: its process dies and is started     *)
(* again, or a transaction fails and ArchiveBackfillWorker.run swallows    *)
(* the exception.  The rows stay as the last commit left them.             *)
Abandon(w) ==
    /\ pc[w] # "idle"
    /\ crashes < MaxCrashes
    /\ crashes' = crashes + 1
    /\ pc' = [pc EXCEPT ![w] = "idle"]
    /\ claim' = [claim EXCEPT ![w] = Nil]
    /\ todo' = [todo EXCEPT ![w] = {}]
    /\ seen' = [seen EXCEPT ![w] = Nil]
    /\ monitor' = [monitor EXCEPT ![w] = "ok"]
    /\ error' = [error EXCEPT ![w] = "none"]
    /\ UNCHANGED <<rows, planner, pauses>>

(* One unit of PostgreSQL time. *)
Older(beat) == IF beat = None \/ beat > LeaseTimeout THEN beat ELSE beat + 1

Sooner(wait) == IF wait > 0 THEN wait - 1 ELSE wait

Tick ==
    /\ job_session' = [c \in Child |->
            [status |-> job_session[c].status,
             attempt |-> job_session[c].attempt,
             beat |-> Older(job_session[c].beat),
             retry |-> Sooner(job_session[c].retry)]]
    /\ ingestion' = [s \in Session |->
            [status |-> ingestion[s].status,
             token |-> ingestion[s].token,
             beat |-> Older(ingestion[s].beat),
             retry |-> Sooner(ingestion[s].retry)]]
    /\ gate' = [gate EXCEPT !.wait = Sooner(@)]
    /\ UNCHANGED <<job, snapshot, planner, local, pauses, crashes>>

(* What moves a busy worker on. *)
Proceed(w) ==
    \/ \E e \in Failures : LoadFails(w, e)
    \/ LoadSucceeds(w)
    \/ Persist(w)
    \/ \E e \in {"ownership", "retryable", "terminal"} : PersistFails(w, e)
    \/ StopMonitor(w)
    \/ \E delay \in Delays : RecordFailure(w, delay)
    \/ FailureNotOwned(w)
    \/ \E j \in Job : AggregateRead(w, j)
    \/ AggregateWrite(w)
    \/ ListActiveJobs(w)

WorkerNext(w) ==
    \/ \E c \in Child : ClaimNext(w, c)
    \/ \E T \in SUBSET Child : Recover(w, T)
    \/ Proceed(w)
    \/ Heartbeat(w)
    \/ \E e \in {"ownership", "retryable", "terminal"} : HeartbeatFails(w, e)
    \/ Abandon(w)

Next ==
    \/ \E E \in SUBSET Session : PlanRead(E)
    \/ PlanCommit
    \/ PlanAbort
    \/ \E w \in Worker : WorkerNext(w)
    \/ Tick

Spec == Init /\ [][Next]_vars

(* The fairness of the liveness checks.  Time passes, a busy worker moves  *)
(* on (apart from its MaxCrashes accidents), and an idle one, which tries  *)
(* a claim in every iteration of run() and maintenance in every scan       *)
(* interval, does each again and again; a claim is promised only while no  *)
(* row raises.  Heartbeats, the planner and crashes are not promised.      *)
WorkerFairness(w) ==
    /\ WF_vars(Proceed(w))
    /\ SF_vars(Unobstructed /\ \E c \in Child : ClaimNext(w, c))
    /\ SF_vars(\E T \in SUBSET Child : T # {} /\ Recover(w, T))
    /\ SF_vars(Recover(w, {}))

FairSpec ==
    /\ Spec
    /\ WF_vars(Tick)
    /\ \A w \in Worker : WorkerFairness(w)

-----------------------------------------------------------------------------
(* Safety. *)

(* Of all the workers that ever claimed a session and still believe they   *)
(* own it, at most one passes the ownership check of the heartbeat, the    *)
(* failure transition and the replacement: a worker whose lease was        *)
(* recovered stays shut out, whatever happened to the session since.       *)
AtMostOneOwner ==
    \A v, w \in Worker :
        /\ v # w
        /\ claim[v] # Nil /\ claim[w] # Nil
        /\ claim[v].session = claim[w].session
        => ~(Owns(claim[v]) /\ Owns(claim[w]))

(* The two rows of an attempt change together in every transaction: a      *)
(* session_ingestions row is running exactly while one job-session of that *)
(* session is, with the same heartbeat, and a child that waits for a retry *)
(* in an active job waits in both rows until the same time.                *)
RowsAgree ==
    \A s \in Session :
        /\ ingestion[s].status = "running" =>
            \E j \in Job : job_session[<<j, s>>].status = "running"
        /\ \A j \in Job : job_session[<<j, s>>].status = "running" =>
            /\ ingestion[s].status = "running"
            /\ ingestion[s].beat = job_session[<<j, s>>].beat
            /\ \A i \in Job \ {j} : job_session[<<i, s>>].status # "running"
        /\ \A j \in Job :
            /\ job[j].status \in Active
            /\ job_session[<<j, s>>].status = "pending"
            /\ job_session[<<j, s>>].retry # None
            => /\ ingestion[s].status = "pending"
               /\ ingestion[s].retry = job_session[<<j, s>>].retry

(* The retry budget of a job-session is never overdrawn, never goes below  *)
(* zero when a pause gives an attempt back, and is never used up by a      *)
(* child that still waits: claims skip such a child, so it would keep its  *)
(* job open for ever.                                                      *)
AttemptBudget ==
    \A c \in Child :
        job_session[c].attempt \in
            CASE job_session[c].status = "absent" -> {0}
              [] job_session[c].status = "pending" -> 0..(MaxAttempts - 1)
              [] OTHER -> 1..MaxAttempts

(* The attempts that the job-sessions of s are charged with: the first,    *)
(* the second and so on of each job.                                       *)
Charges(s) ==
    {c \in Job \X (1..MaxAttempts) : c[2] <= job_session[<<c[1], s>>].attempt}

(* Every claim is paid for: the lifetime token of a session, which grows   *)
(* by one with every claim, is the number of attempts charged to its       *)
(* job-sessions and of pauses that gave an attempt back.                   *)
ClaimsAccounted ==
    \A s \in Session :
        /\ Cardinality(Charges(s)) <= ingestion[s].token
        /\ ingestion[s].token <= Cardinality(Charges(s)) + pauses

(* A child is reported completed only when the data of some attempt is     *)
(* stored, and no later failure, recovery or refresh takes it away; a      *)
(* session reported completed shows the data of its last attempt, however  *)
(* many stalled workers came back late with those of an earlier one.       *)
CompletedHasData ==
    /\ \A c \in Child :
        job_session[c].status = "completed" => snapshot[c[2]] # 0
    /\ \A s \in Session :
        ingestion[s].status = "completed" => snapshot[s] = ingestion[s].token

(* Terminal rows are final: recovery, late workers and repeated            *)
(* aggregation leave settled children and settled jobs alone.              *)
SettledIsFinal ==
    [][/\ \A c \in Child : job_session[c].status \in Terminal
                                => job_session'[c] = job_session[c]
       /\ \A j \in Job : job[j].status \in Terminal => job'[j] = job[j]]_vars

(* A lease is a running session_ingestions row, its token the row's        *)
(* attempt_count.                                                          *)
Held == [s \in Session |-> IF ingestion[s].status = "running"
                           THEN ingestion[s].token ELSE 0]

Lease == INSTANCE FencedLease WITH
            Key <- Session,
            highest <- [s \in Session |-> ingestion[s].token],
            held <- Held,
            published <- snapshot

(* Heartbeats, retries, recoveries and late completions together behave    *)
(* like one fenced lease per session: fresh tokens only, and sporting data *)
(* is replaced by the holder of the newest token alone.                    *)
ImplementsFencedLease == Lease!Spec

(* docs/BACKFILL_RUNTIME_POLICY.md: a job becomes completed only when      *)
(* every child is, failed only when none is pending or running.            *)
TerminalJobIsDone ==
    \A c \in Child : job[c[1]].status \in Terminal =>
                        job_session[c].status \in Terminal \cup {"absent"}

(* docs/BACKFILL_RUNTIME_POLICY.md: once FastF1 has reported its rate      *)
(* limit to an attempt, the attempt ends with the gate closed for the      *)
(* cooldown (unless its worker dies first).                                *)
RateLimitClosesGate ==
    [][\A w \in Worker :
        /\ error[w] = "rate_limited" /\ error'[w] # "rate_limited"
        /\ crashes' = crashes
        => gate'.wait >= Cooldown]_vars

-----------------------------------------------------------------------------
(* Liveness, under FairSpec. *)

(* No attempt holds its session for ever: a crashed or stalled worker's    *)
(* lease is recovered.                                                     *)
LeaseEnds ==
    \A s \in Session :
        ingestion[s].status = "running" ~> ingestion[s].status # "running"

(* Every job ends: retries, pauses, crashes and lost claims use up a       *)
(* bounded budget, and maintenance notices the last outcome even when the  *)
(* worker that produced it did not live to aggregate it.                   *)
JobEnds ==
    \A j \in Job : job[j].status \in Active ~> job[j].status \in Terminal

=============================================================================
