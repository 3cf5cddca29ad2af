--------------------------- MODULE TelemetryLeases ---------------------------
(***************************************************************************)
(* Historical lap telemetry (backend/app/ingestion/telemetry_ingestion.py, *)
(* read by api/telemetry_data.py): one request row and one sample set per  *)
(* lap of a session, the workers that claim and serve requests, and the    *)
(* archive refreshes that replace the session under them.                  *)
(*                                                                         *)
(* Granularity.  A transaction that locks what it decides on is one        *)
(* action.  Two read session_ingestions without a lock while they hold a   *)
(* request row: the claim, which reads the snapshot once to choose the row *)
(* and once more to fill in the claim, and the replacement, which compares *)
(* the snapshot and then writes.  Each takes two actions, and the row is   *)
(* locked in between.  A request locks the lap, which a refresh upserts or *)
(* deletes, so the two exclude each other.                                 *)
(*                                                                         *)
(* A sporting snapshot is identified by session_ingestions.completed_at;   *)
(* the model numbers the snapshots.  Heartbeats and retry times are        *)
(* distances to now, in ticks.                                             *)
(***************************************************************************)
EXTENDS Integers, FiniteSets

CONSTANTS
    Worker,         \* processes that serve telemetry
    Lap,            \* laps the session may have
    Nil,            \* no claim
    MaxAttempts,    \* settings.max_attempts
    LeaseTimeout,   \* settings.lease_timeout, in ticks
    Backoff,        \* delays calculate_retry_schedule may return, in ticks
    RecoveryBatch,  \* recover_stale_telemetry_leases' batch_size
    MaxSnapshots,   \* bound: snapshots of the session
    MaxRequests,    \* bound: requests that queue a lap
    MaxCrashes      \* bound: how often a worker drops what it is doing

None == -1          \* a NULL timestamp

Claims == [lap: Lap, token: Nat, snapshot: Nat]

ASSUME TelemetryAssumption ==
    /\ MaxAttempts \in Nat \ {0}
    /\ LeaseTimeout \in Nat
    /\ Backoff \subseteq Nat /\ Backoff # {}
    /\ RecoveryBatch \in Nat \ {0}
    /\ MaxSnapshots \in Nat \ {0}
    /\ MaxRequests \in Nat
    /\ MaxCrashes \in Nat
    /\ Nil \notin Claims /\ Nil \notin Lap

VARIABLES
    sporting,       \* the session's session_ingestions row
    laps,           \* the stored laps
    row,            \* lap -> its lap_telemetry_ingestions row
    samples,        \* lap -> snapshot of the claim its samples were loaded for
    pc,             \* where each worker is between its transactions
    at,             \* the lap whose row the worker's open transaction locks
    claim,          \* the worker's ClaimedTelemetryLap
    monitor,        \* outcome so far of its heartbeat thread
    error,          \* the error that ended its load
    requests,       \* requests that queued (bounded by MaxRequests)
    crashes         \* abandoned claims (bounded by MaxCrashes)

store == <<sporting, laps, row, samples>>
local == <<pc, at, claim, monitor, error>>
vars == <<sporting, laps, row, samples, pc, at, claim, monitor, error,
          requests, crashes>>

Status == {"absent", "pending", "running", "completed", "failed"}
Active == {"pending", "running"}

Absent == [status |-> "absent", attempt |-> 0, snapshot |-> 0,
           beat |-> None, retry |-> None]

RequestRow == [status: Status, attempt: Nat, snapshot: Nat,
               beat: {None} \cup 0..(LeaseTimeout + 1),
               retry: {None} \cup Nat]

TypeOK ==
    /\ sporting \in [status: Status, snapshot: Nat]
    /\ laps \subseteq Lap
    /\ row \in [Lap -> RequestRow]
    /\ samples \in [Lap -> Nat]
    /\ pc \in [Worker -> {"idle", "claiming", "loading", "checking",
                          "replacing", "failing"}]
    /\ at \in [Worker -> Lap \cup {Nil}]
    /\ claim \in [Worker -> Claims \cup {Nil}]
    /\ monitor \in [Worker -> {"ok", "ownership", "terminal"}]
    /\ error \in [Worker -> {"none", "retryable", "terminal"}]
    /\ requests \in Nat
    /\ crashes \in Nat

Init ==
    /\ sporting = [status |-> "completed", snapshot |-> 1]
    /\ laps = Lap
    /\ row = [l \in Lap |-> Absent]
    /\ samples = [l \in Lap |-> 0]
    /\ pc = [w \in Worker |-> "idle"]
    /\ at = [w \in Worker |-> Nil]
    /\ claim = [w \in Worker |-> Nil]
    /\ monitor = [w \in Worker |-> "ok"]
    /\ error = [w \in Worker |-> "none"]
    /\ requests = 0
    /\ crashes = 0

Locked(l) == \E w \in Worker : at[w] = l

(* Mutant: only the token and the snapshot are compared. *)
OwnsWithoutStatus(c) ==
    /\ row[c.lap].attempt = c.token
    /\ row[c.lap].snapshot = c.snapshot

(* _owned_state: the locked row still carries the claim. *)
Owns(c) ==
    /\ row[c.lap].status = "running"
    /\ row[c.lap].attempt = c.token
    /\ row[c.lap].snapshot = c.snapshot

-----------------------------------------------------------------------------
(* ensure_lap_telemetry.  Requests answered "available" or "reused" change *)
(* nothing.                                                                *)

Answered(l) ==
    /\ row[l].snapshot = sporting.snapshot
    /\ row[l].status \in Active \cup {"completed"}

Queued(status, attempt) ==
    [status |-> status, attempt |-> attempt, snapshot |-> sporting.snapshot,
     beat |-> None, retry |-> None]

(* Mutant: a request that is queued again keeps its attempts. *)
RequeuedSpent(l) == Queued("pending", row[l].attempt)

(* Mutant: the new snapshot is entered before the row's own is compared. *)
RequeuedAsCompleted(l) ==
    IF row[l].status = "completed" THEN Queued("completed", row[l].attempt)
    ELSE Queued("pending", 0)

Requeued(l) == Queued("pending", 0)

Ensure(l) ==
    /\ l \in laps
    /\ sporting.status = "completed"
    /\ ~Locked(l)
    /\ ~Answered(l)
    /\ requests < MaxRequests
    /\ requests' = requests + 1
    /\ row' = [row EXCEPT ![l] = Requeued(l)]
    /\ UNCHANGED <<sporting, laps, samples, local, crashes>>

-----------------------------------------------------------------------------
(* claim_next_telemetry_lap.  Rows that others have locked are skipped, so *)
(* any eligible row may be the first.                                      *)

Claimable(l) ==
    /\ l \in laps
    /\ row[l].status = "pending"
    /\ row[l].attempt < MaxAttempts
    /\ row[l].retry \in {None, 0}
    /\ sporting.status = "completed"
    /\ row[l].snapshot = sporting.snapshot

ClaimSelect(w, l) ==
    /\ pc[w] = "idle"
    /\ Claimable(l)
    /\ ~Locked(l)
    /\ pc' = [pc EXCEPT ![w] = "claiming"]
    /\ at' = [at EXCEPT ![w] = l]
    /\ UNCHANGED <<store, claim, monitor, error, requests, crashes>>

(* The claim's snapshot is read a second time: a refresh that committed    *)
(* in between makes it newer than the row's.                               *)
ClaimCommit(w) ==
    /\ pc[w] = "claiming"
    /\ LET token == row[at[w]].attempt + 1
       IN  /\ row' = [row EXCEPT ![at[w]] =
                [status |-> "running", attempt |-> token, snapshot |-> @.snapshot,
                 beat |-> 0, retry |-> None]]
           /\ claim' = [claim EXCEPT ![w] =
                [lap |-> at[w], token |-> token, snapshot |-> sporting.snapshot]]
    /\ pc' = [pc EXCEPT ![w] = "loading"]
    /\ at' = [at EXCEPT ![w] = Nil]
    /\ UNCHANGED <<sporting, laps, samples, monitor, error, requests, crashes>>

(* The stored entry has no driver identity FastF1 could be asked for. *)
ClaimUnidentified(w) ==
    /\ pc[w] = "claiming"
    /\ row' = [row EXCEPT ![at[w]] =
                [status |-> "failed", attempt |-> @.attempt,
                 snapshot |-> @.snapshot, beat |-> @.beat, retry |-> None]]
    /\ pc' = [pc EXCEPT ![w] = "idle"]
    /\ at' = [at EXCEPT ![w] = Nil]
    /\ UNCHANGED <<sporting, laps, samples, claim, monitor, error, requests,
                   crashes>>

-----------------------------------------------------------------------------
(* process_next_telemetry_lap: the heartbeat thread beside the load, and   *)
(* what follows the load.                                                  *)

Heartbeat(w) ==
    /\ pc[w] = "loading"
    /\ monitor[w] = "ok"
    /\ ~Locked(claim[w].lap)
    /\ Owns(claim[w])
    /\ row' = [row EXCEPT ![claim[w].lap].beat = 0]
    /\ UNCHANGED <<sporting, laps, samples, local, requests, crashes>>

HeartbeatFails(w, e) ==
    /\ pc[w] = "loading"
    /\ monitor[w] = "ok"
    /\ e = "ownership" => ~Locked(claim[w].lap) /\ ~Owns(claim[w])
    /\ monitor' = [monitor EXCEPT ![w] = e]
    /\ UNCHANGED <<store, pc, at, claim, error, requests, crashes>>

(* The attempt is over for the worker, whatever became of the row. *)
LetGo(w) ==
    /\ pc' = [pc EXCEPT ![w] = "idle"]
    /\ at' = [at EXCEPT ![w] = Nil]
    /\ claim' = [claim EXCEPT ![w] = Nil]
    /\ monitor' = [monitor EXCEPT ![w] = "ok"]
    /\ error' = [error EXCEPT ![w] = "none"]

(* The load and its normalisation return or raise e, the monitor is        *)
(* stopped, and its failure, if it has one, comes before e.                *)
LoadEnds(w, e) ==
    /\ pc[w] = "loading"
    /\ LET effective == IF monitor[w] # "ok" THEN monitor[w] ELSE e
       IN  IF effective = "ownership" THEN LetGo(w)
           ELSE /\ pc' = [pc EXCEPT ![w] = IF effective = "none"
                                           THEN "checking" ELSE "failing"]
                /\ error' = [error EXCEPT ![w] = effective]
                /\ monitor' = [monitor EXCEPT ![w] = "ok"]
                /\ UNCHANGED <<at, claim>>
    /\ UNCHANGED <<store, requests, crashes>>

(* replace_lap_telemetry: the row is locked and checked, then the current  *)
(* snapshot is read without a lock.                                        *)
ReplaceCheck(w) ==
    /\ pc[w] = "checking"
    /\ ~Locked(claim[w].lap)
    /\ IF Owns(claim[w]) /\ sporting.snapshot = claim[w].snapshot
       THEN /\ pc' = [pc EXCEPT ![w] = "replacing"]
            /\ at' = [at EXCEPT ![w] = claim[w].lap]
            /\ UNCHANGED <<claim, monitor, error>>
       ELSE LetGo(w)
    /\ UNCHANGED <<store, requests, crashes>>

ReplaceCommit(w) ==
    /\ pc[w] = "replacing"
    /\ row' = [row EXCEPT ![at[w]] =
                [status |-> "completed", attempt |-> @.attempt,
                 snapshot |-> @.snapshot, beat |-> None, retry |-> None]]
    /\ samples' = [samples EXCEPT ![at[w]] = claim[w].snapshot]
    /\ LetGo(w)
    /\ UNCHANGED <<sporting, laps, requests, crashes>>

-----------------------------------------------------------------------------
(* transition_telemetry_failure and recover_stale_telemetry_leases. *)

RetryDelays(attempt) == IF attempt < MaxAttempts THEN Backoff ELSE {None}

Settled(l, delay) ==
    [status |-> IF delay = None THEN "failed" ELSE "pending",
     attempt |-> row[l].attempt, snapshot |-> row[l].snapshot,
     beat |-> None, retry |-> delay]

RecordFailure(w, delay) ==
    /\ pc[w] = "failing"
    /\ ~Locked(claim[w].lap)
    /\ Owns(claim[w])
    /\ delay \in IF error[w] = "retryable" THEN RetryDelays(claim[w].token)
                 ELSE {None}
    /\ row' = [row EXCEPT ![claim[w].lap] = Settled(claim[w].lap, delay)]
    /\ LetGo(w)
    /\ UNCHANGED <<sporting, laps, samples, requests, crashes>>

FailureNotOwned(w) ==
    /\ pc[w] = "failing"
    /\ ~Locked(claim[w].lap)
    /\ ~Owns(claim[w])
    /\ LetGo(w)
    /\ UNCHANGED <<store, requests, crashes>>

(* Mutant: leases are recovered for current requests only, as they are     *)
(* claimed.                                                                *)
RecoverableAndCurrent ==
    {l \in laps : /\ row[l].status = "running"
                  /\ row[l].beat # None /\ row[l].beat > LeaseTimeout
                  /\ row[l].snapshot = sporting.snapshot
                  /\ ~Locked(l)}

Recoverable ==
    {l \in laps : /\ row[l].status = "running"
                  /\ row[l].beat # None /\ row[l].beat > LeaseTimeout
                  /\ ~Locked(l)}

Recover(w, S) ==
    /\ pc[w] = "idle"
    /\ S # {} /\ S \subseteq Recoverable
    /\ Cardinality(S) <= RecoveryBatch
    /\ \E delay \in [S -> Backoff \cup {None}] :
        /\ \A l \in S : delay[l] \in RetryDelays(row[l].attempt)
        /\ row' = [l \in Lap |-> IF l \in S THEN Settled(l, delay[l])
                                 ELSE row[l]]
    /\ UNCHANGED <<sporting, laps, samples, local, requests, crashes>>

(* The worker dies, or a database error ends its attempt (a deadlock with  *)
(* a refresh that deletes the lap, for one): its transaction is undone.    *)
Abandon(w) ==
    /\ pc[w] # "idle"
    /\ crashes < MaxCrashes
    /\ crashes' = crashes + 1
    /\ LetGo(w)
    /\ UNCHANGED <<store, requests>>

-----------------------------------------------------------------------------
(* The session's archive ingestion (module ArchiveLeases), as far as       *)
(* telemetry sees it.                                                      *)

(* A refresh is claimed.  completed_at stays until it commits. *)
RefreshBegins ==
    /\ sporting.status # "running"
    /\ sporting.snapshot < MaxSnapshots
    /\ sporting' = [sporting EXCEPT !.status = "running"]
    /\ UNCHANGED <<laps, row, samples, local, requests, crashes>>

RefreshFails(status) ==
    /\ sporting.status = "running"
    /\ sporting' = [sporting EXCEPT !.status = status]
    /\ UNCHANGED <<laps, row, samples, local, requests, crashes>>

(* replace_archive_session leaves the laps L.  The others are deleted, and *)
(* their telemetry with them, once no transaction holds their rows.  A lap *)
(* that comes back is a new row: no claim of the old one has its snapshot. *)
RefreshCommits(L) ==
    /\ sporting.status = "running"
    /\ \A l \in laps \ L : ~Locked(l)
    /\ sporting' = [status |-> "completed", snapshot |-> sporting.snapshot + 1]
    /\ laps' = L
    /\ row' = [l \in Lap |-> IF l \in L THEN row[l] ELSE Absent]
    /\ samples' = [l \in Lap |-> IF l \in L THEN samples[l] ELSE 0]
    /\ UNCHANGED <<local, requests, crashes>>

-----------------------------------------------------------------------------
Older(beat) == IF beat = None \/ beat > LeaseTimeout THEN beat ELSE beat + 1

Sooner(wait) == IF wait > 0 THEN wait - 1 ELSE wait

(* One unit of PostgreSQL time. *)
Tick ==
    /\ row' = [l \in Lap |->
                [status |-> row[l].status, attempt |-> row[l].attempt,
                 snapshot |-> row[l].snapshot, beat |-> Older(row[l].beat),
                 retry |-> Sooner(row[l].retry)]]
    /\ UNCHANGED <<sporting, laps, samples, local, requests, crashes>>

Proceed(w) ==
    \/ ClaimCommit(w)
    \/ ClaimUnidentified(w)
    \/ \E e \in {"none", "retryable", "terminal"} : LoadEnds(w, e)
    \/ ReplaceCheck(w)
    \/ ReplaceCommit(w)
    \/ \E delay \in Backoff \cup {None} : RecordFailure(w, delay)
    \/ FailureNotOwned(w)

WorkerNext(w) ==
    \/ \E l \in Lap : ClaimSelect(w, l)
    \/ Proceed(w)
    \/ Heartbeat(w)
    \/ \E e \in {"ownership", "terminal"} : HeartbeatFails(w, e)
    \/ \E S \in SUBSET Lap : Recover(w, S)
    \/ Abandon(w)

Archive ==
    \/ RefreshBegins
    \/ \E status \in {"pending", "failed"} : RefreshFails(status)
    \/ \E L \in SUBSET Lap : RefreshCommits(L)

Next ==
    \/ \E l \in Lap : Ensure(l)
    \/ \E w \in Worker : WorkerNext(w)
    \/ Archive
    \/ Tick

Spec == Init /\ [][Next]_vars

(* Time passes, a busy worker moves on, and run() comes back to telemetry  *)
(* and to maintenance again and again.  Requests, refreshes, heartbeats    *)
(* and crashes are not promised.                                           *)
WorkerFairness(w) ==
    /\ WF_vars(Proceed(w))
    /\ SF_vars(\E l \in Lap : ClaimSelect(w, l))
    /\ SF_vars(\E S \in SUBSET Lap : Recover(w, S))

FairSpec ==
    /\ Spec
    /\ WF_vars(Tick)
    /\ \A w \in Worker : WorkerFairness(w)

-----------------------------------------------------------------------------
(* Properties. *)

(* read_lap_telemetry shows samples. *)
Available(l) ==
    /\ l \in laps
    /\ sporting.status = "completed"
    /\ row[l].status = "completed"
    /\ row[l].snapshot = sporting.snapshot

(* The samples the API shows were loaded for the sporting snapshot that it *)
(* shows them with, although claims, requests, refreshes and late workers  *)
(* interleave and the snapshot is never locked.                            *)
AvailableIsCurrent ==
    \A l \in Lap : Available(l) => samples[l] = sporting.snapshot

(* Samples that are shown stay until the session itself is refreshed: no   *)
(* late worker, recovery or repeated request hides them.                   *)
AvailableStays ==
    [][\A l \in Lap :
        Available(l) /\ sporting' = sporting => Available(l)']_vars

(* A waiting request always has an attempt left (claims skip one that has  *)
(* none, and requests reuse it, so it would wait for ever), and none gets  *)
(* more than MaxAttempts.                                                  *)
AttemptBudget ==
    \A l \in Lap :
        row[l].attempt \in
            CASE row[l].status = "pending" -> 0..(MaxAttempts - 1)
              [] row[l].status \in {"running", "completed"} -> 1..MaxAttempts
              [] OTHER -> 0..MaxAttempts

(* PROJECT_CONTEXT.md: telemetry claims have independent attempt fencing,  *)
(* so of two workers with a claim of one lap one at most still owns it.    *)
AtMostOneOwner ==
    \A v, w \in Worker :
        /\ v # w
        /\ claim[v] # Nil /\ claim[w] # Nil
        /\ claim[v].lap = claim[w].lap
        => ~(Owns(claim[v]) /\ Owns(claim[w]))

(* A running row does not stay so when its worker is gone, even when its   *)
(* session was refreshed meanwhile and nobody may claim it again.          *)
LeaseEnds == \A l \in Lap : row[l].status = "running" ~> row[l].status # "running"

(* A request is answered, with samples or a failure, unless its session is *)
(* refreshed first.                                                        *)
Waiting(l) ==
    /\ row[l].status \in Active
    /\ sporting.status = "completed"
    /\ row[l].snapshot = sporting.snapshot

RequestEnds == \A l \in Lap : Waiting(l) ~> ~Waiting(l)

=============================================================================
