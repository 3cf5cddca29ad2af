----------------------- MODULE TelemetryLeasesProofs -----------------------
(***************************************************************************)
(* Theorems about TelemetryLeases, for every set of workers and laps and   *)
(* every value of the settings.                                            *)
(***************************************************************************)
EXTENDS TelemetryLeases, TLAPS

(* A worker holds a row lock exactly between its two reads of a snapshot,  *)
(* and a claim from the claim's commit on.                                 *)
Shape ==
    \A w \in Worker :
        /\ at[w] # Nil <=> pc[w] \in {"claiming", "replacing"}
        /\ pc[w] \in {"loading", "checking", "replacing", "failing"}
            => claim[w] # Nil

TypeInv == TypeOK /\ Shape

(* What a lock keeps true of the row it holds. *)
LockInv ==
    /\ \A v, w \in Worker : at[v] # Nil /\ at[v] = at[w] => v = w
    /\ \A w \in Worker :
        /\ pc[w] = "claiming" =>
            /\ row[at[w]].status = "pending"
        /\ pc[w] = "replacing" =>
            /\ at[w] = claim[w].lap
            /\ row[at[w]].status = "running"
            /\ row[at[w]].snapshot = claim[w].snapshot
    /\ \A l \in Lap \ laps : row[l].status = "absent"

(* Stored samples belong to the snapshot their row names. *)
DataInv ==
    \A l \in Lap :
        row[l].status = "completed" => samples[l] = row[l].snapshot

IInv == TypeInv /\ LockInv /\ DataInv /\ AttemptBudget

USE DEF Claims

LEMMA InitInv == Init => IInv
  BY TelemetryAssumption
  DEF Init, IInv, TypeInv, TypeOK, Shape, LockInv, DataInv, AttemptBudget,
      Absent, None, Status, RequestRow

-----------------------------------------------------------------------------
(* Lemmas about the operators on rows. *)

LEMMA QueuedType ==
    ASSUME TypeOK, NEW l \in Lap
    PROVE  Requeued(l) \in RequestRow
  BY DEF TypeOK, Requeued, Queued, RequestRow, Status, None

LEMMA RetryType ==
    ASSUME NEW attempt \in Nat
    PROVE  RetryDelays(attempt) \subseteq {None} \cup Nat
  BY TelemetryAssumption DEF RetryDelays, None

(* A row that is settled keeps its attempts, and waits only if it has one  *)
(* left.                                                                   *)
LEMMA SettledRow ==
    ASSUME TypeOK, NEW l \in Lap, row[l].attempt \in 1..MaxAttempts,
           NEW delay \in {None} \cup RetryDelays(row[l].attempt)
    PROVE  /\ Settled(l, delay) \in RequestRow
           /\ Settled(l, delay).status \in {"pending", "failed"}
           /\ Settled(l, delay).attempt = row[l].attempt
           /\ Settled(l, delay).status = "pending" =>
                row[l].attempt \in 0..(MaxAttempts - 1)
<1>1. delay \in {None} \cup Nat
  BY RetryType DEF TypeOK, RequestRow
<1>2. delay # None => row[l].attempt < MaxAttempts
  BY DEF RetryDelays
<1>. QED BY <1>1, <1>2, TelemetryAssumption
         DEF Settled, TypeOK, RequestRow, Status, None

-----------------------------------------------------------------------------
(* Type correctness. *)

LEMMA LetGoType ==
    ASSUME TypeInv, NEW w \in Worker, LetGo(w)
    PROVE  /\ pc' \in [Worker -> {"idle", "claiming", "loading", "checking",
                                  "replacing", "failing"}]
           /\ at' \in [Worker -> Lap \cup {Nil}]
           /\ claim' \in [Worker -> Claims \cup {Nil}]
           /\ monitor' \in [Worker -> {"ok", "ownership", "terminal"}]
           /\ error' \in [Worker -> {"none", "retryable", "terminal"}]
           /\ Shape'
  BY DEF TypeInv, TypeOK, Shape, LetGo

LEMMA TypeStep ==
    ASSUME TypeInv, AttemptBudget, [Next]_vars
    PROVE  TypeInv'
<1> USE DEF TypeInv
<1>1. CASE UNCHANGED vars
  BY <1>1 DEF vars, TypeOK, Shape
<1>2. ASSUME NEW l \in Lap, Ensure(l) PROVE TypeInv'
  BY <1>2, QueuedType DEF Ensure, local, TypeOK, Shape
<1>3. ASSUME NEW w \in Worker, WorkerNext(w) PROVE TypeInv'
  <2>1. ASSUME NEW l \in Lap, ClaimSelect(w, l) PROVE TypeInv'
    BY <2>1, TelemetryAssumption DEF ClaimSelect, store, TypeOK, Shape
  <2>2. CASE ClaimCommit(w)
    <3>1. at[w] \in Lap
      BY <2>2 DEF ClaimCommit, TypeOK, Shape
    <3>2. row' \in [Lap -> RequestRow]
      BY <2>2, <3>1, TelemetryAssumption
      DEF ClaimCommit, TypeOK, RequestRow, Status, None
    <3>3. claim' \in [Worker -> Claims \cup {Nil}] /\ claim'[w] \in Claims
      BY <2>2, <3>1 DEF ClaimCommit, TypeOK, RequestRow
    <3>. QED BY <2>2, <3>2, <3>3, TelemetryAssumption
             DEF ClaimCommit, TypeOK, Shape
  <2>3. CASE ClaimUnidentified(w)
    <3>1. at[w] \in Lap
      BY <2>3 DEF ClaimUnidentified, TypeOK, Shape
    <3>2. row' \in [Lap -> RequestRow]
      BY <2>3, <3>1 DEF ClaimUnidentified, TypeOK, RequestRow, Status, None
    <3>. QED BY <2>3, <3>2 DEF ClaimUnidentified, TypeOK, Shape
  <2>4. ASSUME NEW e \in {"none", "retryable", "terminal"}, LoadEnds(w, e)
        PROVE  TypeInv'
    <3> DEFINE effective == IF monitor[w] # "ok" THEN monitor[w] ELSE e
    <3>1. CASE effective = "ownership"
      <4>1. LetGo(w)
        BY <2>4, <3>1 DEF LoadEnds
      <4>. QED BY <2>4, <4>1, LetGoType DEF LoadEnds, store, TypeOK
    <3>2. CASE effective # "ownership"
      <4>1. effective \in {"none", "retryable", "terminal"}
        BY <3>2 DEF TypeOK
      <4>2. /\ pc' = [pc EXCEPT ![w] = IF effective = "none"
                                       THEN "checking" ELSE "failing"]
            /\ error' = [error EXCEPT ![w] = effective]
            /\ monitor' = [monitor EXCEPT ![w] = "ok"]
            /\ UNCHANGED <<at, claim>>
        BY <2>4, <3>2 DEF LoadEnds
      <4>. HIDE DEF effective
      <4>. QED BY <2>4, <4>1, <4>2 DEF LoadEnds, store, TypeOK, Shape
    <3>. QED BY <3>1, <3>2
  <2>5. CASE ReplaceCheck(w)
    <3>1. CASE LetGo(w)
      BY <2>5, <3>1, LetGoType DEF ReplaceCheck, store, TypeOK
    <3>2. CASE ~LetGo(w)
      <4>1. claim[w] \in Claims
        BY <2>5 DEF ReplaceCheck, TypeOK, Shape
      <4>2. /\ pc' = [pc EXCEPT ![w] = "replacing"]
            /\ at' = [at EXCEPT ![w] = claim[w].lap]
            /\ UNCHANGED <<claim, monitor, error>>
        BY <2>5, <3>2 DEF ReplaceCheck
      <4>. QED BY <2>5, <4>1, <4>2, TelemetryAssumption
               DEF ReplaceCheck, store, TypeOK, Shape
    <3>. QED BY <3>1, <3>2
  <2>6. CASE ReplaceCommit(w)
    <3>1. at[w] \in Lap /\ claim[w] \in Claims
      BY <2>6 DEF ReplaceCommit, TypeOK, Shape
    <3>2. row' \in [Lap -> RequestRow]
      BY <2>6, <3>1 DEF ReplaceCommit, TypeOK, RequestRow, Status, None
    <3>. QED BY <2>6, <3>1, <3>2, LetGoType DEF ReplaceCommit, TypeOK
  <2>7. ASSUME NEW delay \in Backoff \cup {None}, RecordFailure(w, delay)
        PROVE  TypeInv'
    <3>1. claim[w] \in Claims
      BY <2>7 DEF RecordFailure, TypeOK, Shape
    <3>2. delay \in {None} \cup Nat
      BY TelemetryAssumption
    <3>3. row' \in [Lap -> RequestRow]
      BY <2>7, <3>1, <3>2
      DEF RecordFailure, Settled, TypeOK, RequestRow, Status, None
    <3>. QED BY <2>7, <3>3, LetGoType DEF RecordFailure, TypeOK
  <2>8. CASE FailureNotOwned(w)
    BY <2>8, LetGoType DEF FailureNotOwned, store, TypeOK
  <2>9. CASE Heartbeat(w)
    <3>1. claim[w] \in Claims
      BY <2>9 DEF Heartbeat, TypeOK, Shape
    <3>2. [row[claim[w].lap] EXCEPT !.beat = 0] \in RequestRow
      BY <3>1, TelemetryAssumption DEF TypeOK, RequestRow
    <3>3. row' \in [Lap -> RequestRow]
      BY <2>9, <3>1, <3>2 DEF Heartbeat, TypeOK
    <3>. QED BY <2>9, <3>3 DEF Heartbeat, local, TypeOK, Shape
  <2>10. ASSUME NEW e \in {"ownership", "terminal"}, HeartbeatFails(w, e)
         PROVE  TypeInv'
    BY <2>10 DEF HeartbeatFails, store, TypeOK, Shape
  <2>11. ASSUME NEW S \in SUBSET Lap, Recover(w, S) PROVE TypeInv'
    <3>1. PICK delay \in [S -> Backoff \cup {None}] :
            row' = [l \in Lap |-> IF l \in S THEN Settled(l, delay[l])
                                  ELSE row[l]]
      BY <2>11 DEF Recover
    <3>2. \A l \in S : delay[l] \in {None} \cup Nat
      BY TelemetryAssumption
    <3>3. \A l \in S : Settled(l, delay[l]) \in RequestRow
      BY <3>2 DEF Settled, TypeOK, RequestRow, Status, None
    <3>4. row' \in [Lap -> RequestRow]
      BY <3>1, <3>3 DEF TypeOK
    <3>. QED BY <2>11, <3>4 DEF Recover, local, TypeOK, Shape
  <2>12. CASE Abandon(w)
    BY <2>12, LetGoType DEF Abandon, store, TypeOK
  <2>. QED BY <1>3, <2>1, <2>2, <2>3, <2>4, <2>5, <2>6, <2>7, <2>8, <2>9,
              <2>10, <2>11, <2>12 DEF WorkerNext, Proceed
<1>4. CASE Archive
  <2>1. CASE RefreshBegins
    BY <2>1 DEF RefreshBegins, local, TypeOK, Shape, Status
  <2>2. ASSUME NEW status \in {"pending", "failed"}, RefreshFails(status)
        PROVE  TypeInv'
    BY <2>2 DEF RefreshFails, local, TypeOK, Shape, Status
  <2>3. ASSUME NEW L \in SUBSET Lap, RefreshCommits(L) PROVE TypeInv'
    <3>1. Absent \in RequestRow
      BY DEF Absent, RequestRow, Status, None
    <3>. QED BY <2>3, <3>1 DEF RefreshCommits, local, TypeOK, Shape, Status
  <2>. QED BY <1>4, <2>1, <2>2, <2>3 DEF Archive
<1>5. CASE Tick
  <2>1. row' \in [Lap -> RequestRow]
    BY <1>5, TelemetryAssumption
    DEF Tick, TypeOK, RequestRow, Older, Sooner, None
  <2>. QED BY <1>5, <2>1 DEF Tick, local, TypeOK, Shape
<1>. QED BY <1>1, <1>2, <1>3, <1>4, <1>5 DEF Next

-----------------------------------------------------------------------------
(* The locks, the data and the attempts.  Most steps change at most one    *)
(* row l, and no row that another worker has locked.                       *)

RowInv == LockInv /\ DataInv /\ AttemptBudget

(* A row that leaves the running or pending state without a result. *)
LEMMA UnlockedRow ==
    ASSUME TypeInv, RowInv, NEW l \in Lap, ~Locked(l), NEW r \in RequestRow,
           r.status \in {"pending", "running", "failed"},
           r.status = "pending" => r.attempt \in 0..(MaxAttempts - 1),
           r.status = "running" => r.attempt \in 1..MaxAttempts,
           r.status = "failed" => r.attempt \in 0..MaxAttempts,
           l \in laps, row' = [row EXCEPT ![l] = r],
           UNCHANGED <<laps, samples>>,
           \A w \in Worker : at'[w] # Nil =>
                /\ at'[w] = at[w] /\ pc'[w] = pc[w] /\ claim'[w] = claim[w],
           TypeInv'
    PROVE  RowInv'
<1> USE DEF RowInv, TypeInv
<1>1. \A k \in Lap : row'[k] = IF k = l THEN r ELSE row[k]
  BY DEF TypeOK
<1>2. DataInv'
  BY <1>1 DEF DataInv
<1>3. AttemptBudget'
  <2>1. r.attempt \in
            CASE r.status = "pending" -> 0..(MaxAttempts - 1)
              [] r.status \in {"running", "completed"} -> 1..MaxAttempts
              [] OTHER -> 0..MaxAttempts
    <3>1. CASE r.status = "pending"
      BY <3>1
    <3>2. CASE r.status = "running"
      BY <3>2
    <3>3. CASE r.status = "failed"
      BY <3>3
    <3>. QED BY <3>1, <3>2, <3>3
  <2>. QED BY <1>1, <2>1 DEF AttemptBudget
<1>4. \A w \in Worker : at'[w] # Nil => at'[w] \in Lap /\ row'[at'[w]] = row[at'[w]]
  BY <1>1 DEF Locked, TypeOK
<1>5. LockInv'
  BY <1>1, <1>4 DEF LockInv, Shape
<1>. QED BY <1>2, <1>3, <1>5

(* Steps that leave the rows alone and lock none. *)
LEMMA SameRows ==
    ASSUME TypeInv, RowInv, UNCHANGED <<laps, row, samples>>,
           \A w \in Worker : at'[w] # Nil =>
                /\ at'[w] = at[w] /\ pc'[w] = pc[w] /\ claim'[w] = claim[w],
           TypeInv'
    PROVE  RowInv'
<1>1. LockInv'
  BY DEF LockInv, RowInv, TypeInv, Shape
<1>. QED BY <1>1 DEF RowInv, DataInv, AttemptBudget

LEMMA LetGoLocks ==
    ASSUME TypeInv, NEW w \in Worker, LetGo(w)
    PROVE  \A v \in Worker : at'[v] # Nil =>
                /\ v # w
                /\ at'[v] = at[v] /\ pc'[v] = pc[v] /\ claim'[v] = claim[v]
  BY DEF TypeInv, TypeOK, LetGo

LEMMA RowStep ==
    ASSUME TypeInv, RowInv, [Next]_vars, TypeInv'
    PROVE  RowInv'
<1>0. ASSUME NEW l \in Lap PROVE row[l] \in RequestRow
  BY DEF TypeInv, TypeOK
<1>1. CASE UNCHANGED vars
  BY <1>1, SameRows DEF vars
<1>2. ASSUME NEW l \in Lap, Ensure(l) PROVE RowInv'
  <2>1. Requeued(l) \in RequestRow
    BY QueuedType DEF TypeInv
  <2>2. Requeued(l).status = "pending" /\ Requeued(l).attempt = 0
    BY DEF Requeued, Queued
  <2>3. /\ row' = [row EXCEPT ![l] = Requeued(l)]
        /\ l \in laps /\ ~Locked(l)
        /\ UNCHANGED <<laps, samples, at, pc, claim>>
    BY <1>2 DEF Ensure, local
  <2>4. 0 \in 0..(MaxAttempts - 1)
    BY TelemetryAssumption
  <2>. QED BY <2>1, <2>2, <2>3, <2>4, UnlockedRow
<1>3. ASSUME NEW w \in Worker, WorkerNext(w) PROVE RowInv'
  <2>1. ASSUME NEW l \in Lap, ClaimSelect(w, l) PROVE RowInv'
    <3>1. /\ \A v \in Worker : at'[v] = IF v = w THEN l ELSE at[v]
          /\ \A v \in Worker : pc'[v] = IF v = w THEN "claiming" ELSE pc[v]
          /\ UNCHANGED <<laps, row, samples, claim>>
      BY <2>1 DEF ClaimSelect, store, TypeInv, TypeOK
    <3>2. LockInv'
      BY <2>1, <3>1
      DEF ClaimSelect, Claimable, Locked, RowInv, LockInv, TypeInv, Shape
    <3>. QED BY <3>1, <3>2 DEF RowInv, DataInv, AttemptBudget
  <2>2. CASE ClaimCommit(w)
    <3>1. at[w] \in Lap /\ row[at[w]].status = "pending"
      BY <2>2 DEF ClaimCommit, RowInv, LockInv, TypeInv, TypeOK, Shape
    <3>2. row[at[w]].attempt \in 0..(MaxAttempts - 1)
      BY <3>1 DEF RowInv, AttemptBudget
    <3> DEFINE r == [status |-> "running", attempt |-> row[at[w]].attempt + 1,
                     snapshot |-> row[at[w]].snapshot,
                     beat |-> 0, retry |-> None]
    <3>3. \A l \in Lap : row'[l] = IF l = at[w] THEN r ELSE row[l]
      BY <2>2 DEF ClaimCommit, TypeInv, TypeOK
    <3>4. /\ \A v \in Worker : at'[v] = IF v = w THEN Nil ELSE at[v]
          /\ \A v \in Worker \ {w} : pc'[v] = pc[v] /\ claim'[v] = claim[v]
          /\ UNCHANGED <<laps, samples>>
      BY <2>2 DEF ClaimCommit, TypeInv, TypeOK
    <3>5. DataInv'
      BY <3>3, <3>4 DEF RowInv, DataInv
    <3>6. AttemptBudget'
      <4>1. row[at[w]].attempt + 1 \in 1..MaxAttempts
        BY <3>2, TelemetryAssumption
      <4>2. r.status = "running" /\ r.attempt = row[at[w]].attempt + 1
        OBVIOUS
      <4> HIDE DEF r
      <4>3. row'[at[w]].status = "running" /\ row'[at[w]].attempt \in 1..MaxAttempts
        BY <3>1, <3>3, <4>1, <4>2
      <4>4. \A l \in Lap \ {at[w]} : row'[l] = row[l]
        BY <3>3
      <4>. QED BY <4>3, <4>4 DEF RowInv, AttemptBudget
    <3>7. LockInv'
      <4>1. \A v \in Worker : at'[v] # Nil =>
                v # w /\ at'[v] \in Lap /\ row'[at'[v]] = row[at[v]]
        BY <3>1, <3>3, <3>4 DEF RowInv, LockInv, TypeInv, TypeOK
      <4>2. at[w] \in laps
        BY <3>1 DEF RowInv, LockInv
      <4>. QED BY <3>1, <3>3, <3>4, <4>1, <4>2
               DEF RowInv, LockInv, TypeInv, Shape
    <3>. QED BY <3>5, <3>6, <3>7 DEF RowInv
  <2>3. CASE ClaimUnidentified(w)
    <3>1. at[w] \in Lap /\ row[at[w]].status = "pending"
      BY <2>3 DEF ClaimUnidentified, RowInv, LockInv, TypeInv, TypeOK, Shape
    <3>2. row[at[w]].attempt \in 0..(MaxAttempts - 1)
      BY <3>1 DEF RowInv, AttemptBudget
    <3> DEFINE r == [status |-> "failed", attempt |-> row[at[w]].attempt,
                     snapshot |-> row[at[w]].snapshot,
                     beat |-> row[at[w]].beat, retry |-> None]
    <3>3. \A l \in Lap : row'[l] = IF l = at[w] THEN r ELSE row[l]
      BY <2>3 DEF ClaimUnidentified, TypeInv, TypeOK
    <3>4. /\ \A v \in Worker : at'[v] = IF v = w THEN Nil ELSE at[v]
          /\ \A v \in Worker \ {w} : pc'[v] = pc[v] /\ claim'[v] = claim[v]
          /\ UNCHANGED <<laps, samples>>
      BY <2>3 DEF ClaimUnidentified, TypeInv, TypeOK
    <3>5. DataInv'
      BY <3>3, <3>4 DEF RowInv, DataInv
    <3>6. AttemptBudget'
      <4>1. row[at[w]].attempt \in 0..MaxAttempts
        BY <3>2, TelemetryAssumption
      <4>2. r.status = "failed" /\ r.attempt = row[at[w]].attempt
        OBVIOUS
      <4> HIDE DEF r
      <4>3. row'[at[w]].status = "failed" /\ row'[at[w]].attempt \in 0..MaxAttempts
        BY <3>1, <3>3, <4>1, <4>2
      <4>4. \A l \in Lap \ {at[w]} : row'[l] = row[l]
        BY <3>3
      <4>. QED BY <4>3, <4>4 DEF RowInv, AttemptBudget
    <3>7. LockInv'
      <4>1. \A v \in Worker : at'[v] # Nil =>
                v # w /\ at'[v] \in Lap /\ row'[at'[v]] = row[at[v]]
        BY <3>1, <3>3, <3>4 DEF RowInv, LockInv, TypeInv, TypeOK
      <4>2. at[w] \in laps
        BY <3>1 DEF RowInv, LockInv
      <4>. QED BY <3>1, <3>3, <3>4, <4>1, <4>2
               DEF RowInv, LockInv, TypeInv, Shape
    <3>. QED BY <3>5, <3>6, <3>7 DEF RowInv
  <2>4. ASSUME NEW e \in {"none", "retryable", "terminal"}, LoadEnds(w, e)
        PROVE  RowInv'
    <3>1. UNCHANGED <<laps, row, samples>> /\ at[w] = Nil
      BY <2>4 DEF LoadEnds, store, TypeInv, Shape
    <3>2. LetGo(w) \/ (UNCHANGED <<at, claim>> /\ \A v \in Worker \ {w} : pc'[v] = pc[v])
      BY <2>4 DEF LoadEnds, TypeInv, TypeOK
    <3>. QED BY <3>1, <3>2, LetGoLocks, SameRows
  <2>5. CASE ReplaceCheck(w)
    <3>1. CASE LetGo(w)
      BY <2>5, <3>1, LetGoLocks, SameRows DEF ReplaceCheck, store
    <3>2. CASE ~LetGo(w)
      <4>1. /\ Owns(claim[w]) /\ ~Locked(claim[w].lap)
            /\ claim[w] \in Claims
            /\ \A v \in Worker : at'[v] = IF v = w THEN claim[w].lap ELSE at[v]
            /\ \A v \in Worker : pc'[v] = IF v = w THEN "replacing" ELSE pc[v]
            /\ UNCHANGED <<laps, row, samples, claim>>
        BY <2>5, <3>2 DEF ReplaceCheck, store, TypeInv, TypeOK, Shape
      <4>2. LockInv'
        BY <4>1 DEF Owns, Locked, RowInv, LockInv, TypeInv, Shape
      <4>. QED BY <4>1, <4>2 DEF RowInv, DataInv, AttemptBudget
    <3>. QED BY <3>1, <3>2
  <2>6. CASE ReplaceCommit(w)
    <3>1. /\ at[w] \in Lap /\ at[w] = claim[w].lap
          /\ row[at[w]].status = "running"
          /\ row[at[w]].snapshot = claim[w].snapshot
      BY <2>6 DEF ReplaceCommit, RowInv, LockInv, TypeInv, TypeOK, Shape
    <3> DEFINE r == [status |-> "completed", attempt |-> row[at[w]].attempt,
                     snapshot |-> row[at[w]].snapshot,
                     beat |-> None, retry |-> None]
    <3>2. /\ \A l \in Lap : row'[l] = IF l = at[w] THEN r ELSE row[l]
          /\ \A l \in Lap : samples'[l] = IF l = at[w] THEN claim[w].snapshot
                                          ELSE samples[l]
          /\ laps' = laps
      BY <2>6 DEF ReplaceCommit, TypeInv, TypeOK
    <3>3. DataInv'
      BY <3>1, <3>2 DEF RowInv, DataInv
    <3>4. AttemptBudget'
      <4>1. row[at[w]].attempt \in 1..MaxAttempts
        BY <3>1 DEF RowInv, AttemptBudget
      <4>2. r.status = "completed" /\ r.attempt = row[at[w]].attempt
        OBVIOUS
      <4> HIDE DEF r
      <4>3. row'[at[w]].status = "completed" /\ row'[at[w]].attempt \in 1..MaxAttempts
        BY <3>1, <3>2, <4>1, <4>2
      <4>4. \A l \in Lap \ {at[w]} : row'[l] = row[l]
        BY <3>2
      <4>. QED BY <4>3, <4>4 DEF RowInv, AttemptBudget
    <3>5. LockInv'
      <4>1. \A v \in Worker : at'[v] # Nil =>
                /\ v # w /\ at'[v] = at[v] /\ pc'[v] = pc[v]
                /\ claim'[v] = claim[v] /\ at[v] \in Lap
        BY <2>6, LetGoLocks DEF ReplaceCommit, TypeInv, TypeOK
      <4>2. \A v \in Worker : at'[v] # Nil => row'[at'[v]] = row[at[v]]
        BY <3>1, <3>2, <4>1 DEF RowInv, LockInv, TypeInv, TypeOK
      <4>3. at[w] \in laps
        BY <3>1 DEF RowInv, LockInv
      <4>. QED BY <3>2, <4>1, <4>2, <4>3 DEF RowInv, LockInv, TypeInv, Shape
    <3>. QED BY <3>3, <3>4, <3>5 DEF RowInv
  <2>7. ASSUME NEW delay \in Backoff \cup {None}, RecordFailure(w, delay)
        PROVE  RowInv'
    <3> DEFINE l == claim[w].lap
    <3>1. l \in Lap /\ row[l].status = "running" /\ ~Locked(l)
      BY <2>7 DEF RecordFailure, Owns, TypeInv, TypeOK, Shape
    <3>2. row[l].attempt \in 1..MaxAttempts /\ l \in laps
      BY <3>1 DEF RowInv, AttemptBudget, LockInv
    <3>3. delay \in {None} \cup RetryDelays(row[l].attempt)
      BY <2>7 DEF RecordFailure, Owns
    <3>4. /\ Settled(l, delay) \in RequestRow
          /\ Settled(l, delay).status \in {"pending", "failed"}
          /\ Settled(l, delay).attempt = row[l].attempt
          /\ Settled(l, delay).status = "pending" =>
                row[l].attempt \in 0..(MaxAttempts - 1)
      BY <3>1, <3>2, <3>3, SettledRow DEF TypeInv
    <3>5. /\ row' = [row EXCEPT ![l] = Settled(l, delay)]
          /\ UNCHANGED <<laps, samples>>
          /\ LetGo(w)
      BY <2>7 DEF RecordFailure
    <3>. HIDE DEF l
    <3>6. row[l].attempt \in 0..MaxAttempts
      BY <3>2, TelemetryAssumption
    <3>. QED BY <3>1, <3>2, <3>4, <3>5, <3>6, LetGoLocks, UnlockedRow
  <2>8. CASE FailureNotOwned(w)
    BY <2>8, LetGoLocks, SameRows DEF FailureNotOwned, store
  <2>9. CASE Heartbeat(w)
    <3> DEFINE l == claim[w].lap
               r == [row[l] EXCEPT !.beat = 0]
    <3>1. l \in Lap /\ row[l].status = "running" /\ ~Locked(l)
      BY <2>9 DEF Heartbeat, Owns, TypeInv, TypeOK, Shape
    <3>2. row[l].attempt \in 1..MaxAttempts /\ l \in laps
      BY <3>1 DEF RowInv, AttemptBudget, LockInv
    <3>3. r \in RequestRow /\ r.status = "running" /\ r.attempt = row[l].attempt
      BY <1>0, <3>1, TelemetryAssumption DEF RequestRow
    <3>4. row' = [row EXCEPT ![l] = r] /\ UNCHANGED <<laps, samples, at, pc, claim>>
      BY <2>9 DEF Heartbeat, local
    <3>. HIDE DEF l, r
    <3>. QED BY <3>1, <3>2, <3>3, <3>4, UnlockedRow
  <2>10. ASSUME NEW e \in {"ownership", "terminal"}, HeartbeatFails(w, e)
         PROVE  RowInv'
    BY <2>10, SameRows DEF HeartbeatFails, store
  <2>11. ASSUME NEW S \in SUBSET Lap, Recover(w, S) PROVE RowInv'
    <3>1. PICK delay \in [S -> Backoff \cup {None}] :
            /\ \A l \in S : delay[l] \in RetryDelays(row[l].attempt)
            /\ row' = [l \in Lap |-> IF l \in S THEN Settled(l, delay[l])
                                     ELSE row[l]]
      BY <2>11 DEF Recover
    <3>2. \A l \in S : row[l].status = "running" /\ ~Locked(l) /\ l \in laps
      BY <2>11 DEF Recover, Recoverable
    <3>3. \A l \in S : row[l].attempt \in 1..MaxAttempts
      BY <3>2 DEF RowInv, AttemptBudget
    <3>4. \A l \in S :
            /\ Settled(l, delay[l]).status \in {"pending", "failed"}
            /\ Settled(l, delay[l]).attempt = row[l].attempt
            /\ Settled(l, delay[l]).status = "pending" =>
                row[l].attempt \in 0..(MaxAttempts - 1)
      BY <3>1, <3>3, SettledRow DEF TypeInv
    <3>5. /\ \A l \in S : row'[l] = Settled(l, delay[l])
          /\ \A l \in Lap \ S : row'[l] = row[l]
          /\ UNCHANGED <<laps, samples, at, pc, claim>>
      BY <2>11, <3>1 DEF Recover, local
    <3>6. DataInv'
      BY <3>4, <3>5 DEF RowInv, DataInv
    <3>7. AttemptBudget'
      <4>1. ASSUME NEW l \in S PROVE row'[l].attempt \in
                CASE row'[l].status = "pending" -> 0..(MaxAttempts - 1)
                  [] row'[l].status \in {"running", "completed"} -> 1..MaxAttempts
                  [] OTHER -> 0..MaxAttempts
        <5>1. /\ row'[l].status \in {"pending", "failed"}
              /\ row'[l].attempt \in 1..MaxAttempts
              /\ row'[l].status = "pending" => row'[l].attempt \in 0..(MaxAttempts - 1)
          BY <3>3, <3>4, <3>5
        <5>2. \A a \in 1..MaxAttempts : a \in 0..MaxAttempts
          BY TelemetryAssumption
        <5>3. CASE row'[l].status = "pending"
          BY <5>1, <5>3
        <5>4. CASE row'[l].status = "failed"
          BY <5>1, <5>2, <5>4
        <5>. QED BY <5>1, <5>3, <5>4
      <4>. QED BY <3>5, <4>1 DEF RowInv, AttemptBudget
    <3>8. LockInv'
      <4>1. \A v \in Worker : at[v] # Nil => at[v] \in Lap \ S
        BY <3>2 DEF Locked, TypeInv, TypeOK
      <4>. QED BY <3>2, <3>5, <4>1 DEF RowInv, LockInv, TypeInv, Shape
    <3>. QED BY <3>6, <3>7, <3>8 DEF RowInv
  <2>12. CASE Abandon(w)
    BY <2>12, LetGoLocks, SameRows DEF Abandon, store
  <2>. QED BY <1>3, <2>1, <2>2, <2>3, <2>4, <2>5, <2>6, <2>7, <2>8, <2>9,
              <2>10, <2>11, <2>12 DEF WorkerNext, Proceed
<1>4. CASE Archive
  <2>1. CASE RefreshBegins
    BY <2>1, SameRows DEF RefreshBegins, local
  <2>2. ASSUME NEW status \in {"pending", "failed"}, RefreshFails(status)
        PROVE  RowInv'
    BY <2>2, SameRows DEF RefreshFails, local
  <2>3. ASSUME NEW L \in SUBSET Lap, RefreshCommits(L) PROVE RowInv'
    <3>1. /\ laps' = L
          /\ \A l \in Lap : row'[l] = IF l \in L THEN row[l] ELSE Absent
          /\ \A l \in Lap : samples'[l] = IF l \in L THEN samples[l] ELSE 0
          /\ UNCHANGED <<at, pc, claim>>
      BY <2>3 DEF RefreshCommits, local
    <3>2. DataInv'
      BY <3>1 DEF RowInv, DataInv, Absent
    <3>3. AttemptBudget'
      BY <3>1, TelemetryAssumption DEF RowInv, AttemptBudget, Absent
    <3>4. LockInv'
      <4>1. \A w \in Worker : at[w] # Nil => at[w] \in laps
        BY DEF RowInv, LockInv, TypeInv, TypeOK, Shape
      <4>2. \A w \in Worker : at[w] # Nil => at[w] \in L
        BY <2>3, <4>1 DEF RefreshCommits, Locked
      <4>. QED BY <3>1, <4>1, <4>2
               DEF RowInv, LockInv, TypeInv, TypeOK, Shape, Absent
    <3>. QED BY <3>2, <3>3, <3>4 DEF RowInv
  <2>. QED BY <1>4, <2>1, <2>2, <2>3 DEF Archive
<1>5. CASE Tick
  <2>1. /\ \A l \in Lap : /\ row'[l].status = row[l].status
                          /\ row'[l].attempt = row[l].attempt
                          /\ row'[l].snapshot = row[l].snapshot
        /\ UNCHANGED <<laps, samples, at, pc, claim>>
    BY <1>5 DEF Tick, local
  <2>2. DataInv'
    BY <2>1 DEF RowInv, DataInv
  <2>3. AttemptBudget'
    BY <2>1 DEF RowInv, AttemptBudget
  <2>4. LockInv'
    BY <2>1 DEF RowInv, LockInv, TypeInv, TypeOK, Shape
  <2>. QED BY <2>2, <2>3, <2>4 DEF RowInv
<1>. QED BY <1>1, <1>2, <1>3, <1>4, <1>5 DEF Next

-----------------------------------------------------------------------------
(* The theorems. *)

LEMMA Inductive == Spec => []IInv
<1>1. Init => IInv
  BY InitInv
<1>2. IInv /\ [Next]_vars => IInv'
  BY TypeStep, RowStep DEF IInv, RowInv
<1>. QED BY <1>1, <1>2, PTL DEF Spec

(* Every row, claim and lock keeps its type. *)
THEOREM TypeCorrect == Spec => []TypeOK
  BY Inductive, PTL DEF IInv, TypeInv

(* Requests never wait without an attempt left and never get too many. *)
THEOREM BudgetKept == Spec => []AttemptBudget
  BY Inductive, PTL DEF IInv

(* The samples the API shows belong to the snapshot it shows them with. *)
THEOREM ShownIsCurrent == Spec => []AvailableIsCurrent
<1>1. IInv => AvailableIsCurrent
  BY DEF IInv, DataInv, AvailableIsCurrent, Available
<1>. QED BY <1>1, Inductive, PTL

-----------------------------------------------------------------------------
(* Only a step that owns a running row, recovers one, holds a lock on one  *)
(* or answers an outdated request changes a row, and a refresh that        *)
(* deletes laps changes the snapshot.                                      *)
LEMMA ShownKept ==
    ASSUME IInv, [Next]_vars, NEW l \in Lap, Available(l), sporting' = sporting
    PROVE  Available(l)'
<1>0. /\ l \in laps /\ sporting.status = "completed"
      /\ row[l].status = "completed" /\ row[l].snapshot = sporting.snapshot
  BY DEF Available
<1> SUFFICES laps' = laps /\ row'[l].status = row[l].status
             /\ row'[l].snapshot = row[l].snapshot
  BY <1>0 DEF Available
<1>t. TypeOK /\ Shape /\ LockInv
  BY DEF IInv, TypeInv
<1>1. CASE UNCHANGED vars
  BY <1>1 DEF vars
<1>2. ASSUME NEW k \in Lap, Ensure(k)
      PROVE  laps' = laps /\ row'[l] = row[l]
  BY <1>0, <1>2, <1>t DEF Ensure, Answered, TypeOK
<1>3. ASSUME NEW w \in Worker, WorkerNext(w)
      PROVE  laps' = laps /\ row'[l].status = row[l].status
             /\ row'[l].snapshot = row[l].snapshot
  <2>1. ASSUME NEW k \in Lap, ClaimSelect(w, k) PROVE UNCHANGED <<laps, row>>
    BY <2>1 DEF ClaimSelect, store
  <2>2. CASE ClaimCommit(w)
    BY <1>0, <2>2, <1>t DEF ClaimCommit, LockInv, TypeOK
  <2>3. CASE ClaimUnidentified(w)
    BY <1>0, <2>3, <1>t DEF ClaimUnidentified, LockInv, TypeOK
  <2>4. ASSUME NEW e \in {"none", "retryable", "terminal"}, LoadEnds(w, e)
        PROVE  UNCHANGED <<laps, row>>
    BY <2>4 DEF LoadEnds, store
  <2>5. CASE ReplaceCheck(w)
    BY <2>5 DEF ReplaceCheck, store
  <2>6. CASE ReplaceCommit(w)
    BY <1>0, <2>6, <1>t DEF ReplaceCommit, LockInv, TypeOK
  <2>7. ASSUME NEW delay \in Backoff \cup {None}, RecordFailure(w, delay)
        PROVE  laps' = laps /\ row'[l] = row[l]
    BY <1>0, <2>7, <1>t DEF RecordFailure, Owns, TypeOK
  <2>8. CASE FailureNotOwned(w)
    BY <2>8 DEF FailureNotOwned, store
  <2>9. CASE Heartbeat(w)
    BY <1>0, <2>9, <1>t DEF Heartbeat, Owns, TypeOK
  <2>10. ASSUME NEW e \in {"ownership", "terminal"}, HeartbeatFails(w, e)
         PROVE  UNCHANGED <<laps, row>>
    BY <2>10 DEF HeartbeatFails, store
  <2>11. ASSUME NEW S \in SUBSET Lap, Recover(w, S)
         PROVE  laps' = laps /\ row'[l] = row[l]
    BY <1>0, <2>11 DEF Recover, Recoverable
  <2>12. CASE Abandon(w)
    BY <2>12 DEF Abandon, store
  <2>. QED BY <1>3, <2>1, <2>2, <2>3, <2>4, <2>5, <2>6, <2>7, <2>8, <2>9,
              <2>10, <2>11, <2>12 DEF WorkerNext, Proceed
<1>4. CASE Archive
  <2>1. ASSUME NEW L \in SUBSET Lap, RefreshCommits(L) PROVE FALSE
    BY <1>0, <2>1 DEF RefreshCommits
  <2>. QED BY <1>4, <2>1 DEF Archive, RefreshBegins, RefreshFails
<1>5. CASE Tick
  BY <1>5 DEF Tick
<1>. QED BY <1>1, <1>2, <1>3, <1>4, <1>5 DEF Next

(* Samples that are shown stay until the session itself is refreshed. *)
THEOREM ShownStays == Spec => AvailableStays
<1>1. IInv /\ [Next]_vars =>
        [\A l \in Lap :
            Available(l) /\ sporting' = sporting => Available(l)']_vars
  BY ShownKept
<1>. QED BY <1>1, Inductive, PTL DEF Spec, AvailableStays

=============================================================================
