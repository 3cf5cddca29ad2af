------------------------ MODULE ArchiveLeasesProofs ------------------------
(***************************************************************************)
(* Theorems about ArchiveLeases, for every set of workers, sessions and    *)
(* jobs and every value of the settings.                                   *)
(***************************************************************************)
EXTENDS ArchiveLeases, TLAPS, FiniteSetTheorems

(* The control state of a worker says what it remembers. *)
Shape ==
    \A w \in Worker :
        /\ pc[w] \in {"loading", "persisting", "stopping", "failing"}
            => claim[w] # Nil
        /\ pc[w] = "deriving" => seen[w] # Nil

TypeInv == TypeOK /\ Shape

LEMMA InitType == Init => TypeInv
  BY ArchiveAssumption
  DEF Init, TypeInv, TypeOK, Shape, Child, Absent, NoIngestion, None, Status,
      Failures, Pausing, JobRow, ChildRow, IngestionRow

USE DEF Child, Claims, Views

LEMMA SettledType ==
    ASSUME NEW delay \in Int
    PROVE  /\ \A attempt \in Int : SettledChild(attempt, delay) \in ChildRow
           /\ \A token \in Nat : SettledIngestion(token, delay) \in IngestionRow
  BY DEF SettledChild, SettledIngestion, SettledStatus, Status, None,
         ChildRow, IngestionRow

LEMMA DelayType == Delays \subseteq Int
  BY ArchiveAssumption DEF Delays, None

LEMMA TypeStep == TypeInv /\ [Next]_vars => TypeInv'
<1> SUFFICES ASSUME TypeInv, [Next]_vars PROVE TypeInv'
  OBVIOUS
<1> USE DEF TypeInv
<1>1. CASE UNCHANGED vars
  BY <1>1 DEF vars, TypeOK, Shape
<1>2. CASE \E E \in SUBSET Session : PlanRead(E)
  BY <1>2 DEF PlanRead, rows, local, TypeOK, Shape
<1>3. CASE PlanCommit
  <2>1. NewChild \in ChildRow
    BY DEF NewChild, Absent, ChildRow, Status, None
  <2>2. ASSUME NEW j \in Job PROVE [job[j] EXCEPT !.status = "pending"] \in JobRow
    BY DEF JobRow, TypeOK, Status
  <2>3. ASSUME NEW j \in Job, PlanInto(j)
        PROVE  job' \in [Job -> JobRow] /\ job_session' \in [Child -> ChildRow]
    BY <2>1, <2>2, <2>3 DEF PlanInto, TypeOK
  <2>4. job' \in [Job -> JobRow] /\ job_session' \in [Child -> ChildRow]
    BY <1>3, <2>3 DEF PlanCommit, TypeOK
  <2>. QED BY <1>3, <2>4 DEF PlanCommit, local, TypeOK, Shape
<1>4. CASE PlanAbort
  BY <1>4 DEF PlanAbort, rows, local, TypeOK, Shape
<1>5. CASE Tick
  <2>1. [gate EXCEPT !.wait = Sooner(@)] \in
            [wait: Nat, reason: {"pacing", "rate_limit", "budget"}]
    BY DEF TypeOK, Sooner
  <2>2. job_session' \in [Child -> ChildRow]
    BY <1>5 DEF Tick, TypeOK, ChildRow, Older, Sooner, None
  <2>3. ingestion' \in [Session -> IngestionRow]
    BY <1>5 DEF Tick, TypeOK, IngestionRow, Older, Sooner, None
  <2>. QED BY <1>5, <2>1, <2>2, <2>3 DEF Tick, local, TypeOK, Shape
<1>6. ASSUME NEW w \in Worker, WorkerNext(w) PROVE TypeInv'
  <2>1. CASE \E c \in Child : ClaimNext(w, c)
    <3>1. PICK c \in Child : ClaimNext(w, c)
      BY <2>1
    <3>2. /\ job_session[c].attempt + 1 \in Int /\ ingestion[c[2]].token + 1 \in Nat
          /\ c[1] \in Job /\ c[2] \in Session
      BY DEF TypeOK, ChildRow, IngestionRow
    <3>3. PICK attempt \in Int, token \in Nat :
            /\ job' = [job EXCEPT ![c[1]] = [status |-> "running", started |-> TRUE]]
            /\ job_session' = [job_session EXCEPT ![c] =
                 [status |-> "running", attempt |-> attempt, beat |-> 0, retry |-> None]]
            /\ ingestion' = [ingestion EXCEPT ![c[2]] =
                 [status |-> "running", token |-> token, beat |-> 0, retry |-> None]]
            /\ claim' = [claim EXCEPT ![w] = [job |-> c[1], session |-> c[2],
                                             attempt |-> attempt, token |-> token]]
      BY <3>1, <3>2 DEF ClaimNext
    <3>4. job' \in [Job -> JobRow]
      BY <3>2, <3>3 DEF TypeOK, JobRow, Status
    <3>5. job_session' \in [Child -> ChildRow] /\ ingestion' \in [Session -> IngestionRow]
      BY <3>3 DEF TypeOK, ChildRow, IngestionRow, Status, None
    <3>6. /\ claim' \in [Worker -> Claims \cup {Nil}]
          /\ claim'[w] \in Claims /\ \A v \in Worker \ {w} : claim'[v] = claim[v]
      <4>1. [job |-> c[1], session |-> c[2], attempt |-> attempt, token |-> token] \in Claims
        BY <3>2
      <4>. QED BY <3>3, <4>1 DEF TypeOK
    <3>7. /\ gate' \in [wait: Nat, reason: {"pacing", "rate_limit", "budget"}]
          /\ pc' = [pc EXCEPT ![w] = "loading"]
          /\ UNCHANGED <<snapshot, planner, monitor, error, todo, seen, pauses, crashes>>
      BY <3>1, ArchiveAssumption DEF ClaimNext
    <3>8. TypeOK'
      BY <3>4, <3>5, <3>6, <3>7 DEF TypeOK
    <3>9. Shape'
      <4>1. claim'[w] # Nil
        BY <3>6, ArchiveAssumption
      <4>. QED BY <3>6, <3>7, <4>1 DEF TypeOK, Shape
    <3>. QED BY <3>8, <3>9
  <2>2. CASE \E T \in SUBSET Child : Recover(w, T)
    <3>1. PICK T \in SUBSET Child : Recover(w, T)
      BY <2>2
    <3> DEFINE S == T \cap Recoverable
    <3>2. PICK delay \in [S -> Backoff \cup {None}] : RecoverWith(S, delay)
      BY <3>1 DEF Recover, RecoverRows
    <3> HIDE DEF S
    <3>3. delay \in [S -> Int]
      <4>1. Backoff \cup {None} \subseteq Int
        BY ArchiveAssumption DEF None
      <4>. QED BY <3>2, <4>1
    <3>4. job_session' \in [Child -> ChildRow]
      BY <3>2, <3>3, SettledType DEF RecoverWith, TypeOK, ChildRow
    <3>5. ASSUME NEW s \in Session, \E c \in S : c[2] = s
          PROVE  delay[CHOOSE c \in S : c[2] = s] \in Int
      BY <3>3, <3>5
    <3>6. ingestion' \in [Session -> IngestionRow]
      BY <3>2, <3>5, SettledType DEF RecoverWith, TypeOK, IngestionRow
    <3>. QED BY <3>1, <3>4, <3>6 DEF Recover, TypeOK, Shape
  <2>3. CASE Proceed(w)
    <3>1. CASE \E e \in Failures : LoadFails(w, e)
      BY <3>1 DEF LoadFails, Fails, rows, TypeOK, Shape, Failures, Pausing
    <3>2. CASE LoadSucceeds(w)
      <4>1. CASE monitor[w] = "ok"
        <5>1. /\ pc' = [pc EXCEPT ![w] = "persisting"] /\ pc[w] = "loading"
              /\ UNCHANGED <<rows, planner, claim, monitor, error, todo, seen,
                             pauses, crashes>>
          BY <3>2, <4>1 DEF LoadSucceeds
        <5>2. TypeOK'
          BY <5>1 DEF TypeOK, rows
        <5>3. Shape'
          BY <5>1 DEF TypeOK, Shape
        <5>. QED BY <5>2, <5>3
      <4>2. CASE monitor[w] # "ok"
        <5>1. monitor[w] \in {"none", "ownership"} \cup Failures
          BY <4>2 DEF TypeOK, Failures
        <5>2. /\ pc' = [pc EXCEPT ![w] = "stopping"] /\ pc[w] = "loading"
              /\ error' = [error EXCEPT ![w] = monitor[w]]
              /\ UNCHANGED <<rows, planner, claim, monitor, todo, seen, pauses,
                             crashes>>
          BY <3>2, <4>2 DEF LoadSucceeds, Fails
        <5>3. TypeOK'
          BY <5>1, <5>2 DEF TypeOK, rows
        <5>4. Shape'
          BY <5>2 DEF TypeOK, Shape
        <5>. QED BY <5>3, <5>4
      <4>. QED BY <4>1, <4>2
    <3>3. CASE Persist(w)
      <4>1. claim[w] \in Claims
        BY <3>3 DEF Persist, TypeOK, Shape
      <4>. QED BY <3>3, <4>1 DEF Persist, TypeOK, Shape, Status, None,
                                 ChildRow, IngestionRow
    <3>4. CASE \E e \in {"ownership", "retryable", "terminal"} :
                    PersistFails(w, e)
      BY <3>4 DEF PersistFails, Fails, rows, TypeOK, Shape, Failures, Pausing
    <3>5. CASE StopMonitor(w)
      <4>1. claim[w] \in Claims
        BY <3>5 DEF StopMonitor, TypeOK, Shape
      <4> DEFINE effective ==
            IF monitor[w] # "ok" THEN monitor[w] ELSE error[w]
      <4>2. CASE error[w] = "none" \/ effective = "ownership"
        <5>1. ToAggregation(w)
          BY <3>5, <4>2 DEF StopMonitor
        <5>. QED BY <3>5, <4>1, <5>1
                 DEF StopMonitor, ToAggregation, rows, TypeOK, Shape
      <4>3. CASE ~(error[w] = "none" \/ effective = "ownership")
        <5>1. effective \in {"none", "ownership"} \cup Failures
          BY DEF TypeOK, Failures
        <5>2. /\ pc' = [pc EXCEPT ![w] = "failing"]
              /\ error' = [error EXCEPT ![w] = effective]
              /\ UNCHANGED <<todo, claim, monitor, seen>>
          BY <3>5, <4>3 DEF StopMonitor
        <5> HIDE DEF effective
        <5>. QED BY <3>5, <4>1, <5>1, <5>2 DEF StopMonitor, rows, TypeOK, Shape
      <4>. QED BY <4>2, <4>3
    <3>6. CASE \E delay \in Delays : RecordFailure(w, delay)
      <4>1. PICK delay \in Delays : RecordFailure(w, delay)
        BY <3>6
      <4>2. claim[w] \in Claims
        BY <4>1 DEF RecordFailure, TypeOK, Shape
      <4>3. delay \in Int
        BY DelayType
      <4>4. job_session' \in [Child -> ChildRow]
        <5>1. Charged(w) \in Int
          BY <4>2 DEF Charged
        <5>. QED BY <4>1, <4>2, <4>3, <5>1, SettledType DEF RecordFailure, TypeOK
      <4>5. ingestion' \in [Session -> IngestionRow]
        BY <4>1, <4>2, <4>3, SettledType DEF RecordFailure, TypeOK
      <4>6. error[w] \in Pausing => delay \in Nat
        BY <4>1, ArchiveAssumption DEF RecordFailure, RetryDelays, Pausing
      <4>7. gate' \in [wait: Nat, reason: {"pacing", "rate_limit", "budget"}]
        BY <4>1, <4>6 DEF RecordFailure, TypeOK, Later
      <4>. QED BY <4>1, <4>2, <4>4, <4>5, <4>7
               DEF RecordFailure, ToAggregation, TypeOK, Shape
    <3>7. CASE FailureNotOwned(w)
      BY <3>7 DEF FailureNotOwned, ToAggregation, rows, TypeOK, Shape
    <3>8. CASE \E j \in Job : AggregateRead(w, j)
      <4>1. PICK j \in Job : AggregateRead(w, j)
        BY <3>8
      <4>2. /\ [job |-> j, sessions |-> Children(j)] \in Views
            /\ [job |-> j, sessions |-> Children(j)] # Nil
        <5>1. Children(j) \in SUBSET Session
          BY DEF Children
        <5>. QED BY <5>1, ArchiveAssumption
      <4>. QED BY <4>1, <4>2 DEF AggregateRead, rows, TypeOK, Shape
    <3>9. CASE AggregateWrite(w)
      <4>1. seen[w] \in Views
        BY <3>9 DEF AggregateWrite, TypeOK, Shape
      <4>2. DeriveStatus(seen[w].job, seen[w].sessions) \in Status
        BY <4>1 DEF DeriveStatus, TypeOK, JobRow, Status
      <4>3. Aggregated(seen[w].job, seen[w].sessions) \in JobRow
        BY <4>1, <4>2 DEF Aggregated, TypeOK, JobRow
      <4>4. job' \in [Job -> JobRow]
        BY <3>9, <4>1, <4>3 DEF AggregateWrite, TypeOK
      <4>. QED BY <3>9, <4>1, <4>4 DEF AggregateWrite, TypeOK, Shape
    <3>10. CASE ListActiveJobs(w)
      BY <3>10 DEF ListActiveJobs, ActiveJobs, rows, TypeOK, Shape
    <3>. QED BY <2>3, <3>1, <3>2, <3>3, <3>4, <3>5, <3>6, <3>7, <3>8, <3>9,
                <3>10 DEF Proceed
  <2>4. CASE Heartbeat(w)
    <3>1. claim[w] \in Claims
      BY <2>4 DEF Heartbeat, MonitorRuns, TypeOK, Shape
    <3>2. ASSUME NEW c \in Child
          PROVE  [job_session[c] EXCEPT !.beat = 0] \in ChildRow
      <4>1. PICK r \in ChildRow : r = job_session[c]
        BY DEF TypeOK
      <4>2. [r EXCEPT !.beat = 0] \in ChildRow
        BY DEF ChildRow
      <4>. QED BY <4>1, <4>2
    <3>3. job_session' \in [Child -> ChildRow]
      BY <2>4, <3>1, <3>2 DEF Heartbeat, TypeOK
    <3>4. ingestion' \in [Session -> IngestionRow]
      <4>1. ASSUME NEW s \in Session
            PROVE  [ingestion[s] EXCEPT !.beat = 0] \in IngestionRow
        BY DEF TypeOK, IngestionRow
      <4>. QED BY <2>4, <3>1, <4>1 DEF Heartbeat, TypeOK
    <3>. QED BY <2>4, <3>3, <3>4 DEF Heartbeat, local, TypeOK, Shape
  <2>5. CASE \E e \in {"ownership", "retryable", "terminal"} :
                    HeartbeatFails(w, e)
    BY <2>5 DEF HeartbeatFails, MonitorRuns, rows, TypeOK, Shape
  <2>6. CASE Abandon(w)
    BY <2>6 DEF Abandon, rows, TypeOK, Shape
  <2>. QED BY <1>6, <2>1, <2>2, <2>3, <2>4, <2>5, <2>6 DEF WorkerNext
<1>. QED BY <1>1, <1>2, <1>3, <1>4, <1>5, <1>6 DEF Next

(* Type correctness: every row, every worker's memory and every counter    *)
(* keeps its type, and a busy worker remembers its claim or its view.      *)
THEOREM TypeCorrect == Spec => []TypeOK
<1>1. Spec => []TypeInv
  BY InitType, TypeStep, PTL DEF Spec
<1>2. TypeInv => TypeOK
  BY DEF TypeInv
<1>. QED BY <1>1, <1>2, PTL

-----------------------------------------------------------------------------
(* Fencing.  A claim is the newest token of its session when it is taken,  *)
(* tokens never fall, and no other step hands out claims, so the claims of *)
(* one session carry different tokens and only one can be current.         *)

FenceInv ==
    /\ \A w \in Worker : claim[w] # Nil =>
        /\ claim[w].token >= 1
        /\ claim[w].token <= ingestion[claim[w].session].token
    /\ \A v, w \in Worker :
        /\ v # w
        /\ claim[v] # Nil /\ claim[w] # Nil
        /\ claim[v].session = claim[w].session
        => claim[v].token # claim[w].token

TokensKept == \A s \in Session : ingestion'[s].token = ingestion[s].token
ClaimsKept == \A w \in Worker : claim'[w] \in {claim[w], Nil}

(* Every step except a claim keeps all tokens and creates no claim. *)
LEMMA OnlyClaimsDrawTokens ==
    TypeInv /\ [Next]_vars =>
        \/ \E w \in Worker, c \in Child : ClaimNext(w, c)
        \/ TokensKept /\ ClaimsKept
<1> SUFFICES ASSUME TypeInv, [Next]_vars,
                    ~ \E w \in Worker, c \in Child : ClaimNext(w, c)
             PROVE  TokensKept /\ ClaimsKept
  OBVIOUS
<1> USE DEF TypeInv, TokensKept, ClaimsKept
<1>1. CASE UNCHANGED vars
  BY <1>1 DEF vars
<1>2. CASE \E E \in SUBSET Session : PlanRead(E)
  BY <1>2 DEF PlanRead, rows, local
<1>3. CASE PlanCommit
  BY <1>3 DEF PlanCommit, local
<1>4. CASE PlanAbort
  BY <1>4 DEF PlanAbort, rows, local
<1>5. CASE Tick
  BY <1>5 DEF Tick, local
<1>6. ASSUME NEW w \in Worker, WorkerNext(w)
      PROVE  TokensKept /\ ClaimsKept
  <2>1. CASE \E T \in SUBSET Child : Recover(w, T)
    BY <2>1 DEF Recover, RecoverRows, RecoverWith, SettledIngestion, TypeOK
  <2>2. CASE Proceed(w)
    <3>1. CASE \E e \in Failures : LoadFails(w, e)
      BY <3>1 DEF LoadFails, Fails, rows
    <3>2. CASE LoadSucceeds(w)
      BY <3>2 DEF LoadSucceeds, Fails, rows
    <3>3. CASE Persist(w)
      BY <3>3 DEF Persist, Owns, TypeOK
    <3>4. CASE \E e \in {"ownership", "retryable", "terminal"} :
                    PersistFails(w, e)
      BY <3>4 DEF PersistFails, Fails, rows
    <3>5. CASE StopMonitor(w)
      BY <3>5 DEF StopMonitor, ToAggregation, rows, TypeOK
    <3>6. CASE \E delay \in Delays : RecordFailure(w, delay)
      BY <3>6 DEF RecordFailure, ToAggregation, SettledIngestion, Owns, TypeOK
    <3>7. CASE FailureNotOwned(w)
      BY <3>7 DEF FailureNotOwned, ToAggregation, rows, TypeOK
    <3>8. CASE \E j \in Job : AggregateRead(w, j)
      BY <3>8 DEF AggregateRead, rows
    <3>9. CASE AggregateWrite(w)
      BY <3>9 DEF AggregateWrite
    <3>10. CASE ListActiveJobs(w)
      BY <3>10 DEF ListActiveJobs, rows
    <3>. QED BY <2>2, <3>1, <3>2, <3>3, <3>4, <3>5, <3>6, <3>7, <3>8, <3>9,
                <3>10 DEF Proceed
  <2>3. CASE Heartbeat(w)
    BY <2>3 DEF Heartbeat, local, TypeOK, IngestionRow
  <2>4. CASE \E e \in {"ownership", "retryable", "terminal"} :
                    HeartbeatFails(w, e)
    BY <2>4 DEF HeartbeatFails, rows
  <2>5. CASE Abandon(w)
    BY <2>5 DEF Abandon, rows, TypeOK
  <2>. QED BY <1>6, <2>1, <2>2, <2>3, <2>4, <2>5 DEF WorkerNext
<1>. QED BY <1>1, <1>2, <1>3, <1>4, <1>5, <1>6 DEF Next

LEMMA FenceStep == TypeInv /\ FenceInv /\ [Next]_vars => FenceInv'
<1> SUFFICES ASSUME TypeInv, FenceInv, [Next]_vars PROVE FenceInv'
  OBVIOUS
<1>1. TypeOK /\ TypeOK'
  BY TypeStep DEF TypeInv
<1>2. CASE TokensKept /\ ClaimsKept
  BY <1>1, <1>2 DEF FenceInv, TokensKept, ClaimsKept, TypeOK, IngestionRow
<1>3. CASE \E w \in Worker, c \in Child : ClaimNext(w, c)
  <2>1. PICK w \in Worker, c \in Child : ClaimNext(w, c)
    BY <1>3
  <2>2. /\ claim'[w].session = c[2]
        /\ claim'[w].token = ingestion[c[2]].token + 1
        /\ ingestion'[c[2]].token = ingestion[c[2]].token + 1
    BY <1>1, <2>1 DEF ClaimNext, TypeOK, IngestionRow
  <2>3. /\ \A v \in Worker \ {w} : claim'[v] = claim[v]
        /\ \A s \in Session \ {c[2]} : ingestion'[s] = ingestion[s]
    BY <1>1, <2>1 DEF ClaimNext, TypeOK
  <2>4. /\ \A s \in Session : ingestion[s].token \in Nat
        /\ \A v \in Worker : claim[v] # Nil =>
                /\ claim[v].session \in Session
                /\ claim[v].token \in Nat
    BY <1>1 DEF TypeOK, IngestionRow
  <2>. QED BY <2>2, <2>3, <2>4 DEF FenceInv
<1>. QED BY <1>2, <1>3, OnlyClaimsDrawTokens

(* Fencing: of the workers that hold a claim of one session, at most one   *)
(* passes the ownership check of the heartbeat, the failure transition and *)
(* the replacement, however leases were lost and retried.                  *)
THEOREM Fencing == Spec => []AtMostOneOwner
<1>1. Init => FenceInv
  BY DEF Init, FenceInv
<1>2. Spec => [](TypeInv /\ FenceInv)
  BY <1>1, InitType, TypeStep, FenceStep, PTL DEF Spec
<1>3. FenceInv => AtMostOneOwner
  BY DEF FenceInv, AtMostOneOwner, Owns
<1>. QED BY <1>2, <1>3, PTL

-----------------------------------------------------------------------------
(* The steps that change rows, apart from the gate; every other step, but  *)
(* for the reading half of an aggregation, changes none and hands no       *)
(* worker a new view of a job's children.                                  *)
Quiet ==
    /\ UNCHANGED <<job, job_session, ingestion, snapshot>>
    /\ \A w \in Worker : seen'[w] \in {seen[w], Nil}

(* A recovery that settles S of the rows it has locked. *)
Settles(w, S) ==
    \E T \in SUBSET Child : Recover(w, T) /\ S = T \cap Recoverable

RowStep(w) ==
    \/ \E c \in Child : ClaimNext(w, c)
    \/ \E S \in SUBSET Child : Settles(w, S)
    \/ Persist(w)
    \/ \E delay \in Delays : RecordFailure(w, delay)
    \/ Heartbeat(w)
    \/ \E j \in Job : AggregateRead(w, j)
    \/ AggregateWrite(w)

LEMMA SettlesIsStep ==
    ASSUME NEW w \in Worker, NEW S, Settles(w, S)
    PROVE  Next
BY Zenon DEF Settles, Next, WorkerNext

LEMMA RecoverSettles ==
    ASSUME NEW w \in Worker, NEW T \in SUBSET Child, Recover(w, T)
    PROVE  \E S \in SUBSET Child : Settles(w, S)
<1>1. T \cap Recoverable \in SUBSET Child
  OBVIOUS
<1>2. Settles(w, T \cap Recoverable)
  BY Zenon DEF Settles
<1>. QED BY <1>1, <1>2, Zenon

LEMMA RowSteps ==
    TypeInv /\ [Next]_vars =>
        Quiet \/ PlanCommit \/ Tick \/ \E w \in Worker : RowStep(w)
<1> SUFFICES ASSUME TypeInv, [Next]_vars, ~PlanCommit, ~Tick,
                    ~ \E w \in Worker : RowStep(w)
             PROVE  Quiet
  OBVIOUS
<1> USE DEF TypeInv, Quiet
<1>1. CASE UNCHANGED vars
  BY <1>1 DEF vars
<1>2. CASE (\E E \in SUBSET Session : PlanRead(E)) \/ PlanAbort
  BY <1>2 DEF PlanRead, PlanAbort, rows, local
<1>3. ASSUME NEW w \in Worker, WorkerNext(w) PROVE Quiet
  <2>1. CASE Proceed(w)
    <3>1. CASE \E e \in Failures : LoadFails(w, e)
      BY <3>1 DEF LoadFails, Fails, rows
    <3>2. CASE LoadSucceeds(w)
      BY <3>2 DEF LoadSucceeds, Fails, rows
    <3>3. CASE \E e \in {"ownership", "retryable", "terminal"} :
                    PersistFails(w, e)
      BY <3>3 DEF PersistFails, Fails, rows
    <3>4. CASE StopMonitor(w)
      BY <3>4 DEF StopMonitor, ToAggregation, rows
    <3>5. CASE FailureNotOwned(w)
      BY <3>5 DEF FailureNotOwned, ToAggregation, rows
    <3>6. CASE ListActiveJobs(w)
      BY <3>6 DEF ListActiveJobs, rows
    <3>. QED BY <2>1, <3>1, <3>2, <3>3, <3>4, <3>5, <3>6 DEF Proceed, RowStep
  <2>2. CASE \E e \in {"ownership", "retryable", "terminal"} :
                    HeartbeatFails(w, e)
    BY <2>2 DEF HeartbeatFails, rows
  <2>3. CASE Abandon(w)
    BY <2>3 DEF Abandon, rows, TypeOK
  <2>4. CASE \E T \in SUBSET Child : Recover(w, T)
    BY <2>4, RecoverSettles DEF RowStep
  <2>. QED BY <1>3, <2>1, <2>2, <2>3, <2>4 DEF WorkerNext, RowStep
<1>. QED BY <1>1, <1>2, <1>3 DEF Next

(* What each of these steps does to the rows, field by field. *)

LEMMA ClaimEffect ==
    ASSUME TypeInv, NEW w \in Worker, NEW c \in Child, ClaimNext(w, c)
    PROVE  /\ job[c[1]].status \in Active
           /\ job_session[c].status = "pending"
           /\ job_session[c].attempt < MaxAttempts
           /\ ingestion[c[2]].status # "running"
           /\ job'[c[1]].status = "running"
           /\ job_session'[c].status = "running"
           /\ job_session'[c].attempt = job_session[c].attempt + 1
           /\ job_session'[c].beat = 0
           /\ ingestion'[c[2]].status = "running"
           /\ ingestion'[c[2]].token = ingestion[c[2]].token + 1
           /\ ingestion'[c[2]].beat = 0
           /\ \A j \in Job \ {c[1]} : job'[j] = job[j]
           /\ \A d \in Child \ {c} : job_session'[d] = job_session[d]
           /\ \A s \in Session \ {c[2]} : ingestion'[s] = ingestion[s]
           /\ snapshot' = snapshot /\ seen' = seen
  BY DEF ClaimNext, Claimable, Eligible, TypeInv, TypeOK, JobRow, ChildRow, IngestionRow

LEMMA PersistEffect ==
    ASSUME TypeInv, NEW w \in Worker, Persist(w)
    PROVE  LET c == <<claim[w].job, claim[w].session>>
           IN  /\ claim[w] # Nil /\ c \in Child /\ Owns(claim[w])
               /\ job_session'[c].status = "completed"
               /\ job_session'[c].attempt = job_session[c].attempt
               /\ job_session'[c].beat = None
               /\ job_session'[c].retry = None
               /\ ingestion'[c[2]].status = "completed"
               /\ ingestion'[c[2]].token = ingestion[c[2]].token
               /\ snapshot'[c[2]] = ingestion[c[2]].token
               /\ \A d \in Child \ {c} : job_session'[d] = job_session[d]
               /\ \A s \in Session \ {c[2]} :
                    ingestion'[s] = ingestion[s] /\ snapshot'[s] = snapshot[s]
               /\ job' = job /\ seen' = seen
<1>1. claim[w] \in Claims
  BY DEF Persist, TypeInv, TypeOK, Shape
<1>2. claim[w] # Nil
  BY <1>1, ArchiveAssumption
<1>. QED BY <1>1, <1>2
         DEF Persist, Owns, TypeInv, TypeOK, ChildRow, IngestionRow

(* The two rows of an attempt that ended without data. *)
Settled(c, attempt, delay) ==
    /\ job_session'[c].status = SettledStatus(delay)
    /\ job_session'[c].attempt = attempt
    /\ job_session'[c].beat = None
    /\ job_session'[c].retry = delay
    /\ ingestion'[c[2]].status = SettledStatus(delay)
    /\ ingestion'[c[2]].token = ingestion[c[2]].token
    /\ ingestion'[c[2]].retry = delay

LEMMA FailureEffect ==
    ASSUME TypeInv, NEW w \in Worker, NEW delay \in Delays,
           RecordFailure(w, delay)
    PROVE  LET c == <<claim[w].job, claim[w].session>>
           IN  /\ claim[w] # Nil /\ c \in Child /\ Owns(claim[w])
               /\ delay \in RetryDelays(w)
               /\ Settled(c, Charged(w), delay)
               /\ \A d \in Child \ {c} : job_session'[d] = job_session[d]
               /\ \A s \in Session \ {c[2]} : ingestion'[s] = ingestion[s]
               /\ job' = job /\ snapshot' = snapshot /\ seen' = seen
<1>1. claim[w] \in Claims
  BY DEF RecordFailure, TypeInv, TypeOK, Shape
<1>2. claim[w] # Nil
  BY <1>1, ArchiveAssumption
<1>. QED BY <1>1, <1>2
         DEF RecordFailure, ToAggregation, Settled, SettledChild,
             SettledIngestion, Owns, TypeInv, TypeOK, ChildRow, IngestionRow

LEMMA HeartbeatEffect ==
    ASSUME TypeInv, NEW w \in Worker, Heartbeat(w)
    PROVE  LET c == <<claim[w].job, claim[w].session>>
           IN  /\ c \in Child /\ Owns(claim[w])
               /\ job_session'[c].status = "running"
               /\ job_session'[c].attempt = job_session[c].attempt
               /\ job_session'[c].beat = 0
               /\ job_session'[c].retry = job_session[c].retry
               /\ ingestion'[c[2]].status = "running"
               /\ ingestion'[c[2]].token = ingestion[c[2]].token
               /\ ingestion'[c[2]].beat = 0
               /\ \A d \in Child \ {c} : job_session'[d] = job_session[d]
               /\ \A s \in Session \ {c[2]} : ingestion'[s] = ingestion[s]
               /\ job' = job /\ snapshot' = snapshot /\ seen' = seen
<1>1. claim[w] \in Claims
  BY DEF Heartbeat, MonitorRuns, TypeInv, TypeOK, Shape
<1> DEFINE c == <<claim[w].job, claim[w].session>>
           s == claim[w].session
<1>2. c \in Child /\ s \in Session /\ c[2] = s
  BY <1>1
<1>3. /\ job_session' = [job_session EXCEPT ![c].beat = 0]
      /\ ingestion' = [ingestion EXCEPT ![s].beat = 0]
      /\ UNCHANGED <<job, snapshot, seen>> /\ Owns(claim[w])
  BY DEF Heartbeat, local
<1>4. job_session[c].status = "running" /\ ingestion[s].status = "running"
  BY <1>3 DEF Owns
<1> HIDE DEF c, s
<1>5. job_session[c] \in ChildRow /\ ingestion[s] \in IngestionRow
  BY <1>2 DEF TypeInv, TypeOK
<1>6. /\ job_session'[c] = [job_session[c] EXCEPT !.beat = 0]
      /\ \A d \in Child \ {c} : job_session'[d] = job_session[d]
      /\ ingestion'[s] = [ingestion[s] EXCEPT !.beat = 0]
      /\ \A r \in Session \ {s} : ingestion'[r] = ingestion[r]
  BY <1>2, <1>3 DEF TypeInv, TypeOK
<1>7. /\ job_session'[c].status = job_session[c].status
      /\ job_session'[c].attempt = job_session[c].attempt
      /\ job_session'[c].beat = 0 /\ job_session'[c].retry = job_session[c].retry
  BY <1>5, <1>6 DEF ChildRow
<1>8. /\ ingestion'[s].status = ingestion[s].status
      /\ ingestion'[s].token = ingestion[s].token /\ ingestion'[s].beat = 0
  BY <1>5, <1>6 DEF IngestionRow
<1>. QED BY <1>2, <1>3, <1>4, <1>6, <1>7, <1>8 DEF c

LEMMA TickEffect ==
    ASSUME TypeInv, Tick
    PROVE  /\ \A c \in Child :
                /\ job_session'[c].status = job_session[c].status
                /\ job_session'[c].attempt = job_session[c].attempt
                /\ job_session'[c].beat = Older(job_session[c].beat)
                /\ job_session'[c].retry = Sooner(job_session[c].retry)
           /\ \A s \in Session :
                /\ ingestion'[s].status = ingestion[s].status
                /\ ingestion'[s].token = ingestion[s].token
                /\ ingestion'[s].beat = Older(ingestion[s].beat)
                /\ ingestion'[s].retry = Sooner(ingestion[s].retry)
           /\ job' = job /\ snapshot' = snapshot /\ seen' = seen
  BY DEF Tick, local

LEMMA PlanEffect ==
    ASSUME TypeInv, PlanCommit
    PROVE  /\ \/ UNCHANGED <<job, job_session>>
              \/ \E j \in Job :
                    /\ \/ job[j].status \in Active /\ job' = job
                       \/ /\ ActiveJobs = {} /\ job[j].status = "absent"
                          /\ job'[j].status = "pending"
                          /\ \A i \in Job \ {j} : job'[i] = job[i]
                    /\ \A c \in Child :
                        \/ job_session'[c] = job_session[c]
                        \/ /\ c[1] = j
                           /\ job_session[c].status = "absent"
                           /\ job_session'[c] = NewChild
           /\ UNCHANGED <<ingestion, snapshot, seen>>
<1>1. UNCHANGED <<ingestion, snapshot, seen>>
  BY DEF PlanCommit, local
<1>2. ASSUME NEW j \in Job, PlanInto(j)
      PROVE  /\ \/ job[j].status \in Active /\ job' = job
                \/ /\ ActiveJobs = {} /\ job[j].status = "absent"
                   /\ job'[j].status = "pending"
                   /\ \A i \in Job \ {j} : job'[i] = job[i]
             /\ \A c \in Child :
                  \/ job_session'[c] = job_session[c]
                  \/ /\ c[1] = j
                     /\ job_session[c].status = "absent"
                     /\ job_session'[c] = NewChild
  BY <1>2 DEF PlanInto, Active, TypeInv, TypeOK, JobRow
<1>. QED BY <1>1, <1>2 DEF PlanCommit

-----------------------------------------------------------------------------
(* The ledger.  Both rows of an attempt move together because only one job *)
(* is ever active: a child that waits or runs in it has no rival of the    *)
(* same session in another job that could still change the shared row.     *)

OneActiveJob ==
    \A i, j \in Job :
        job[i].status \in Active /\ job[j].status \in Active => i = j

(* No child and no view of children exists before its job does. *)
KnownJobs ==
    /\ \A c \in Child :
        job_session[c].status # "absent" => job[c[1]].status # "absent"
    /\ \A w \in Worker :
        seen[w] # Nil /\ seen[w].sessions # {}
            => job[seen[w].job].status # "absent"

(* A settled child has no clock left that could run. *)
SettledAtRest ==
    \A c \in Child : job_session[c].status \in Terminal =>
        job_session[c].beat = None /\ job_session[c].retry = None

LedgerInv ==
    /\ OneActiveJob
    /\ KnownJobs
    /\ SettledAtRest
    /\ RowsAgree
    /\ AttemptBudget

LEMMA RecoverEffect ==
    ASSUME TypeInv, RowsAgree, NEW w \in Worker, NEW S \in SUBSET Child,
           Settles(w, S)
    PROVE  /\ \A c \in S :
                /\ c \in Recoverable
                /\ \E delay \in RecoveryDelays(c) :
                        Settled(c, job_session[c].attempt, delay)
           /\ \A c, d \in S : c[2] = d[2] => c = d
           /\ \A d \in Child \ S : job_session'[d] = job_session[d]
           /\ \A s \in Session :
                (\A c \in S : c[2] # s) => ingestion'[s] = ingestion[s]
           /\ job' = job /\ snapshot' = snapshot /\ seen' = seen
<1>1. /\ S \subseteq Recoverable
      /\ job' = job /\ snapshot' = snapshot /\ seen' = seen
  BY DEF Settles, Recover
<1>2. PICK delay \in [S -> Backoff \cup {None}] : RecoverWith(S, delay)
  BY DEF Settles, Recover, RecoverRows
<1>3. ASSUME NEW c \in S, NEW d \in S, c[2] = d[2] PROVE c = d
  <2>1. /\ job_session[<<c[1], c[2]>>].status = "running"
        /\ job_session[<<d[1], c[2]>>].status = "running"
    BY <1>1, <1>3 DEF Recoverable, Expired
  <2>. QED BY <1>3, <2>1 DEF RowsAgree
<1>4. ASSUME NEW c \in S PROVE (CHOOSE d \in S : d[2] = c[2]) = c
  BY <1>3
<1>5. ASSUME NEW c \in S
      PROVE  /\ delay[c] \in RecoveryDelays(c)
             /\ Settled(c, job_session[c].attempt, delay[c])
  <2>1. job_session'[c] = SettledChild(job_session[c].attempt, delay[c])
    BY <1>2 DEF RecoverWith
  <2>2. ingestion'[c[2]] = SettledIngestion(ingestion[c[2]].token, delay[c])
    BY <1>2, <1>4 DEF RecoverWith
  <2>. QED BY <1>2, <2>1, <2>2
           DEF RecoverWith, Settled, SettledChild, SettledIngestion
<1>. QED BY <1>1, <1>2, <1>3, <1>5 DEF RecoverWith

(* An aggregation starts no job and ends none twice. *)
LEMMA AggregateEffect ==
    ASSUME TypeInv, KnownJobs, NEW w \in Worker, AggregateWrite(w)
    PROVE  /\ UNCHANGED <<job_session, ingestion, snapshot>>
           /\ \A v \in Worker : seen'[v] \in {seen[v], Nil}
           /\ \A j \in Job :
                /\ job'[j].status \in Active => job[j].status \in Active
                /\ job[j].status # "absent" => job'[j].status # "absent"
                /\ job[j].status \in Terminal => job'[j] = job[j]
<1> DEFINE k == seen[w].job  S == seen[w].sessions
<1>1. /\ seen[w] # Nil /\ k \in Job /\ S \subseteq Session
      /\ \A j \in Job \ {k} : job'[j] = job[j]
      /\ job'[k] = Aggregated(k, S)
  BY DEF AggregateWrite, TypeInv, TypeOK, Shape
<1>2. /\ S = {} => DeriveStatus(k, S) = job[k].status
      /\ S # {} => DeriveStatus(k, S) # "absent"
  BY DEF DeriveStatus
<1>3. S # {} => job[k].status # "absent"
  BY <1>1 DEF KnownJobs
<1>4. Aggregated(k, S) =
        IF job[k].status \in Terminal THEN job[k]
        ELSE [status |-> DeriveStatus(k, S),
              started |-> job[k].started \/ DeriveStatus(k, S) # "pending"]
  BY DEF Aggregated
<1> HIDE DEF k, S
<1>5. /\ job[k].status \in Terminal => job'[k] = job[k]
      /\ job[k].status \notin Terminal => job'[k].status = DeriveStatus(k, S)
  <2> DEFINE b == job[k].started \/ DeriveStatus(k, S) # "pending"
  <2> HIDE DEF b
  <2>. QED BY <1>1, <1>4 DEF b
<1>6. /\ job'[k].status \in Active => job[k].status \in Active
      /\ job[k].status # "absent" => job'[k].status # "absent"
  BY <1>1, <1>2, <1>3, <1>5 DEF Active, Terminal, TypeInv, TypeOK, JobRow, Status
<1>. QED BY <1>1, <1>5, <1>6 DEF AggregateWrite, TypeInv, TypeOK

LEMMA AttemptRange ==
    /\ 0 \in 0..(MaxAttempts - 1)
    /\ \A n \in 0..(MaxAttempts - 1) : n \in Nat /\ n + 1 \in 1..MaxAttempts
    /\ \A n \in 1..MaxAttempts :
        /\ n \in Nat
        /\ n - 1 \in 0..(MaxAttempts - 1)
        /\ n < MaxAttempts => n \in 0..(MaxAttempts - 1)
  BY ArchiveAssumption

(* A child's budget, for one row; AttemptBudget is its conjunction. *)
Budgeted(row) ==
    /\ row.status = "absent" => row.attempt = 0
    /\ row.status = "pending" => row.attempt \in 0..(MaxAttempts - 1)
    /\ row.status \in {"running", "completed", "failed"}
        => row.attempt \in 1..MaxAttempts

LEMMA BudgetByRow ==
    /\ TypeOK => (AttemptBudget <=> \A c \in Child : Budgeted(job_session[c]))
    /\ TypeOK' => (AttemptBudget' <=> \A c \in Child : Budgeted(job_session'[c]))
<1> DEFINE Allowed(row) ==
        CASE row.status = "absent" -> {0}
          [] row.status = "pending" -> 0..(MaxAttempts - 1)
          [] OTHER -> 1..MaxAttempts
<1>1. ASSUME NEW row \in ChildRow
      PROVE  row.attempt \in Allowed(row) <=> Budgeted(row)
  BY DEF Budgeted, ChildRow, Status
<1>2. /\ AttemptBudget <=> \A c \in Child :
                job_session[c].attempt \in Allowed(job_session[c])
      /\ AttemptBudget' <=> \A c \in Child :
                job_session'[c].attempt \in Allowed(job_session'[c])
  BY DEF AttemptBudget
<1>3. /\ TypeOK => \A c \in Child : job_session[c] \in ChildRow
      /\ TypeOK' => \A c \in Child : job_session'[c] \in ChildRow
  BY DEF TypeOK
<1> HIDE DEF Allowed
<1>. QED BY <1>1, <1>2, <1>3

(* Jobs never disappear, so a step that creates no child and no view keeps *)
(* KnownJobs.                                                              *)
LEMMA KnownKept ==
    ASSUME TypeOK, KnownJobs,
           \A j \in Job : job[j].status # "absent" => job'[j].status # "absent",
           \A c \in Child : job_session[c].status = "absent"
                                => job_session'[c].status = "absent",
           \A w \in Worker : seen'[w] \in {seen[w], Nil}
    PROVE  KnownJobs'
<1>1. \A w \in Worker : seen[w] # Nil => seen[w].job \in Job
  BY DEF TypeOK
<1>. QED BY <1>1 DEF KnownJobs

(* A settled attempt stays within its budget. *)
LEMMA SettledBudget ==
    ASSUME TypeOK, TypeOK', NEW c \in Child, NEW attempt, NEW delay,
           Settled(c, attempt, delay),
           delay # None => attempt \in 0..(MaxAttempts - 1),
           delay = None => attempt \in 1..MaxAttempts
    PROVE  Budgeted(job_session'[c])
  BY DEF Settled, SettledStatus, Budgeted

LEMMA DelayKinds ==
    /\ None \notin Backoff /\ None \notin BudgetDelay /\ Cooldown # None
    /\ Backoff \subseteq Nat
  BY ArchiveAssumption DEF None

(* A step that settles, claims or renews one row keeps the rows in agreement *)
(* when the two rows it writes agree.                                        *)
LEMMA OneRowAgrees ==
    ASSUME RowsAgree, OneActiveJob, NEW c \in Child, job[c[1]].status \in Active,
           \A j \in Job : job'[j].status \in Active => job[j].status \in Active,
           \A j \in Job \ {c[1]} : job_session[<<j, c[2]>>].status # "running",
           \A d \in Child \ {c} : job_session'[d] = job_session[d],
           \A s \in Session \ {c[2]} : ingestion'[s] = ingestion[s],
           ingestion'[c[2]].status = "running" <=> job_session'[c].status = "running",
           job_session'[c].status = "running"
             => ingestion'[c[2]].beat = job_session'[c].beat,
           job_session'[c].status = "pending" /\ job_session'[c].retry # None
             => /\ ingestion'[c[2]].status = "pending"
                /\ ingestion'[c[2]].retry = job_session'[c].retry
    PROVE  RowsAgree'
<1>1. <<c[1], c[2]>> = c /\ c[1] \in Job
  OBVIOUS
<1>2. \A j \in Job, r \in Session :
        j # c[1] \/ r # c[2] => job_session'[<<j, r>>] = job_session[<<j, r>>]
  OBVIOUS
<1>3. \A j \in Job : job'[j].status \in Active => j = c[1]
  BY DEF OneActiveJob
<1> SUFFICES ASSUME NEW s \in Session
             PROVE  RowsAgree!(s)'
  BY DEF RowsAgree
<1>4. CASE s # c[2]
  <2>1. ingestion'[s] = ingestion[s]
    BY <1>4
  <2>2. \A j \in Job : job_session'[<<j, s>>] = job_session[<<j, s>>]
    BY <1>2, <1>4
  <2>. QED BY <2>1, <2>2 DEF RowsAgree
<1>5. CASE s = c[2]
  <2>1. job_session'[<<c[1], s>>] = job_session'[c]
    BY <1>1, <1>5
  <2>2. \A j \in Job \ {c[1]} : job_session'[<<j, s>>].status # "running"
    BY <1>2, <1>5
  <2>. QED BY <1>1, <1>3, <1>5, <2>1, <2>2
<1>. QED BY <1>4, <1>5

LEMMA LedgerClaim ==
    ASSUME TypeInv, LedgerInv, NEW w \in Worker, NEW c \in Child,
           ClaimNext(w, c)
    PROVE  LedgerInv'
<1> USE DEF LedgerInv
<1>1. TypeOK /\ TypeOK'
  BY TypeStep DEF TypeInv, Next, WorkerNext
<1>2. OneActiveJob'
  BY ClaimEffect DEF OneActiveJob, Active
<1>3. KnownJobs'
  BY ClaimEffect, KnownKept, <1>1 DEF Active
<1>4. SettledAtRest'
  BY ClaimEffect DEF SettledAtRest, Terminal
<1>5. RowsAgree'
  <2>1. \A j \in Job : job_session[<<j, c[2]>>].status # "running"
    BY ClaimEffect DEF RowsAgree
  <2>2. /\ job[c[1]].status \in Active
        /\ \A j \in Job : job'[j].status \in Active => job[j].status \in Active
    BY ClaimEffect
  <2>3. /\ job_session'[c].status = "running" /\ job_session'[c].beat = 0
        /\ ingestion'[c[2]].status = "running" /\ ingestion'[c[2]].beat = 0
        /\ \A d \in Child \ {c} : job_session'[d] = job_session[d]
        /\ \A s \in Session \ {c[2]} : ingestion'[s] = ingestion[s]
    BY ClaimEffect
  <2>. QED BY <2>1, <2>2, <2>3, OneRowAgrees
<1>6. AttemptBudget'
  <2>1. Budgeted(job_session'[c])
    BY ClaimEffect, <1>1, AttemptRange, BudgetByRow DEF Budgeted
  <2>. QED BY ClaimEffect, <1>1, <2>1, BudgetByRow
<1>. QED BY <1>2, <1>3, <1>4, <1>5, <1>6

LEMMA LedgerPersist ==
    ASSUME TypeInv, LedgerInv, NEW w \in Worker, Persist(w)
    PROVE  LedgerInv'
<1> USE DEF LedgerInv
<1>1. TypeOK /\ TypeOK'
  BY TypeStep DEF TypeInv, Next, WorkerNext, Proceed
<1> DEFINE c == <<claim[w].job, claim[w].session>>
<1>2. /\ c \in Child
      /\ job[c[1]].status = "running" /\ job_session[c].status = "running"
      /\ job_session'[c].status = "completed"
      /\ job_session'[c].attempt = job_session[c].attempt
      /\ job_session'[c].beat = None /\ job_session'[c].retry = None
      /\ ingestion'[c[2]].status = "completed"
      /\ \A d \in Child \ {c} : job_session'[d] = job_session[d]
      /\ \A s \in Session \ {c[2]} : ingestion'[s] = ingestion[s]
      /\ job' = job /\ seen' = seen
  BY PersistEffect DEF Owns
<1>3. <<c[1], c[2]>> = c
  OBVIOUS
<1> HIDE DEF c
<1>4. OneActiveJob' /\ KnownJobs' /\ SettledAtRest'
  BY <1>1, <1>2, KnownKept DEF OneActiveJob, SettledAtRest
<1>5. RowsAgree'
  <2>1. \A j \in Job \ {c[1]} : job_session[<<j, c[2]>>].status # "running"
    BY <1>2, <1>3 DEF RowsAgree
  <2>2. job' = job /\ job[c[1]].status \in Active
    BY <1>2 DEF Active
  <2>. QED BY <1>2, <2>1, <2>2, OneRowAgrees
<1>6. AttemptBudget'
  BY <1>1, <1>2, BudgetByRow DEF Budgeted
<1>. QED BY <1>4, <1>5, <1>6

LEMMA LedgerFailure ==
    ASSUME TypeInv, LedgerInv, NEW w \in Worker, NEW delay \in Delays,
           RecordFailure(w, delay)
    PROVE  LedgerInv'
<1> USE DEF LedgerInv
<1>1. TypeOK /\ TypeOK'
  BY TypeStep DEF TypeInv, Next, WorkerNext, Proceed
<1> DEFINE c == <<claim[w].job, claim[w].session>>
<1>2. /\ c \in Child
      /\ job[c[1]].status = "running" /\ job_session[c].status = "running"
      /\ claim[w].attempt = job_session[c].attempt
      /\ delay \in RetryDelays(w)
      /\ Settled(c, Charged(w), delay)
      /\ \A d \in Child \ {c} : job_session'[d] = job_session[d]
      /\ \A s \in Session \ {c[2]} : ingestion'[s] = ingestion[s]
      /\ job' = job /\ seen' = seen
  BY FailureEffect DEF Owns
<1>3. <<c[1], c[2]>> = c
  OBVIOUS
<1> HIDE DEF c
<1>4. OneActiveJob' /\ KnownJobs' /\ SettledAtRest'
  BY <1>1, <1>2, KnownKept
  DEF OneActiveJob, SettledAtRest, Settled, SettledStatus, Terminal
<1>5. RowsAgree'
  <2>1. \A j \in Job \ {c[1]} : job_session[<<j, c[2]>>].status # "running"
    BY <1>2, <1>3 DEF RowsAgree
  <2>2. job' = job /\ job[c[1]].status \in Active
    BY <1>2 DEF Active
  <2>3. /\ ingestion'[c[2]].status = job_session'[c].status
        /\ job_session'[c].status # "running"
        /\ ingestion'[c[2]].retry = job_session'[c].retry
    BY <1>2 DEF Settled, SettledStatus
  <2>. QED BY <1>2, <2>1, <2>2, <2>3, OneRowAgrees
<1>6. AttemptBudget'
  <2>1. job_session[c].attempt \in 1..MaxAttempts
    BY <1>1, <1>2, BudgetByRow DEF Budgeted
  <2>2. delay # None => Charged(w) \in 0..(MaxAttempts - 1)
    BY <1>2, <2>1, AttemptRange DEF RetryDelays, Charged, Pausing
  <2>3. delay = None => Charged(w) \in 1..MaxAttempts
    BY <1>2, <2>1, DelayKinds DEF RetryDelays, Charged, Pausing
  <2>4. Budgeted(job_session'[c])
    BY <1>1, <1>2, <2>2, <2>3, SettledBudget
  <2>. QED BY <1>1, <1>2, <2>4, BudgetByRow
<1>. QED BY <1>4, <1>5, <1>6

LEMMA LedgerRecover ==
    ASSUME TypeInv, LedgerInv, NEW w \in Worker, NEW S \in SUBSET Child,
           Settles(w, S)
    PROVE  LedgerInv'
<1> USE DEF LedgerInv
<1>1. TypeOK /\ TypeOK'
  BY TypeStep, SettlesIsStep DEF TypeInv
<1>2. OneActiveJob'
  BY RecoverEffect DEF OneActiveJob
<1>3. \A c \in S :
        /\ job[c[1]].status = "running" /\ job_session[c].status = "running"
        /\ <<c[1], c[2]>> = c
  BY RecoverEffect DEF Recoverable, Expired
<1>4. KnownJobs'
  BY RecoverEffect, KnownKept, <1>1, <1>3
<1>5. SettledAtRest'
  BY RecoverEffect, <1>1 DEF SettledAtRest, Settled, SettledStatus, Terminal
<1>6. RowsAgree'
  <2> SUFFICES ASSUME NEW s \in Session
               PROVE  RowsAgree!(s)'
    BY DEF RowsAgree
  <2>1. CASE \E c \in S : c[2] = s
    <3>1. PICK c \in S : c[2] = s
      BY <2>1
    <3>2. \A j \in Job \ {c[1]} :
            /\ job_session[<<j, s>>].status # "running"
            /\ job_session'[<<j, s>>] = job_session[<<j, s>>]
      BY RecoverEffect, <1>3, <3>1 DEF RowsAgree
    <3>3. \A j \in Job : job[j].status \in Active => j = c[1]
      BY <1>3, <3>1 DEF OneActiveJob, Active
    <3>. QED BY RecoverEffect, <1>3, <3>1, <3>2, <3>3
             DEF Settled, SettledStatus
  <2>2. CASE \A c \in S : c[2] # s
    <3>1. \A j \in Job : <<j, s>> \in Child \ S
      BY <2>2
    <3>. QED BY RecoverEffect, <2>2, <3>1 DEF RowsAgree
  <2>. QED BY <2>1, <2>2
<1>7. AttemptBudget'
  <2>1. ASSUME NEW c \in S PROVE Budgeted(job_session'[c])
    <3>1. job_session[c].attempt \in 1..MaxAttempts
      BY <1>1, <1>3, BudgetByRow DEF Budgeted
    <3>2. PICK delay \in RecoveryDelays(c) :
                Settled(c, job_session[c].attempt, delay)
      BY RecoverEffect
    <3>3. /\ delay # None => job_session[c].attempt \in 0..(MaxAttempts - 1)
      BY <3>1, <3>2, AttemptRange DEF RecoveryDelays
    <3>. QED BY <1>1, <3>1, <3>2, <3>3, SettledBudget
  <2>. QED BY RecoverEffect, <1>1, <2>1, BudgetByRow
<1>. QED BY <1>2, <1>4, <1>5, <1>6, <1>7

LEMMA LedgerHeartbeat ==
    ASSUME TypeInv, LedgerInv, NEW w \in Worker, Heartbeat(w)
    PROVE  LedgerInv'
<1> USE DEF LedgerInv
<1>1. TypeOK /\ TypeOK'
  BY TypeStep DEF TypeInv, Next, WorkerNext
<1> DEFINE c == <<claim[w].job, claim[w].session>>
<1>2. /\ c \in Child
      /\ job_session[c].status = "running"
      /\ job_session'[c].status = "running"
      /\ job_session'[c].attempt = job_session[c].attempt
      /\ job_session'[c].beat = 0
      /\ ingestion'[c[2]].status = "running" /\ ingestion'[c[2]].beat = 0
      /\ \A d \in Child \ {c} : job_session'[d] = job_session[d]
      /\ \A s \in Session \ {c[2]} : ingestion'[s] = ingestion[s]
      /\ job[c[1]].status = "running"
      /\ job' = job /\ seen' = seen
  BY HeartbeatEffect DEF Owns
<1>3. <<c[1], c[2]>> = c
  OBVIOUS
<1> HIDE DEF c
<1>4. OneActiveJob' /\ KnownJobs' /\ SettledAtRest'
  BY <1>1, <1>2, KnownKept DEF OneActiveJob, SettledAtRest, Terminal
<1>5. RowsAgree'
  <2>1. \A j \in Job \ {c[1]} : job_session[<<j, c[2]>>].status # "running"
    BY <1>2, <1>3 DEF RowsAgree
  <2>2. job' = job /\ job[c[1]].status \in Active
    BY <1>2 DEF Active
  <2>. QED BY <1>2, <2>1, <2>2, OneRowAgrees
<1>6. AttemptBudget'
  BY <1>1, <1>2, BudgetByRow DEF Budgeted
<1>. QED BY <1>4, <1>5, <1>6

LEMMA LedgerTick ==
    ASSUME TypeInv, LedgerInv, Tick
    PROVE  LedgerInv'
<1> USE DEF LedgerInv
<1>1. TypeOK /\ TypeOK'
  BY TypeStep DEF TypeInv, Next
<1>2. OneActiveJob' /\ KnownJobs'
  BY <1>1, TickEffect, KnownKept DEF OneActiveJob
<1>3. SettledAtRest'
  BY TickEffect DEF SettledAtRest, Older, Sooner, None
<1>4. RowsAgree'
  <2>1. \A n \in Int : Sooner(n) # None => n # None
    BY DEF Sooner, None
  <2>2. \A c \in Child : job_session[c].retry \in Int
    BY <1>1 DEF TypeOK, ChildRow
  <2>. QED BY TickEffect, <2>1, <2>2 DEF RowsAgree
<1>5. AttemptBudget'
  BY <1>1, TickEffect, BudgetByRow DEF Budgeted
<1>. QED BY <1>2, <1>3, <1>4, <1>5

LEMMA LedgerPlan ==
    ASSUME TypeInv, LedgerInv, PlanCommit
    PROVE  LedgerInv'
<1> USE DEF LedgerInv
<1>1. TypeOK /\ TypeOK'
  BY TypeStep DEF TypeInv, Next
<1>2. CASE UNCHANGED <<job, job_session>>
  BY <1>1, <1>2, PlanEffect, KnownKept, BudgetByRow
  DEF OneActiveJob, SettledAtRest, RowsAgree, Budgeted
<1>3. ASSUME NEW j \in Job,
             \/ job[j].status \in Active /\ job' = job
             \/ /\ ActiveJobs = {} /\ job[j].status = "absent"
                /\ job'[j].status = "pending"
                /\ \A i \in Job \ {j} : job'[i] = job[i],
             \A c \in Child :
                \/ job_session'[c] = job_session[c]
                \/ /\ c[1] = j
                   /\ job_session[c].status = "absent"
                   /\ job_session'[c] = NewChild
      PROVE  LedgerInv'
  <2>1. /\ NewChild.status = "pending" /\ NewChild.attempt = 0
        /\ NewChild.retry = None
    BY DEF NewChild, Absent
  <2>2. /\ UNCHANGED <<ingestion, seen>>
        /\ job'[j].status \in Active
    BY <1>3, PlanEffect DEF Active
  <2>3. OneActiveJob'
    BY <1>3 DEF OneActiveJob, ActiveJobs
  <2>4. KnownJobs'
    <3>1. \A c \in Child :
            job_session'[c].status # "absent" => job'[c[1]].status # "absent"
      BY <1>3, <2>2 DEF KnownJobs, Active
    <3>2. \A w \in Worker : seen[w] # Nil => seen[w].job \in Job
      BY <1>1 DEF TypeOK
    <3>. QED BY <1>3, <2>2, <3>1, <3>2 DEF KnownJobs, Active
  <2>5. SettledAtRest'
    BY <1>3, <2>1 DEF SettledAtRest, Terminal
  <2>6. RowsAgree'
    (* A new job finds no child of its own that could wait for a retry. *)
    <3>1. \A i \in Job : job[i].status = "absent" =>
            \A s \in Session : job_session[<<i, s>>].status = "absent"
      BY DEF KnownJobs
    <3>2. \A i \in Job, s \in Session :
            \/ job_session'[<<i, s>>] = job_session[<<i, s>>]
            \/ /\ job_session[<<i, s>>].status = "absent"
               /\ job_session'[<<i, s>>].status = "pending"
               /\ job_session'[<<i, s>>].retry = None
      BY <1>3, <2>1
    <3>3. \A i \in Job : job'[i].status \in Active =>
            job[i].status \in Active \/ job[i].status = "absent"
      BY <1>3
    <3>4. \A i \in Job, s \in Session :
            job_session'[<<i, s>>].status = "running"
                <=> job_session[<<i, s>>].status = "running"
      BY <3>2
    <3>5. \A i \in Job, s \in Session :
            /\ job'[i].status \in Active
            /\ job_session'[<<i, s>>].status = "pending"
            /\ job_session'[<<i, s>>].retry # None
            => /\ job[i].status \in Active
               /\ job_session'[<<i, s>>] = job_session[<<i, s>>]
      BY <3>1, <3>2, <3>3
    <3>. QED BY <2>2, <3>2, <3>4, <3>5 DEF RowsAgree
  <2>7. AttemptBudget'
    BY <1>1, <1>3, <2>1, AttemptRange, BudgetByRow DEF Budgeted
  <2>. QED BY <2>3, <2>4, <2>5, <2>6, <2>7
<1>. QED BY <1>2, <1>3, PlanEffect

LEMMA LedgerAggregate ==
    ASSUME TypeInv, LedgerInv, NEW w \in Worker,
           AggregateWrite(w) \/ \E j \in Job : AggregateRead(w, j)
    PROVE  LedgerInv'
<1> USE DEF LedgerInv
<1>1. TypeOK /\ TypeOK'
  BY TypeStep DEF TypeInv, Next, WorkerNext, Proceed
<1>2. CASE AggregateWrite(w)
  BY <1>1, <1>2, AggregateEffect, KnownKept, BudgetByRow
  DEF OneActiveJob, SettledAtRest, RowsAgree, Budgeted
<1>3. CASE \E j \in Job : AggregateRead(w, j)
  <2>1. PICK j \in Job : AggregateRead(w, j)
    BY <1>3
  <2>2. UNCHANGED <<job, job_session, ingestion>>
    BY <2>1 DEF AggregateRead, rows
  <2>3. \A v \in Worker :
          \/ seen'[v] = seen[v]
          \/ seen'[v] = [job |-> j, sessions |-> Children(j)]
    BY <1>1, <2>1 DEF AggregateRead, TypeOK
  <2>4. Children(j) # {} => job[j].status # "absent"
    <3>1. \A s \in Session :
            job_session[<<j, s>>].status # "absent" => job[j].status # "absent"
      BY DEF KnownJobs
    <3>. QED BY <3>1 DEF Children
  <2>5. KnownJobs'
    BY <2>2, <2>3, <2>4 DEF KnownJobs
  <2>6. OneActiveJob' /\ SettledAtRest'
    BY <2>2 DEF OneActiveJob, SettledAtRest
  <2>7. RowsAgree'
    BY <2>2 DEF RowsAgree
  <2>8. AttemptBudget'
    BY <2>2 DEF AttemptBudget
  <2>. QED BY <2>5, <2>6, <2>7, <2>8
<1>. QED BY <1>2, <1>3

LEMMA LedgerInit == Init => LedgerInv
  BY DEF Init, LedgerInv, OneActiveJob, KnownJobs, SettledAtRest, RowsAgree,
         AttemptBudget, Absent, NoIngestion, Active, Terminal

LEMMA LedgerStep == TypeInv /\ LedgerInv /\ [Next]_vars => LedgerInv'
<1> SUFFICES ASSUME TypeInv, LedgerInv, [Next]_vars PROVE LedgerInv'
  OBVIOUS
<1>1. CASE Quiet
  <2>1. TypeOK
    BY DEF TypeInv
  <2>2. KnownJobs'
    BY <1>1, <2>1, KnownKept DEF Quiet, LedgerInv
  <2>. QED BY <1>1, <2>2 DEF Quiet, LedgerInv, OneActiveJob, SettledAtRest,
                             RowsAgree, AttemptBudget
<1>2. CASE \E w \in Worker : RowStep(w)
  BY <1>2, LedgerClaim, LedgerPersist, LedgerFailure, LedgerRecover,
     LedgerHeartbeat, LedgerAggregate DEF RowStep
<1>. QED BY <1>1, <1>2, RowSteps, LedgerPlan, LedgerTick

(* The two rows of an attempt agree: a session is running in its own row   *)
(* exactly while one job-session of it is, with the same heartbeat, and a  *)
(* child that waits for its retry in an active job waits in both rows      *)
(* until the same time.                                                    *)
THEOREM TwoRowsAgree == Spec => []RowsAgree
<1>1. Spec => [](TypeInv /\ LedgerInv)
  BY InitType, TypeStep, LedgerInit, LedgerStep, PTL DEF Spec
<1>2. LedgerInv => RowsAgree
  BY DEF LedgerInv
<1>. QED BY <1>1, <1>2, PTL

(* No child is charged with more attempts than the settings allow or with  *)
(* fewer than none, and a child that waits has an attempt left to be       *)
(* claimed with.                                                           *)
THEOREM AttemptsInBudget == Spec => []AttemptBudget
<1>1. Spec => [](TypeInv /\ LedgerInv)
  BY InitType, TypeStep, LedgerInit, LedgerStep, PTL DEF Spec
<1>2. LedgerInv => AttemptBudget
  BY DEF LedgerInv
<1>. QED BY <1>1, <1>2, PTL

(* Terminal rows are final: no recovery, late worker, repeated aggregation *)
(* or passing of time touches a child or a job that is completed or        *)
(* failed.                                                                 *)
THEOREM SettledForGood == Spec => SettledIsFinal
<1> DEFINE Final ==
        /\ \A c \in Child : job_session[c].status \in Terminal
                                => job_session'[c] = job_session[c]
        /\ \A j \in Job : job[j].status \in Terminal => job'[j] = job[j]
<1>1. TypeInv /\ LedgerInv /\ [Next]_vars => Final
  <2> SUFFICES ASSUME TypeInv, LedgerInv, [Next]_vars PROVE Final
    OBVIOUS
  <2> USE DEF LedgerInv, Terminal
  <2>1. CASE Quiet
    BY <2>1 DEF Quiet
  <2>2. CASE PlanCommit
    BY <2>2, PlanEffect DEF Active
  <2>3. CASE Tick
    <3>1. job' = job
      BY <2>3, TickEffect
    <3>2. ASSUME NEW c \in Child, job_session[c].status \in Terminal
          PROVE  job_session'[c] = job_session[c]
      <4>1. job_session[c].beat = None /\ job_session[c].retry = None
        BY <3>2 DEF SettledAtRest
      <4>2. job_session[c] \in ChildRow
        BY DEF TypeInv, TypeOK
      <4>3. job_session'[c] =
                [status |-> job_session[c].status,
                 attempt |-> job_session[c].attempt,
                 beat |-> None, retry |-> None]
        BY <2>3, <4>1 DEF Tick, Older, Sooner, None
      <4>. QED BY <4>1, <4>2, <4>3 DEF ChildRow
    <3>. QED BY <3>1, <3>2
  <2>4. ASSUME NEW w \in Worker, RowStep(w) PROVE Final
    <3>1. CASE \E c \in Child : ClaimNext(w, c)
      BY <3>1, ClaimEffect DEF Active
    <3>2. CASE \E S \in SUBSET Child : Settles(w, S)
      BY <3>2, RecoverEffect DEF Recoverable, Expired
    <3>3. CASE Persist(w)
      <4>1. PICK c \in Child : /\ job_session[c].status = "running"
                               /\ \A d \in Child \ {c} : job_session'[d] = job_session[d]
                               /\ job' = job
        BY <3>3, PersistEffect DEF Owns
      <4>. QED BY <4>1
    <3>4. CASE \E delay \in Delays : RecordFailure(w, delay)
      BY <3>4, FailureEffect DEF Owns
    <3>5. CASE Heartbeat(w)
      BY <3>5, HeartbeatEffect DEF Owns
    <3>6. CASE \E j \in Job : AggregateRead(w, j)
      BY <3>6 DEF AggregateRead, rows
    <3>7. CASE AggregateWrite(w)
      BY <3>7, AggregateEffect
    <3>. QED BY <2>4, <3>1, <3>2, <3>3, <3>4, <3>5, <3>6, <3>7 DEF RowStep
  <2>. QED BY <2>1, <2>2, <2>3, <2>4, RowSteps
<1>2. TypeInv /\ LedgerInv /\ [Next]_vars => [Final]_vars
  BY <1>1
<1>3. Spec => []([Final]_vars)
  <2> HIDE DEF Final
  <2>. QED BY <1>2, InitType, TypeStep, LedgerInit, LedgerStep, PTL DEF Spec
<1>. QED BY <1>3 DEF SettledIsFinal

-----------------------------------------------------------------------------
(* The data behind the rows.  Only a replacement stores data, under the    *)
(* token its session still carries, and it completes both rows with it.    *)

RunningHasToken ==
    \A s \in Session : ingestion[s].status = "running" => ingestion[s].token >= 1

DataInv == RunningHasToken /\ CompletedHasData

LEMMA DataStep ==
    TypeInv /\ FenceInv /\ LedgerInv /\ DataInv /\ [Next]_vars => DataInv'
<1> SUFFICES ASSUME TypeInv, FenceInv, LedgerInv, DataInv, [Next]_vars
             PROVE  DataInv'
  OBVIOUS
<1> USE DEF DataInv, RunningHasToken, CompletedHasData
<1>1. CASE Quiet
  BY <1>1 DEF Quiet
<1>2. CASE PlanCommit
  BY <1>2, PlanEffect DEF NewChild, Absent
<1>3. CASE Tick
  BY <1>3, TickEffect
<1>4. ASSUME NEW w \in Worker, RowStep(w) PROVE DataInv'
  <2>1. ASSUME NEW c \in Child, ClaimNext(w, c) PROVE DataInv'
    <3>1. ingestion[c[2]].token \in Nat
      BY DEF TypeInv, TypeOK, IngestionRow
    <3>. QED BY <2>1, <3>1, ClaimEffect
  <2>2. ASSUME NEW S \in SUBSET Child, Settles(w, S) PROVE DataInv'
    <3>1. \A c \in S : /\ job_session'[c].status # "completed"
                       /\ ingestion'[c[2]].status \notin {"running", "completed"}
      BY <2>2, RecoverEffect DEF Settled, SettledStatus, LedgerInv
    <3>. QED BY <2>2, <3>1, RecoverEffect DEF LedgerInv
  <2>3. CASE Persist(w)
    <3> DEFINE c == <<claim[w].job, claim[w].session>>
    <3>1. /\ c \in Child
          /\ ingestion'[c[2]].status = "completed"
          /\ ingestion'[c[2]].token = ingestion[c[2]].token
          /\ snapshot'[c[2]] = ingestion[c[2]].token
          /\ ingestion[c[2]].token >= 1
          /\ \A d \in Child \ {c} : job_session'[d] = job_session[d]
          /\ \A s \in Session \ {c[2]} :
                ingestion'[s] = ingestion[s] /\ snapshot'[s] = snapshot[s]
      BY <2>3, PersistEffect DEF FenceInv, Owns
    <3> HIDE DEF c
    <3>2. \A s \in Session : snapshot'[s] # 0 \/ snapshot'[s] = snapshot[s]
      BY <3>1
    <3>. QED BY <3>1, <3>2
  <2>4. ASSUME NEW delay \in Delays, RecordFailure(w, delay) PROVE DataInv'
    <3> DEFINE c == <<claim[w].job, claim[w].session>>
    <3>1. /\ c \in Child
          /\ job_session'[c].status # "completed"
          /\ ingestion'[c[2]].status \notin {"running", "completed"}
          /\ \A d \in Child \ {c} : job_session'[d] = job_session[d]
          /\ \A s \in Session \ {c[2]} : ingestion'[s] = ingestion[s]
          /\ snapshot' = snapshot
      BY <2>4, FailureEffect DEF Settled, SettledStatus
    <3> HIDE DEF c
    <3>. QED BY <3>1
  <2>5. CASE Heartbeat(w)
    <3> DEFINE c == <<claim[w].job, claim[w].session>>
    <3>1. /\ c \in Child
          /\ job_session'[c].status = "running"
          /\ ingestion[c[2]].status = "running"
          /\ ingestion'[c[2]].status = "running"
          /\ ingestion'[c[2]].token = ingestion[c[2]].token
          /\ \A d \in Child \ {c} : job_session'[d] = job_session[d]
          /\ \A s \in Session \ {c[2]} : ingestion'[s] = ingestion[s]
          /\ snapshot' = snapshot
      BY <2>5, HeartbeatEffect DEF Owns
    <3> HIDE DEF c
    <3>. QED BY <3>1
  <2>6. CASE \E j \in Job : AggregateRead(w, j)
    BY <2>6 DEF AggregateRead, rows
  <2>7. CASE AggregateWrite(w)
    BY <2>7, AggregateEffect DEF LedgerInv
  <2>. QED BY <1>4, <2>1, <2>2, <2>3, <2>4, <2>5, <2>6, <2>7 DEF RowStep
<1>. QED BY <1>1, <1>2, <1>3, <1>4, RowSteps

ArchiveInv == TypeInv /\ FenceInv /\ LedgerInv /\ DataInv

LEMMA ArchiveInvariant == Spec => []ArchiveInv
<1>1. Init => ArchiveInv
  <2>1. Init => FenceInv /\ DataInv
    BY DEF Init, FenceInv, DataInv, RunningHasToken, CompletedHasData,
           Absent, NoIngestion
  <2>. QED BY <2>1, InitType, LedgerInit DEF ArchiveInv
<1>2. ArchiveInv /\ [Next]_vars => ArchiveInv'
  BY TypeStep, FenceStep, LedgerStep, DataStep DEF ArchiveInv
<1>. QED BY <1>1, <1>2, PTL DEF Spec

(* A child reported completed has data behind it, which no later attempt   *)
(* takes away, and a session reported completed shows the data of its last *)
(* attempt: a worker that comes back late stores nothing.                  *)
THEOREM CompletedMeansStored == Spec => []CompletedHasData
<1>1. ArchiveInv => CompletedHasData
  BY DEF ArchiveInv, DataInv
<1>. QED BY <1>1, ArchiveInvariant, PTL

-----------------------------------------------------------------------------
(* The accounts.  A pause is counted when FastF1 reports it and gives its  *)
(* attempt back when the failure is recorded; in between, the worker owes  *)
(* it to its session.                                                      *)

Owed(s) ==
    {w \in Worker :
        claim[w] # Nil /\ claim[w].session = s /\ error[w] \in Pausing}

(* Only an attempt that has failed remembers an error. *)
NoErrorYet ==
    \A w \in Worker : pc[w] \notin {"stopping", "failing"} => error[w] = "none"

Accounted ==
    \A s \in Session :
        /\ IsFiniteSet(Charges(s)) /\ IsFiniteSet(Owed(s))
        /\ Cardinality(Charges(s)) <= ingestion[s].token
        /\ ingestion[s].token + Cardinality(Owed(s))
                <= Cardinality(Charges(s)) + pauses

AccountInv == NoErrorYet /\ Accounted

NothingOwed == \A s \in Session : Owed(s)' \subseteq Owed(s)

(* Only FastF1 and the budget, in a load, make a worker owe an attempt. *)
LEMMA OnlyLoadsOwe ==
    ASSUME TypeInv, NoErrorYet, [Next]_vars
    PROVE  /\ NoErrorYet'
           /\ \/ NothingOwed /\ pauses' = pauses
              \/ \E w \in Worker :
                    /\ \E e \in Failures : LoadFails(w, e)
                    /\ \A s \in Session : Owed(s)' \subseteq Owed(s) \cup {w}
                    /\ pauses' = pauses + 1
<1> DEFINE Paused(w) == /\ \E e \in Failures : LoadFails(w, e)
                        /\ \A s \in Session : Owed(s)' \subseteq Owed(s) \cup {w}
                        /\ pauses' = pauses + 1
           Goal == /\ NoErrorYet'
                   /\ \/ NothingOwed /\ pauses' = pauses
                      \/ \E w \in Worker : Paused(w)
<1> USE DEF TypeInv, NoErrorYet, NothingOwed, Owed, Pausing
<1>1. CASE UNCHANGED vars
  BY <1>1 DEF vars
<1>2. CASE (\E E \in SUBSET Session : PlanRead(E)) \/ PlanCommit \/ PlanAbort \/ Tick
  BY <1>2 DEF PlanRead, PlanCommit, PlanAbort, Tick, local
<1>3. ASSUME NEW w \in Worker, WorkerNext(w) PROVE Goal
  <2>1. CASE \E c \in Child : ClaimNext(w, c)
    BY <2>1 DEF ClaimNext, TypeOK
  <2>2. CASE \E T \in SUBSET Child : Recover(w, T)
    BY <2>2 DEF Recover, TypeOK
  <2>3. CASE Proceed(w)
    <3>1. ASSUME NEW e \in Failures, LoadFails(w, e) PROVE Goal
      <4>1. CASE e \in Pausing
        BY <3>1, <4>1 DEF LoadFails, Fails, TypeOK
      <4>2. CASE e \notin Pausing
        BY <3>1, <4>2 DEF LoadFails, Fails, TypeOK
      <4>. QED BY <4>1, <4>2
    <3>2. CASE LoadSucceeds(w)
      BY <3>2 DEF LoadSucceeds, Fails, TypeOK
    <3>3. CASE Persist(w)
      BY <3>3 DEF Persist, TypeOK
    <3>4. CASE \E e \in {"ownership", "retryable", "terminal"} :
                    PersistFails(w, e)
      BY <3>4 DEF PersistFails, Fails, TypeOK
    (* An attempt that ends leaves no error; one that fails keeps its own   *)
    (* error or takes the monitor's, which is no pause.                     *)
    <3>5. ASSUME ToAggregation(w), pauses' = pauses PROVE Goal
      BY <3>5 DEF ToAggregation, TypeOK
    <3>6. CASE StopMonitor(w)
      <4>1. pauses' = pauses
        BY <3>6 DEF StopMonitor
      <4>2. CASE ToAggregation(w)
        BY <3>5, <4>1, <4>2
      <4>3. CASE ~ToAggregation(w)
        <5>1. /\ pc' = [pc EXCEPT ![w] = "failing"]
              /\ error' = [error EXCEPT ![w] = IF monitor[w] # "ok"
                                               THEN monitor[w] ELSE error[w]]
              /\ claim' = claim
          BY <3>6, <4>3 DEF StopMonitor
        <5>2. /\ pc'[w] = "failing"
              /\ error'[w] \in Pausing => error[w] \in Pausing
              /\ \A v \in Worker \ {w} : pc'[v] = pc[v] /\ error'[v] = error[v]
          BY <5>1 DEF TypeOK
        <5>. QED BY <4>1, <5>1, <5>2
      <4>. QED BY <4>2, <4>3
    <3>7. CASE \/ \E delay \in Delays : RecordFailure(w, delay)
               \/ FailureNotOwned(w)
      BY <3>5, <3>7 DEF RecordFailure, FailureNotOwned
    <3>8. CASE \E j \in Job : AggregateRead(w, j)
      BY <3>8 DEF AggregateRead, TypeOK
    <3>9. CASE AggregateWrite(w)
      BY <3>9 DEF AggregateWrite, TypeOK
    <3>10. CASE ListActiveJobs(w)
      BY <3>10 DEF ListActiveJobs, TypeOK
    <3>. QED BY <2>3, <3>1, <3>2, <3>3, <3>4, <3>5, <3>6, <3>7, <3>8, <3>9,
                <3>10 DEF Proceed
  <2>4. CASE Heartbeat(w)
    BY <2>4 DEF Heartbeat, local
  <2>5. CASE \E e \in {"ownership", "retryable", "terminal"} :
                    HeartbeatFails(w, e)
    BY <2>5 DEF HeartbeatFails
  <2>6. CASE Abandon(w)
    BY <2>6 DEF Abandon, TypeOK
  <2>. QED BY <1>3, <2>1, <2>2, <2>3, <2>4, <2>5, <2>6 DEF WorkerNext
<1>. QED BY <1>1, <1>2, <1>3 DEF Next

AttemptsKept == \A c \in Child : job_session'[c].attempt = job_session[c].attempt

(* Only a claim charges an attempt and only a recorded pause gives one     *)
(* back.                                                                   *)
LEMMA OnlyClaimsCharge ==
    ASSUME TypeInv, LedgerInv, [Next]_vars
    PROVE  \/ \E w \in Worker, c \in Child : ClaimNext(w, c)
           \/ \E w \in Worker, delay \in Delays :
                RecordFailure(w, delay) /\ error[w] \in Pausing
           \/ AttemptsKept
<1> SUFFICES ASSUME ~ \E w \in Worker, c \in Child : ClaimNext(w, c),
                    ~ \E w \in Worker, delay \in Delays :
                        RecordFailure(w, delay) /\ error[w] \in Pausing
             PROVE  AttemptsKept
  OBVIOUS
<1> USE DEF AttemptsKept
<1>1. CASE Quiet
  BY <1>1 DEF Quiet
<1>2. CASE PlanCommit
  <2>1. \A c \in Child : job_session[c].status = "absent"
                            => job_session[c].attempt = 0
    BY BudgetByRow DEF Budgeted, LedgerInv, TypeInv
  <2>. QED BY <1>2, <2>1, PlanEffect DEF NewChild, Absent
<1>3. CASE Tick
  BY <1>3, TickEffect
<1>4. ASSUME NEW w \in Worker, RowStep(w) PROVE AttemptsKept
  <2>1. CASE \E S \in SUBSET Child : Settles(w, S)
    BY <2>1, RecoverEffect DEF LedgerInv, Settled
  <2>2. CASE Persist(w)
    BY <2>2, PersistEffect
  <2>3. ASSUME NEW delay \in Delays, RecordFailure(w, delay) PROVE AttemptsKept
    <3>1. error[w] \notin Pausing
      BY <2>3
    <3> DEFINE c == <<claim[w].job, claim[w].session>>
    <3>2. /\ c \in Child
          /\ job_session'[c].attempt = Charged(w)
          /\ job_session[c].attempt = claim[w].attempt
          /\ \A d \in Child \ {c} : job_session'[d] = job_session[d]
      BY <2>3, FailureEffect DEF Settled, Owns
    <3>3. job_session'[c].attempt = job_session[c].attempt
      BY <3>1, <3>2 DEF Charged
    <3> HIDE DEF c
    <3>. QED BY <3>2, <3>3
  <2>4. CASE Heartbeat(w)
    BY <2>4, HeartbeatEffect
  <2>5. CASE \E j \in Job : AggregateRead(w, j)
    BY <2>5 DEF AggregateRead, rows
  <2>6. CASE AggregateWrite(w)
    BY <2>6, AggregateEffect DEF LedgerInv
  <2>. QED BY <1>4, <2>1, <2>2, <2>3, <2>4, <2>5, <2>6 DEF RowStep
<1>. QED BY <1>1, <1>2, <1>3, <1>4, RowSteps

LEMMA ChargesKept ==
    ASSUME NEW s \in Session,
           \A j \in Job : job_session'[<<j, s>>].attempt
                            = job_session[<<j, s>>].attempt
    PROVE  Charges(s)' = Charges(s)
  BY DEF Charges

LEMMA Charge ==
    ASSUME TypeInv, TypeInv', LedgerInv, NEW c \in Child,
           job_session[c].attempt \in 0..(MaxAttempts - 1),
           job_session'[c].attempt = job_session[c].attempt + 1,
           \A d \in Child \ {c} : job_session'[d] = job_session[d]
    PROVE  LET new == <<c[1], job_session'[c].attempt>>
           IN  /\ new \notin Charges(c[2])
               /\ Charges(c[2])' = Charges(c[2]) \cup {new}
<1> DEFINE a == job_session[c].attempt
<1>1. /\ c = <<c[1], c[2]>> /\ c[1] \in Job /\ c[2] \in Session
      /\ a \in Int /\ 0 <= a /\ a + 1 \in 1..MaxAttempts
  BY AttemptRange, ArchiveAssumption
<1>2. \A j \in Job \ {c[1]} :
        job_session'[<<j, c[2]>>].attempt = job_session[<<j, c[2]>>].attempt
  BY <1>1
<1>3. \A n \in 1..MaxAttempts : n <= a + 1 <=> (n <= a \/ n = a + 1)
  BY <1>1, ArchiveAssumption
<1>. QED BY <1>1, <1>2, <1>3 DEF Charges

LEMMA GiveBack ==
    ASSUME TypeInv, TypeInv', LedgerInv, NEW c \in Child,
           job_session[c].attempt \in 1..MaxAttempts,
           job_session'[c].attempt = job_session[c].attempt - 1,
           \A d \in Child \ {c} : job_session'[d] = job_session[d]
    PROVE  LET old == <<c[1], job_session[c].attempt>>
           IN  /\ old \in Charges(c[2])
               /\ Charges(c[2])' = Charges(c[2]) \ {old}
<1> DEFINE a == job_session[c].attempt
<1>1. /\ c = <<c[1], c[2]>> /\ c[1] \in Job /\ c[2] \in Session
      /\ a \in Int /\ a \in 1..MaxAttempts
  BY ArchiveAssumption
<1>2. \A j \in Job \ {c[1]} :
        job_session'[<<j, c[2]>>].attempt = job_session[<<j, c[2]>>].attempt
  BY <1>1
<1>3. \A n \in 1..MaxAttempts : n <= a - 1 <=> (n <= a /\ n # a)
  BY <1>1, ArchiveAssumption
<1>. QED BY <1>1, <1>2, <1>3 DEF Charges

LEMMA AccountStep ==
    TypeInv /\ LedgerInv /\ AccountInv /\ [Next]_vars => AccountInv'
<1> SUFFICES ASSUME TypeInv, LedgerInv, AccountInv, [Next]_vars
             PROVE  AccountInv'
  OBVIOUS
<1>1. TypeInv'
  BY TypeStep
<1>2. NoErrorYet'
  BY OnlyLoadsOwe DEF AccountInv
<1>3. Accounted'
  <2> SUFFICES ASSUME NEW s \in Session
               PROVE  Accounted!(s)'
    BY DEF Accounted
  <2> DEFINE n == Cardinality(Charges(s))
             o == Cardinality(Owed(s))
             t == ingestion[s].token
  <2>1. /\ IsFiniteSet(Charges(s)) /\ IsFiniteSet(Owed(s))
        /\ n <= t /\ t + o <= n + pauses
    BY DEF AccountInv, Accounted
  <2>2. n \in Nat /\ o \in Nat /\ t \in Nat /\ t' \in Nat /\ pauses \in Nat
    BY <1>1, <2>1, FS_CardinalityType DEF TypeInv, TypeOK, IngestionRow
  (* What is owed: no more than before, or one more by a new pause. *)
  <2>3. /\ IsFiniteSet(Owed(s)')
        /\ o' \in Nat
        /\ \/ NothingOwed /\ pauses' = pauses /\ o' <= o
           \/ /\ \E w \in Worker, e \in Failures : LoadFails(w, e)
              /\ pauses' = pauses + 1 /\ o' <= o + 1
    <3>1. CASE NothingOwed /\ pauses' = pauses
      BY <2>1, <2>2, <3>1, FS_Subset, FS_CardinalityType DEF NothingOwed
    <3>2. ASSUME NEW w \in Worker, NEW e \in Failures, LoadFails(w, e),
                 Owed(s)' \subseteq Owed(s) \cup {w}, pauses' = pauses + 1
          PROVE  <2>3
      <4>1. /\ IsFiniteSet(Owed(s) \cup {w})
            /\ Cardinality(Owed(s) \cup {w}) <= o + 1
        <5>1. CASE w \in Owed(s)
          <6>1. Owed(s) \cup {w} = Owed(s)
            BY <5>1
          <6>2. /\ IsFiniteSet(Owed(s) \cup {w})
                /\ Cardinality(Owed(s) \cup {w}) = o
            BY <2>1, <6>1, Zenon
          <6>. QED BY <2>2, <6>2
        <5>2. CASE w \notin Owed(s)
          <6>1. /\ IsFiniteSet(Owed(s) \cup {w})
                /\ Cardinality(Owed(s) \cup {w}) = Cardinality(Owed(s)) + 1
            BY <2>1, <5>2, FS_AddElement
          <6>. QED BY <2>2, <6>1
        <5>. QED BY <5>1, <5>2
      <4>2. /\ IsFiniteSet(Owed(s)') /\ o' <= Cardinality(Owed(s) \cup {w})
        BY <3>2, <4>1, FS_Subset
      <4>3. o' \in Nat /\ Cardinality(Owed(s) \cup {w}) \in Nat
        BY <4>1, <4>2, FS_CardinalityType
      <4>. QED BY <2>2, <3>2, <4>1, <4>2, <4>3
    <3>. QED BY <3>1, <3>2, OnlyLoadsOwe DEF AccountInv
  <2>4. CASE \E w \in Worker, c \in Child : ClaimNext(w, c)
    <3>1. PICK w \in Worker, c \in Child : ClaimNext(w, c)
      BY <2>4
    <3>2. pauses' = pauses
      BY <3>1 DEF ClaimNext
    <3>3. CASE c[2] = s
      <4>1. /\ job_session[c].attempt \in 0..(MaxAttempts - 1)
            /\ t' = t + 1
        BY <3>1, <3>3, ClaimEffect, BudgetByRow
        DEF Budgeted, LedgerInv, TypeInv
      <4>2. PICK new : new \notin Charges(s) /\ Charges(s)' = Charges(s) \cup {new}
        <5> HIDE DEF n, o, t
        <5>1. /\ job_session'[c].attempt = job_session[c].attempt + 1
              /\ \A d \in Child \ {c} : job_session'[d] = job_session[d]
          BY <3>1, ClaimEffect
        <5>2. PICK new : new \notin Charges(c[2]) /\ Charges(c[2])' = Charges(c[2]) \cup {new}
          BY <1>1, <4>1, <5>1, Charge
        <5>. QED BY <3>3, <5>2
      <4>3. IsFiniteSet(Charges(s)') /\ n' = n + 1
        BY <2>1, <4>2, FS_AddElement
      <4> HIDE DEF n, o, t
      <4>. QED BY <2>1, <2>2, <2>3, <3>2, <4>1, <4>3 DEF n, o, t
    <3>4. CASE c[2] # s
      <4>1. t' = t
        BY <3>1, <3>4, ClaimEffect
      <4>2. \A j \in Job : <<j, s>> \in Child \ {c}
        BY <3>4
      <4>3. Charges(s)' = Charges(s)
        BY <3>1, <4>2, ClaimEffect, ChargesKept
      <4>. QED BY <2>1, <2>2, <2>3, <3>2, <4>1, <4>3
    <3>. QED BY <3>3, <3>4
  <2>5. ASSUME ~ \E w \in Worker, c \in Child : ClaimNext(w, c) PROVE t' = t
    BY <2>5, OnlyClaimsDrawTokens DEF TokensKept
  <2>6. CASE AttemptsKept /\ t' = t
    <3>1. Charges(s)' = Charges(s)
      BY <2>6, ChargesKept DEF AttemptsKept
    <3>. QED BY <2>1, <2>2, <2>3, <2>6, <3>1
  <2>7. ASSUME NEW w \in Worker, NEW delay \in Delays, RecordFailure(w, delay),
               error[w] \in Pausing, t' = t
        PROVE  Accounted!(s)'
    <3> DEFINE c == <<claim[w].job, claim[w].session>>
    <3>1. /\ c \in Child /\ claim[w] # Nil
          /\ c[1] = claim[w].job /\ c[2] = claim[w].session
          /\ job_session[c].status = "running"
          /\ job_session'[c].attempt = job_session[c].attempt - 1
          /\ \A d \in Child \ {c} : job_session'[d] = job_session[d]
      <4>1. /\ c \in Child /\ claim[w] # Nil /\ Owns(claim[w])
            /\ Settled(c, Charged(w), delay)
            /\ \A d \in Child \ {c} : job_session'[d] = job_session[d]
        BY <2>7, FailureEffect
      <4>2. c[1] = claim[w].job /\ c[2] = claim[w].session
        OBVIOUS
      <4>3. job_session[c].status = "running" /\ job_session[c].attempt = claim[w].attempt
        BY <4>1 DEF Owns
      <4>4. job_session'[c].attempt = claim[w].attempt - 1
        BY <2>7, <4>1 DEF Settled, Charged
      <4> HIDE DEF c
      <4>. QED BY <4>1, <4>2, <4>3, <4>4
    <3>2. job_session[c].attempt \in 1..MaxAttempts
      BY <3>1, BudgetByRow DEF Budgeted, LedgerInv, TypeInv
    <3>3. pauses' = pauses /\ claim'[w] = Nil
      BY <2>7 DEF RecordFailure, ToAggregation, TypeInv, TypeOK
    <3> HIDE DEF c
    <3>4. CASE c[2] = s
      <4>1. PICK old \in Charges(s) : Charges(s)' = Charges(s) \ {old}
        BY <1>1, <3>1, <3>2, <3>4, GiveBack
      <4>2. IsFiniteSet(Charges(s)') /\ n' = n - 1
        BY <2>1, <4>1, FS_RemoveElement
      <4>3. w \in Owed(s) /\ w \notin Owed(s)'
        BY <2>7, <3>1, <3>3, <3>4 DEF Owed
      <4>4. Owed(s)' \subseteq Owed(s) \ {w}
        <5>1. NothingOwed
          BY <2>2, <2>3, <3>3
        <5>. QED BY <4>3, <5>1 DEF NothingOwed
      <4>5. IsFiniteSet(Owed(s) \ {w}) /\ Cardinality(Owed(s) \ {w}) = o - 1
        BY <2>1, <4>3, FS_RemoveElement
      <4>6. o' <= o - 1
        BY <4>4, <4>5, FS_Subset
      <4>7. n' \in Nat
        BY <4>2, FS_CardinalityType
      <4> HIDE DEF n, o, t
      <4>. QED BY <2>1, <2>2, <2>3, <2>7, <3>3, <4>2, <4>6, <4>7 DEF n, o, t
    <3>5. CASE c[2] # s
      <4>1. \A j \in Job : <<j, s>> \in Child \ {c}
        BY <3>5
      <4>2. Charges(s)' = Charges(s)
        BY <3>1, <4>1, ChargesKept
      <4>. QED BY <2>1, <2>2, <2>3, <2>7, <4>2
    <3>. QED BY <3>4, <3>5
  <2>. QED BY <2>4, <2>5, <2>6, <2>7, OnlyClaimsCharge
<1>. QED BY <1>2, <1>3 DEF AccountInv

(* Every claim is paid for: the tokens drawn for a session are the         *)
(* attempts its job-sessions are charged with and those that pauses gave   *)
(* back, at most one for each pause there ever was.                        *)
THEOREM ClaimsArePaidFor == Spec => []ClaimsAccounted
<1>1. Init => AccountInv
  <2> SUFFICES ASSUME Init PROVE AccountInv
    OBVIOUS
  <2>1. \A s \in Session : Charges(s) = {} /\ Owed(s) = {}
    BY ArchiveAssumption DEF Init, Charges, Owed, Absent
  <2>2. \A s \in Session : ingestion[s].token = 0 /\ pauses = 0
    BY DEF Init, NoIngestion
  <2>3. NoErrorYet
    BY DEF Init, NoErrorYet
  <2>4. IsFiniteSet({}) /\ Cardinality({}) = 0
    BY FS_EmptySet
  <2>. QED BY <2>1, <2>2, <2>3, <2>4 DEF AccountInv, Accounted
<1>2. Spec => [](TypeInv /\ LedgerInv /\ AccountInv)
  BY <1>1, InitType, TypeStep, LedgerInit, LedgerStep, AccountStep, PTL DEF Spec
<1>3. TypeInv /\ AccountInv => ClaimsAccounted
  <2> SUFFICES ASSUME TypeInv, AccountInv, NEW s \in Session
               PROVE  ClaimsAccounted!(s)
    BY DEF ClaimsAccounted
  <2>1. /\ IsFiniteSet(Charges(s)) /\ IsFiniteSet(Owed(s))
        /\ Cardinality(Charges(s)) <= ingestion[s].token
        /\ ingestion[s].token + Cardinality(Owed(s))
                <= Cardinality(Charges(s)) + pauses
    BY DEF AccountInv, Accounted
  <2>2. /\ Cardinality(Charges(s)) \in Nat /\ Cardinality(Owed(s)) \in Nat
        /\ ingestion[s].token \in Nat /\ pauses \in Nat
    BY <2>1, FS_CardinalityType DEF TypeInv, TypeOK, IngestionRow
  <2>. QED BY <2>1, <2>2
<1>. QED BY <1>2, <1>3, PTL

-----------------------------------------------------------------------------
(* The refinement.  A lease of FencedLease is a running session_ingestions *)
(* row: claims acquire it, replacements publish under it, the failure      *)
(* transition and the recovery drop it, and every other step stutters.     *)

Highest == [s \in Session |-> ingestion[s].token]

LEMMA LeaseInit == Init => Lease!Init
  BY DEF Init, Lease!Init, Held, NoIngestion

LEMMA LeaseStep == ArchiveInv /\ [Next]_vars => [Lease!Next]_(Lease!vars)
<1> SUFFICES ASSUME ArchiveInv, [Next]_vars
             PROVE  Lease!Next \/ UNCHANGED <<Highest, Held, snapshot>>
  BY DEF Lease!vars, Highest
<1> USE DEF ArchiveInv, Highest, Held
<1>0. /\ \A s \in Session : ingestion[s].token \in Nat
      /\ snapshot \in [Session -> Nat]
      /\ snapshot' \in [Session -> Nat]
  BY TypeStep DEF TypeInv, TypeOK, IngestionRow
<1>1. CASE Quiet
  BY <1>1 DEF Quiet
<1>2. CASE PlanCommit
  BY <1>2, PlanEffect
<1>3. CASE Tick
  BY <1>3, TickEffect
<1>4. ASSUME NEW w \in Worker, RowStep(w)
      PROVE  Lease!Next \/ UNCHANGED <<Highest, Held, snapshot>>
  <2>1. ASSUME NEW c \in Child, ClaimNext(w, c) PROVE Lease!Acquire(c[2])
    <3>1. \A s \in Session : Highest'[s] = [Highest EXCEPT ![c[2]] = @ + 1][s]
      BY <2>1, ClaimEffect
    <3>2. \A s \in Session :
            Held'[s] = [Held EXCEPT ![c[2]] = Highest[c[2]] + 1][s]
      BY <2>1, ClaimEffect
    <3>3. Held[c[2]] = 0 /\ snapshot' = snapshot
      BY <2>1, ClaimEffect
    <3>. QED BY <3>1, <3>2, <3>3 DEF Lease!Acquire
  <2>2. ASSUME NEW S \in SUBSET Child, Settles(w, S)
        PROVE  Lease!Drop({c[2] : c \in S})
    <3>1. \A c \in S : Held[c[2]] # 0
      BY <1>0, <2>2, RecoverEffect
      DEF Recoverable, Expired, LedgerInv, DataInv, RunningHasToken
    <3>2. \A s \in Session : ingestion'[s].token = ingestion[s].token
      BY <2>2, RecoverEffect DEF LedgerInv, Settled
    <3>3. \A s \in Session :
            Held'[s] = IF s \in {c[2] : c \in S} THEN 0 ELSE Held[s]
      BY <2>2, RecoverEffect DEF LedgerInv, Settled, SettledStatus
    <3>4. snapshot' = snapshot
      BY <2>2, RecoverEffect DEF LedgerInv
    <3>. QED BY <3>1, <3>2, <3>3, <3>4 DEF Lease!Drop
  <2>3. ASSUME NEW k \in Session, k = claim[w].session, Persist(w)
        PROVE  Lease!Publish(k)
    <3>1. /\ ingestion[k].status = "running"
          /\ ingestion'[k].status = "completed"
          /\ ingestion'[k].token = ingestion[k].token
          /\ snapshot'[k] = ingestion[k].token
          /\ \A s \in Session \ {k} :
                ingestion'[s] = ingestion[s] /\ snapshot'[s] = snapshot[s]
      BY <2>3, PersistEffect DEF Owns
    <3>2. Held[k] # 0 /\ Held[k] = ingestion[k].token
      BY <1>0, <3>1 DEF DataInv, RunningHasToken
    <3>3. \A s \in Session : Held'[s] = [Held EXCEPT ![k] = 0][s]
      BY <3>1
    <3>4. \A s \in Session : snapshot'[s] = [snapshot EXCEPT ![k] = Held[k]][s]
      BY <1>0, <3>1, <3>2
    <3>5. \A s \in Session : Highest'[s] = Highest[s]
      BY <3>1
    <3>6. snapshot' = [snapshot EXCEPT ![k] = Held[k]]
      BY <1>0, <3>4
    <3>. QED BY <3>2, <3>3, <3>5, <3>6 DEF Lease!Publish
  <2>4. ASSUME NEW delay \in Delays, RecordFailure(w, delay),
               NEW k \in Session, k = claim[w].session
        PROVE  Lease!Drop({k})
    <3>1. /\ ingestion[k].status = "running"
          /\ ingestion'[k].status # "running"
          /\ ingestion'[k].token = ingestion[k].token
          /\ \A s \in Session \ {k} : ingestion'[s] = ingestion[s]
          /\ snapshot' = snapshot
      BY <2>4, FailureEffect DEF Owns, Settled, SettledStatus
    <3>2. Held[k] # 0
      BY <1>0, <3>1 DEF DataInv, RunningHasToken
    <3>3. \A s \in Session : Held'[s] = IF s \in {k} THEN 0 ELSE Held[s]
      BY <3>1
    <3>4. \A s \in Session : ingestion'[s].token = ingestion[s].token
      BY <3>1
    <3>. QED BY <3>1, <3>2, <3>3, <3>4 DEF Lease!Drop
  <2>5. CASE Heartbeat(w)
    <3> DEFINE k == claim[w].session
    <3>1. /\ k \in Session
          /\ ingestion[k].status = "running"
          /\ ingestion'[k].status = "running"
          /\ ingestion'[k].token = ingestion[k].token
          /\ \A s \in Session \ {k} : ingestion'[s] = ingestion[s]
          /\ snapshot' = snapshot
      BY <2>5, HeartbeatEffect DEF Owns
    <3> HIDE DEF k
    <3>2. \A s \in Session :
            /\ ingestion'[s].token = ingestion[s].token
            /\ ingestion'[s].status = "running"
                    <=> ingestion[s].status = "running"
      BY <3>1
    <3>. QED BY <3>1, <3>2
  <2>6. CASE \E j \in Job : AggregateRead(w, j)
    BY <2>6 DEF AggregateRead, rows
  <2>7. CASE AggregateWrite(w)
    BY <2>7, AggregateEffect DEF LedgerInv
  <2>8. CASE \E c \in Child : ClaimNext(w, c)
    BY <2>1, <2>8 DEF Lease!Next
  <2>9. CASE \E S \in SUBSET Child : Settles(w, S)
    <3>1. PICK S \in SUBSET Child : Settles(w, S)
      BY <2>9
    <3>2. {c[2] : c \in S} \in SUBSET Session
      BY <3>1
    <3>. QED BY <2>2, <3>1, <3>2 DEF Lease!Next
  <2>10. CASE Persist(w)
    <3>1. PICK k \in Session : k = claim[w].session
      BY <2>10, PersistEffect
    <3>. QED BY <2>3, <2>10, <3>1 DEF Lease!Next
  <2>11. CASE \E delay \in Delays : RecordFailure(w, delay)
    <3>1. PICK k \in Session : k = claim[w].session
      BY <2>11, FailureEffect
    <3>2. Lease!Drop({k}) /\ {k} \in SUBSET Session
      BY <2>4, <2>11, <3>1
    <3>. QED BY <3>2 DEF Lease!Next
  <2>. QED BY <1>4, <2>5, <2>6, <2>7, <2>8, <2>9, <2>10, <2>11 DEF RowStep
<1>. QED BY <1>1, <1>2, <1>3, <1>4, RowSteps

(* The queue implements one fenced lease per session: heartbeats, retries, *)
(* recoveries and late completions together hand out fresh tokens only,    *)
(* and the sporting data of a session is replaced only by the holder of    *)
(* its newest token.                                                       *)
THEOREM FencedLeasePerSession == Spec => ImplementsFencedLease
<1>1. ArchiveInv /\ [Next]_vars => [Lease!Next]_(Lease!vars)
  BY LeaseStep
<1>. QED BY <1>1, LeaseInit, ArchiveInvariant, PTL
         DEF Spec, ImplementsFencedLease, Lease!Spec

=============================================================================
