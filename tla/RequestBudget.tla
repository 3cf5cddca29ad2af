---------------------------- MODULE RequestBudget ----------------------------
(***************************************************************************)
(* The local FastF1 request budget (backend/app/ingestion: request_budget, *)
(* fastf1_loader, and the request gate in backfill_orchestration): a       *)
(* ledger of outbound sends in a rolling window, and the gate row that     *)
(* closes when the window is full or FastF1 reports its rate limit.  The   *)
(* archive workers, the API (schedules) and telemetry loads share both.    *)
(*                                                                         *)
(* Every operation of the budget locks the gate row first, so each is one  *)
(* action.  The send itself comes after reserve()'s commit and may be      *)
(* delayed: it is an action of its own.  _LOAD_LOCK gives a process one    *)
(* load at a time, so a process is one client with one position.           *)
(*                                                                         *)
(* Rows store timestamps; the model stores distances to now, in ticks: the *)
(* age of a ledger row, and how long a gate or a pause still lasts.  Rows  *)
(* older than the window are never counted, and are dropped at once (the   *)
(* code prunes them after 24 hours).                                       *)
(***************************************************************************)
EXTENDS Integers, Sequences, FiniteSets

CONSTANTS
    Archive,        \* archive workers: claim through the gate
    Other,          \* API and telemetry loads: do not ask the gate first
    Window,         \* fastf1_request_window_seconds, in ticks
    Ceiling,        \* fastf1_request_operational_ceiling
    Cooldown,       \* fastf1_rate_limit_cooldown, in ticks
    MinInterval,    \* archive_session_min_interval, in ticks
    Need,           \* cache misses a load may have
    MaxLoads,       \* bound: loads that begin with an empty cache
    MaxLimits,      \* bound: rate limits reported by FastF1
    MaxFailures     \* bound: loads that end with another error

Client == Archive \cup Other

ASSUME BudgetAssumption ==
    /\ Archive \cap Other = {}
    /\ IsFiniteSet(Client)
    /\ Window \in Nat \ {0}
    /\ Ceiling \in Nat \ {0}
    /\ Cooldown \in Nat \ {0}
    /\ MinInterval \in 0..(Cooldown - 1)
    /\ Need \subseteq Nat \ {0}
    /\ MaxLoads \in Nat
    /\ MaxLimits \in Nat
    /\ MaxFailures \in Nat

VARIABLES
    gate,       \* the fastf1_archive row of upstream_request_gates
    ledger,     \* ages of the rows of upstream_request_events, newest first
    sent,       \* ages of the sends that really left, newest first
    missing,    \* client -> cache misses left of the load it has to do
    pc,         \* client -> where it is
    retry_at,   \* client -> ticks to the retry_at of a refused reservation
    cooling,    \* ticks left of the last rate limit the gate recorded
    loads, limits, failures      \* counted against their bounds

budget == <<gate, ledger>>
counters == <<loads, limits, failures>>
vars == <<gate, ledger, sent, missing, pc, retry_at, cooling,
          loads, limits, failures>>

Pausing == {"rate_limit", "budget"}

TypeOK ==
    /\ gate \in [wait: Nat, reason: {"pacing"} \cup Pausing]
    /\ ledger \in Seq(0..Window)
    /\ sent \in Seq(0..Window)
    /\ missing \in [Client -> Nat]
    /\ pc \in [Client -> {"idle", "loading", "sending", "refused", "limited"}]
    /\ retry_at \in [Client -> Nat]
    /\ cooling \in Nat
    /\ loads \in Nat /\ limits \in Nat /\ failures \in Nat

Init ==
    /\ gate = [wait |-> 0, reason |-> "pacing"]
    /\ ledger = <<>>
    /\ sent = <<>>
    /\ missing = [c \in Client |-> 0]
    /\ pc = [c \in Client |-> "idle"]
    /\ retry_at = [c \in Client |-> 0]
    /\ cooling = 0
    /\ loads = 0 /\ limits = 0 /\ failures = 0

-----------------------------------------------------------------------------
(* Loads. *)

(* A session, schedule or lap that is not in the cache has to be loaded.   *)
NewLoad(c, n) ==
    /\ missing[c] = 0
    /\ loads < MaxLoads
    /\ loads' = loads + 1
    /\ missing' = [missing EXCEPT ![c] = n]
    /\ UNCHANGED <<budget, sent, pc, retry_at, cooling, limits, failures>>

(* Mutant: a gate that a pause has closed is not open when its time is up. *)
ClaimWhenPacing(c) ==
    /\ c \in Archive
    /\ pc[c] = "idle"
    /\ missing[c] > 0
    /\ gate.wait = 0 /\ gate.reason = "pacing"
    /\ gate' = [wait |-> MinInterval, reason |-> "pacing"]
    /\ pc' = [pc EXCEPT ![c] = "loading"]
    /\ UNCHANGED <<ledger, sent, missing, retry_at, cooling, counters>>

(* Mutant: a session is claimed whatever the gate says. *)
ClaimUngated(c) ==
    /\ c \in Archive
    /\ pc[c] = "idle"
    /\ missing[c] > 0
    /\ gate' = [wait |-> MinInterval, reason |-> "pacing"]
    /\ pc' = [pc EXCEPT ![c] = "loading"]
    /\ UNCHANGED <<ledger, sent, missing, retry_at, cooling, counters>>

(* The gate's part of claim_next_archive_job_session. *)
Claim(c) ==
    /\ c \in Archive
    /\ pc[c] = "idle"
    /\ missing[c] > 0
    /\ gate.wait = 0
    /\ gate' = [wait |-> MinInterval, reason |-> "pacing"]
    /\ pc' = [pc EXCEPT ![c] = "loading"]
    /\ UNCHANGED <<ledger, sent, missing, retry_at, cooling, counters>>

(* A schedule or telemetry load enters serialized_fastf1_access. *)
Begin(c) ==
    /\ c \in Other
    /\ pc[c] = "idle"
    /\ missing[c] > 0
    /\ pc' = [pc EXCEPT ![c] = "loading"]
    /\ UNCHANGED <<budget, sent, missing, retry_at, cooling, counters>>

-----------------------------------------------------------------------------
(* FastF1RequestBudget.reserve, before each send that misses the cache. *)

Closed == gate.reason \in Pausing /\ gate.wait > 0

Full == Len(ledger) >= Ceiling

(* Mutant: waits for the newest row, max for min. *)
NextCapacityLast == Window - ledger[1]

(* The oldest row in the window leaves it. *)
NextCapacity == Window - ledger[Len(ledger)]

Later(a, b) == IF a >= b THEN a ELSE b

Refuse(c, wait) ==
    /\ retry_at' = [retry_at EXCEPT ![c] = wait]
    /\ pc' = [pc EXCEPT ![c] = "refused"]
    /\ UNCHANGED <<ledger, sent, missing, cooling, counters>>

ReserveClosed(c) ==
    /\ pc[c] = "loading" /\ missing[c] > 0
    /\ Closed
    /\ Refuse(c, gate.wait)
    /\ UNCHANGED gate

ReserveFull(c) ==
    /\ pc[c] = "loading" /\ missing[c] > 0
    /\ ~Closed
    /\ Full
    /\ Refuse(c, NextCapacity)
    /\ gate' = [wait |-> Later(gate.wait, NextCapacity), reason |-> "budget"]

Reserve(c) ==
    /\ pc[c] = "loading" /\ missing[c] > 0
    /\ ~Closed
    /\ ~Full
    /\ ledger' = <<0>> \o ledger
    /\ gate' = IF gate.reason = "budget"
               THEN [wait |-> 0, reason |-> "pacing"] ELSE gate
    /\ pc' = [pc EXCEPT ![c] = "sending"]
    /\ UNCHANGED <<sent, missing, retry_at, cooling, counters>>

(* The request leaves.  Its response is cached, or FastF1 reports its rate *)
(* limit, or the request fails and the load with it.                       *)
Send(c) ==
    /\ pc[c] = "sending"
    /\ sent' = <<0>> \o sent
    /\ \/ /\ missing' = [missing EXCEPT ![c] = @ - 1]
          /\ pc' = [pc EXCEPT ![c] = "loading"]
          /\ UNCHANGED <<limits, failures>>
       \/ /\ limits < MaxLimits
          /\ limits' = limits + 1
          /\ pc' = [pc EXCEPT ![c] = "limited"]
          /\ UNCHANGED <<missing, failures>>
       \/ /\ failures < MaxFailures
          /\ failures' = failures + 1
          /\ pc' = [pc EXCEPT ![c] = "idle"]
          /\ UNCHANGED <<missing, limits>>
    /\ UNCHANGED <<budget, retry_at, cooling, loads>>

-----------------------------------------------------------------------------
(* The end of a load. *)

Finish(c) ==
    /\ pc[c] = "loading" /\ missing[c] = 0
    /\ pc' = [pc EXCEPT ![c] = "idle"]
    /\ UNCHANGED <<budget, sent, missing, retry_at, cooling, counters>>

(* The gate's part of transition_archive_job_failure. *)
PauseUntil(wait, reason) ==
    gate' = [wait |-> Later(gate.wait, wait), reason |-> reason]

RecordBudget(c) ==
    /\ c \in Archive
    /\ pc[c] = "refused"
    /\ PauseUntil(retry_at[c], "budget")
    /\ retry_at' = [retry_at EXCEPT ![c] = 0]
    /\ pc' = [pc EXCEPT ![c] = "idle"]
    /\ UNCHANGED <<ledger, sent, missing, cooling, counters>>

RecordRateLimit(c) ==
    /\ c \in Archive
    /\ pc[c] = "limited"
    /\ PauseUntil(Cooldown, "rate_limit")
    /\ cooling' = Cooldown
    /\ pc' = [pc EXCEPT ![c] = "idle"]
    /\ UNCHANGED <<ledger, sent, missing, retry_at, counters>>

(* A schedule or telemetry load reports its error to its caller; only the  *)
(* archive's failures are written to the gate.                             *)
Report(c) ==
    /\ c \in Other
    /\ pc[c] \in {"refused", "limited"}
    /\ retry_at' = [retry_at EXCEPT ![c] = 0]
    /\ pc' = [pc EXCEPT ![c] = "idle"]
    /\ UNCHANGED <<budget, sent, missing, cooling, counters>>

(* The process dies, or its attempt ends with an error of another kind. *)
Drop(c) ==
    /\ pc[c] # "idle"
    /\ failures < MaxFailures
    /\ failures' = failures + 1
    /\ retry_at' = [retry_at EXCEPT ![c] = 0]
    /\ pc' = [pc EXCEPT ![c] = "idle"]
    /\ UNCHANGED <<budget, sent, missing, cooling, loads, limits>>

-----------------------------------------------------------------------------
(* Time. *)

Sooner(wait) == IF wait > 0 THEN wait - 1 ELSE 0

(* Mutant: a row leaves the window one tick early. *)
InWindowShort(ages) == {i \in 1..Len(ages) : ages[i] + 1 < Window}

(* The rows that are still in the window one tick later: requested_at is   *)
(* not before the cutoff.                                                  *)
InWindow(ages) == {i \in 1..Len(ages) : ages[i] < Window}

(* Ages grow from the front, so the rows that stay are a prefix. *)
Aged(ages) == [i \in 1..Cardinality(InWindow(ages)) |-> ages[i] + 1]

(* The same for what really left, whatever the ledger says. *)
AgedSends(ages) ==
    [i \in 1..Cardinality({k \in 1..Len(ages) : ages[k] < Window}) |->
        ages[i] + 1]

Tick ==
    /\ ledger' = Aged(ledger)
    /\ sent' = AgedSends(sent)
    /\ gate' = [wait |-> Sooner(gate.wait), reason |-> gate.reason]
    /\ retry_at' = [c \in Client |-> Sooner(retry_at[c])]
    /\ cooling' = Sooner(cooling)
    /\ UNCHANGED <<missing, pc, counters>>

Proceed(c) ==
    \/ ReserveClosed(c)
    \/ ReserveFull(c)
    \/ Reserve(c)
    \/ Send(c)
    \/ Finish(c)
    \/ RecordBudget(c)
    \/ RecordRateLimit(c)
    \/ Report(c)

ClientNext(c) ==
    \/ \E n \in Need : NewLoad(c, n)
    \/ Claim(c)
    \/ Begin(c)
    \/ Proceed(c)
    \/ Drop(c)

Next ==
    \/ \E c \in Client : ClientNext(c)
    \/ Tick

Spec == Init /\ [][Next]_vars

(* Time passes, a load under way goes on, and an idle worker tries to      *)
(* claim again and again.  Schedule and telemetry loads may stop trying.   *)
FairSpec ==
    /\ Spec
    /\ WF_vars(Tick)
    /\ \A c \in Client : WF_vars(Proceed(c))
    /\ \A c \in Archive : SF_vars(Claim(c))

-----------------------------------------------------------------------------
(* Properties. *)

(* However reservations interleave, the window never holds more ledger     *)
(* rows than the operational ceiling.                                      *)
LedgerBounded == Len(ledger) <= Ceiling

(* The sends themselves trail their reservations, so a window can see more *)
(* of them than reservations: those the ledger allows, and the one each    *)
(* process may have been holding back.  The ceiling's distance to the      *)
(* library limit has to cover that.                                        *)
SendsBounded == Len(sent) <= Ceiling + Cardinality(Client)

(* A recorded rate limit is waited for to its end: no claim, pause or      *)
(* reservation of another process shortens it or reopens the gate.         *)
CooldownRespected ==
    cooling > 0 => gate.reason \in Pausing /\ gate.wait >= cooling

(* What a wait is for: the rest of a recorded rate limit, the pacing of    *)
(* claims, or the time until the oldest reservation leaves the window.     *)
Cause(wait) ==
    \/ wait <= cooling
    \/ wait <= MinInterval
    \/ ledger # <<>> /\ ledger[Len(ledger)] + wait <= Window

(* No pause outlasts its cause: whatever refusals, late records of them,   *)
(* rate limits and claims do to the one row, also when a worker records a  *)
(* refusal long after the gate was opened and closed again.                *)
PausesJustified == Closed => Cause(gate.wait)

(* Under FairSpec an archive load gets all its requests through, also one  *)
(* that needs more than a window allows, whatever pauses, rate limits and  *)
(* rivals it meets: what it has fetched stays in the cache.                *)
LoadsEnd == \A c \in Archive : missing[c] > 0 ~> missing[c] = 0

=============================================================================
