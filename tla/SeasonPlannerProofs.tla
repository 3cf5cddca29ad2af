------------------------ MODULE SeasonPlannerProofs ------------------------
(***************************************************************************)
(* What SeasonPlanner's runs check on a small season, proved for any       *)
(* number of events, sessions, API requests and upstream changes: the      *)
(* schedule in force never goes back, places every curated event once      *)
(* unless the index lists it without a number, and causes no load without  *)
(* a new reason.                                                           *)
(***************************************************************************)
EXTENDS SeasonPlanner, FiniteSetTheorems, TLAPS

(* The ends that upstream may give a session with this key.                *)
Ends(key) ==
    {t \in Int : \E m \in Championship(Meeting) : \E i \in Usable(m) :
        m.sessions[i].key = key /\ m.sessions[i].end = t}

Met(meetings, e) == \E m \in meetings : m.event = e

(* A load in progress: an event it has dealt with has meetings or is       *)
(* deferred, and what it has read is at most MaxHold ticks old.            *)
Loading(l) ==
    /\ l.at # None /\ l.at <= now /\ now <= l.at + MaxHold
    /\ l.todo \subseteq l.known /\ l.later \subseteq l.known
    /\ l.todo \cap l.later = {}
    /\ \A e \in l.known :
           Met(l.meetings, e) <=> e \notin l.todo /\ e \notin l.later

(* A loaded schedule: every curated event has sessions of its round, is    *)
(* deferred or was passed over, and only one of these.                     *)
Placed(new) ==
    /\ new.later \subseteq new.members
    /\ new.skipped \cap new.later = {}
    /\ \A s \in DOMAIN new.sessions :
           /\ new.sessions[s].end \in Ends(s[2])
           /\ new.sessions[s].event \in new.members \ new.later
           /\ new.sessions[s].event \notin new.skipped
           /\ s[1] = RoundOf(new.sessions[s].event, new.members)
    /\ \A e \in new.members \ (new.later \cup new.skipped) :
           \E s \in DOMAIN new.sessions : s[1] = RoundOf(e, new.members)

(* The season row, and that no session was seen after it was checked.      *)
CoverageInv ==
    /\ \/ season.checked = None /\ season.valid = None /\ reads = None
       \/ /\ season.checked # None /\ season.checked <= now
          /\ season.valid = season.checked + CoverageTTL
          /\ reads <= season.checked
    /\ \A s \in Slot :
           /\ race_session[s].seen <= season.checked
           /\ race_session[s].seen # None =>
                  race_session[s].end \in Ends(s[2])

(* One planner: what it loaded is at most MaxHold ticks old, and the        *)
(* holder of the advisory lock still has the decision it took, since       *)
(* nobody else may change the coverage.                                    *)
Sound(l) ==
    /\ l.pc = "detail" => Loading(l)
    /\ l.pc # "detail" => l.later = {}
    /\ l.loaded # Nil => /\ l.loaded.read <= now
                         /\ now <= l.loaded.read + MaxHold
                         /\ Placed(l.loaded)
    /\ l.pc \in {"rows", "write", "plan"} => l.at # None /\ l.at <= now
    /\ l.pc \in {"rows", "write"} =>
           l.loaded # Nil /\ Due(l.at) /\ l.loaded.read <= l.at
    /\ l.pc = "plan" => season.checked # None

PlannerInv == \A p \in Planner : Sound(planner[p])

(* The corrections a slot's data satisfy, and that there is a reason to    *)
(* load them by time t.                                                    *)
Satisfied(s) == {d \in Corrections(s) : d <= ingestion[s].completed}

Wanted(s, t) ==
    \/ ingestion[s].completed = None
    \/ \E d \in Corrections(s) : ingestion[s].completed < d /\ d <= t

(* Each load but the first has satisfied a correction; what is queued or   *)
(* under way has a reason.                                                 *)
ArchiveInv ==
    /\ \A s \in Slot :
           /\ ingestion[s].completed <= now
           /\ ingestion[s].completed = None => loads[s] = 0
           /\ loads[s] <= 1 + Cardinality(Satisfied(s))
           /\ job[s] = "pending" => Wanted(s, now)
    /\ persisting.pc = "fetch" =>
           persisting.slot \in Slot /\ Wanted(persisting.slot, now)
    /\ persisting.pc = "stamped" =>
           /\ persisting.slot \in Slot
           /\ persisting.at # None /\ persisting.at <= now
           /\ Wanted(persisting.slot, persisting.at)

Inv == /\ TypeOK
       /\ PlannerInv /\ CoverageInv /\ ArchiveInv
       /\ EveryEventPlaced

-----------------------------------------------------------------------------
(* The curated schedule's numbering gives each of its events a round of    *)
(* its own, from 1 to their number.                                        *)
LEMMA RoundRange ==
    ASSUME NEW C \in SUBSET Event, NEW e \in C
    PROVE  /\ RoundOf(e, C) \in 1 .. Cardinality(C)
           /\ RoundOf(e, C) \in Round
<1> DEFINE upto == {f \in C : Order[f] <= Order[e]}
<1>1. /\ IsFiniteSet(C) /\ Cardinality(C) \in Nat
      /\ Cardinality(Event) \in Nat /\ Cardinality(C) <= Cardinality(Event)
  BY ScheduleAssumption, FS_Subset, FS_CardinalityType
<1>2. /\ IsFiniteSet(upto) /\ Cardinality(upto) \in Nat
      /\ Cardinality(upto) <= Cardinality(C)
  BY <1>1, FS_Subset, FS_CardinalityType, upto \in SUBSET C
<1>3. e \in upto
  BY ScheduleAssumption
<1>4. Cardinality(upto) # 0
  BY <1>2, <1>3, FS_EmptySet
<1> QED
  BY <1>1, <1>2, <1>4 DEF RoundOf, Round

LEMMA RoundsDiffer ==
    ASSUME NEW C \in SUBSET Event, NEW e \in C, NEW f \in C,
           RoundOf(e, C) = RoundOf(f, C)
    PROVE  e = f
<1> DEFINE Upto(g) == {h \in C : Order[h] <= Order[g]}
<1>1. Order[e] \in Nat /\ Order[f] \in Nat
  BY ScheduleAssumption
<1>2. IsFiniteSet(C)
  BY ScheduleAssumption, FS_Subset
<1>3. ASSUME NEW g \in C, NEW h \in C, Order[g] <= Order[h],
             RoundOf(g, C) = RoundOf(h, C)
      PROVE  Order[h] <= Order[g]
  <2>1. Upto(g) \subseteq Upto(h)
    BY <1>3, ScheduleAssumption
  <2>2. IsFiniteSet(Upto(h))
    BY <1>2, FS_Subset, Upto(h) \in SUBSET C
  <2>3. Upto(g) = Upto(h)
    BY <1>3, <2>1, <2>2, FS_Subset DEF RoundOf
  <2>4. h \in Upto(h)
    BY ScheduleAssumption
  <2> QED
    BY <2>3, <2>4
<1>4. Order[e] = Order[f]
  BY <1>1, <1>3
<1> QED
  BY <1>4, ScheduleAssumption

(* What normalisation makes of an acceptable index: a schedule in which    *)
(* each session belongs to an event with a numbered entry, in that event's *)
(* round.                                                                  *)
LEMMA ScheduledOK ==
    ASSUME NEW C \in SUBSET Event, NEW M \in SUBSET Meeting,
           Acceptable(M, C)
    PROVE  /\ Scheduled(M, C) \in Schedule
           /\ \A s \in DOMAIN Scheduled(M, C) :
                  /\ Scheduled(M, C)[s].end \in Ends(s[2])
                  /\ Scheduled(M, C)[s].event \in C
                  /\ Met(Championship(M), Scheduled(M, C)[s].event)
                  /\ s[1] = RoundOf(Scheduled(M, C)[s].event, C)
           /\ \A e \in C : Met(Championship(M), e) =>
                  \E s \in DOMAIN Scheduled(M, C) : s[1] = RoundOf(e, C)
<1> DEFINE
      Sessions(m) ==
        {[slot |-> <<RoundOf(m.event, C), m.sessions[i].key>>,
          event |-> m.event, end |-> m.sessions[i].end] : i \in Usable(m)}
      listed == UNION {Sessions(m) : m \in Championship(M)}
      all == {x.slot : x \in listed}
      S == Scheduled(M, C)
<1>1. /\ S = [slot \in all |-> CHOOSE x \in listed : x.slot = slot]
      /\ DOMAIN S = all
  BY DEF Scheduled
<1>2. ASSUME NEW x \in listed
      PROVE  \E m \in Championship(M) : \E i \in Usable(m) :
                 x = [slot |-> <<RoundOf(m.event, C), m.sessions[i].key>>,
                      event |-> m.event, end |-> m.sessions[i].end]
  OBVIOUS
<1>3. ASSUME NEW m \in Championship(M), NEW i \in Usable(m)
      PROVE  /\ m \in Championship(Meeting) /\ m \in M
             /\ m.event \in C
             /\ m.sessions[i].key \in Key /\ m.sessions[i].end \in Int
             /\ m.sessions[i].end \in Ends(m.sessions[i].key)
  BY PlannerAssumption DEF Championship, Acceptable, Ends
<1>4. ASSUME NEW x \in listed
      PROVE  /\ x \in [slot: Slot, event: Event, end: Int]
             /\ x.end \in Ends(x.slot[2]) /\ x.event \in C
             /\ Met(Championship(M), x.event)
             /\ x.slot[1] = RoundOf(x.event, C)
  <2>1. PICK m \in Championship(M) : \E i \in Usable(m) :
                 x = [slot |-> <<RoundOf(m.event, C), m.sessions[i].key>>,
                      event |-> m.event, end |-> m.sessions[i].end]
    BY <1>2
  <2>2. PICK i \in Usable(m) :
                 x = [slot |-> <<RoundOf(m.event, C), m.sessions[i].key>>,
                      event |-> m.event, end |-> m.sessions[i].end]
    BY <2>1
  <2>3. /\ m \in M /\ m.event \in C
        /\ m.sessions[i].key \in Key /\ m.sessions[i].end \in Int
        /\ m.sessions[i].end \in Ends(m.sessions[i].key)
    BY <1>3
  <2>4. RoundOf(m.event, C) \in Round
    BY <2>3, RoundRange
  <2> HIDE DEF listed
  <2> QED
    BY <2>2, <2>3, <2>4 DEF Slot, Met
<1>5. ASSUME NEW s \in all
      PROVE  S[s] \in listed /\ S[s].slot = s
  <2>1. \E x \in listed : x.slot = s
    OBVIOUS
  <2> HIDE DEF listed
  <2>2. S[s] = CHOOSE x \in listed : x.slot = s
    BY <1>1
  <2> QED
    BY <2>1, <2>2
<1>6. all \in SUBSET Slot
  <2> HIDE DEF listed
  <2> QED
    BY <1>4
<1>7. S \in Schedule
  <2> HIDE DEF listed, all, S
  <2>1. S \in [all -> [slot: Slot, event: Event, end: Int]]
    BY <1>1, <1>4, <1>5
  <2> QED
    BY <1>6, <2>1 DEF Schedule
<1>8. \A s \in DOMAIN S :
          /\ S[s].end \in Ends(s[2]) /\ S[s].event \in C
          /\ Met(Championship(M), S[s].event)
          /\ s[1] = RoundOf(S[s].event, C)
  <2> HIDE DEF listed, all, S
  <2> QED
    BY <1>1, <1>4, <1>5
<1>9. ASSUME NEW e \in C, Met(Championship(M), e)
      PROVE  \E s \in DOMAIN S : s[1] = RoundOf(e, C)
  <2>1. PICK m \in Championship(M) : m.event = e
    BY <1>9 DEF Met
  <2>3. PICK i : i \in Usable(m)
    BY <2>1 DEF Acceptable, WellFormed
  <2>4. [slot |-> <<RoundOf(m.event, C), m.sessions[i].key>>,
         event |-> m.event, end |-> m.sessions[i].end] \in listed
    BY <2>1, <2>3
  <2> HIDE DEF listed
  <2>5. <<RoundOf(m.event, C), m.sessions[i].key>> \in all
    BY <2>4
  <2> QED
    BY <1>1, <2>1, <2>5
<1> QED
  BY <1>7, <1>8, <1>9

-----------------------------------------------------------------------------
(* TypeOK in two parts: the rows, and the planners with the lock.          *)
RowTypes ==
    /\ now \in Times
    /\ index \subseteq Meeting /\ details \subseteq Meeting
    /\ curated \subseteq Event
    /\ season \in [checked: Stamps, valid: Int]
    /\ race_session \in [Slot -> [seen: Stamps, end: Int,
                                  event: Event \cup {Nil}]]
    /\ deferred \in [Round -> Stamps]
    /\ ingestion \in [Slot -> [status: Status, completed: Stamps,
                               about: Event \cup {Nil}]]
    /\ job \in [Slot -> Status]
    /\ persisting \in [pc: {"idle", "fetch", "stamped", "aggregate"},
                       slot: Slot \cup {Nil}, at: Stamps,
                       about: Event \cup {Nil}]
    /\ reads \in Stamps /\ members \subseteq Event /\ skipped \subseteq Event
    /\ loads \in [Slot -> Nat]
    /\ changes \in 0 .. MaxChanges /\ failures \in 0 .. MaxFailures

LockHeld(l) == l.pc \in {"rows", "write", "plan"}

PlannerTypes ==
    /\ planner \in [Planner -> Memory]
    /\ advisory \in Planner \cup {Nil}
    /\ \A p \in Planner : LockHeld(planner[p]) <=> advisory = p

LEMMA TypesSplit == TypeOK <=> RowTypes /\ PlannerTypes
  BY DEF TypeOK, RowTypes, PlannerTypes, LockHeld

LEMMA TypesSplitNext == TypeOK' <=> RowTypes' /\ PlannerTypes'
  BY DEF TypeOK, RowTypes, PlannerTypes, LockHeld

LEMMA IdleSound ==
    /\ Idle \in Memory
    /\ Idle.pc = "idle" /\ Idle.later = {} /\ Idle.loaded = Nil
    /\ ~LockHeld(Idle)
    /\ Sound(Idle) /\ Sound(Idle)'
  BY DEF Idle, Memory, LockHeld, Stamps, Sound

(* A step of one planner leaves the others as they were: as long as the    *)
(* clock stands still, and the season row does unless it holds the lock.   *)
LEMMA OnePlanner ==
    ASSUME PlannerTypes, PlannerInv, NEW p \in Planner, NEW l \in Memory,
           planner' = [planner EXCEPT ![p] = l],
           Sound(l)', now' = now, season' = season \/ advisory = p,
           IF LockHeld(l) THEN advisory' = p /\ advisory \in {p, Nil}
           ELSE advisory' = IF advisory = p THEN Nil ELSE advisory
    PROVE  PlannerTypes' /\ PlannerInv'
<1>1. /\ planner' \in [Planner -> Memory] /\ planner'[p] = l
      /\ \A q \in Planner \ {p} : planner'[q] = planner[q]
      /\ advisory' \in Planner \cup {Nil}
  BY DEF PlannerTypes
<1>2. Nil \notin Planner
  BY PlannerAssumption
<1>3. ASSUME NEW q \in Planner PROVE LockHeld(planner'[q]) <=> advisory' = q
  <2>1. CASE q = p
    BY <1>1, <1>2, <2>1 DEF PlannerTypes
  <2>2. CASE q # p
    BY <1>1, <1>2, <2>2 DEF PlannerTypes
  <2> QED
    BY <2>1, <2>2
<1>4. PlannerTypes'
  <2>1. \A q \in Planner : LockHeld(planner[q])' <=> LockHeld(planner'[q])
    BY DEF LockHeld
  <2> QED
    BY <1>1, <1>3, <2>1 DEF PlannerTypes
<1>5. ASSUME NEW q \in Planner PROVE Sound(planner[q])'
  <2>1. CASE q = p
    <3>1. planner'[q] = l
      BY <1>1, <2>1
    <3> QED
      BY <3>1 DEF Sound, Loading, Due
  <2>2. CASE q # p
    <3>1. planner'[q] = planner[q] /\ Sound(planner[q])
      BY <1>1, <2>2 DEF PlannerInv
    <3>2. CASE season' = season
      BY <3>1, <3>2 DEF Sound, Loading, Due
    <3>3. CASE advisory = p
      <4>1. ~LockHeld(planner[q])
        BY <2>2, <3>3 DEF PlannerTypes
      <4> QED
        BY <3>1, <4>1 DEF Sound, Loading, LockHeld
    <3> QED
      BY <3>2, <3>3
  <2> QED
    BY <2>1, <2>2
<1> QED
  BY <1>4, <1>5 DEF PlannerInv

(* Rows that do not change keep what is said of them, as time passes.      *)
LEMMA CoverageStays ==
    ASSUME RowTypes, CoverageInv, EveryEventPlaced, UNCHANGED coverage,
           now' \in Times, now <= now'
    PROVE  CoverageInv' /\ EveryEventPlaced'
<1>1. CoverageInv'
  BY DEF CoverageInv, coverage, RowTypes, Times, Stamps, None
<1>2. EveryEventPlaced'
  BY DEF EveryEventPlaced, Current, coverage
<1> QED
  BY <1>1, <1>2

LEMMA ArchiveStays ==
    ASSUME RowTypes, ArchiveInv, UNCHANGED archive,
           now' \in Times, now <= now'
    PROVE  ArchiveInv'
<1>1. /\ ingestion' = ingestion /\ job' = job /\ persisting' = persisting
      /\ loads' = loads
  BY DEF archive
<1>2. ASSUME NEW s \in Slot, NEW t \in Stamps, NEW u \in Stamps, t <= u,
             Wanted(s, t)
      PROVE  Wanted(s, u)'
  BY <1>1, <1>2 DEF Wanted, RowTypes, Corrections, Times, Stamps, None
<1>3. \A s \in Slot : Satisfied(s)' = Satisfied(s)
  BY <1>1 DEF Satisfied
<1>4. ASSUME NEW s \in Slot
      PROVE  /\ ingestion'[s].completed <= now'
             /\ ingestion'[s].completed = None => loads'[s] = 0
             /\ loads'[s] <= 1 + Cardinality(Satisfied(s))'
             /\ job'[s] = "pending" => Wanted(s, now)'
  BY <1>1, <1>2, <1>3 DEF ArchiveInv, RowTypes, Times, Stamps, None
<1> QED
  BY <1>1, <1>2, <1>4 DEF ArchiveInv, RowTypes, Times, Stamps, None

(* A step of a planner that touches no row.                                *)
LEMMA PlannerStep ==
    ASSUME Inv, NEW p \in Planner, NEW l \in Memory,
           planner' = [planner EXCEPT ![p] = l], Sound(l)',
           IF LockHeld(l) THEN advisory' = p /\ advisory \in {p, Nil}
           ELSE advisory' = IF advisory = p THEN Nil ELSE advisory,
           UNCHANGED <<now, upstream, archive, coverage>>,
           failures' \in 0 .. MaxFailures
    PROVE  Inv'
<1>1. RowTypes /\ PlannerTypes /\ PlannerInv
  BY TypesSplit DEF Inv
<1>2. now' = now /\ season' = season
  BY DEF coverage
<1>3. PlannerTypes' /\ PlannerInv'
  BY <1>1, <1>2, OnePlanner
<1>4. RowTypes'
  BY <1>1 DEF RowTypes, upstream, archive, coverage
<1>5. now' \in Times /\ now <= now'
  BY <1>1, <1>2 DEF RowTypes, Times
<1>6. CoverageInv' /\ EveryEventPlaced'
  BY <1>1, <1>5, CoverageStays DEF Inv
<1>7. ArchiveInv'
  BY <1>1, <1>5, ArchiveStays DEF Inv
<1> QED
  BY <1>3, <1>4, <1>6, <1>7, TypesSplitNext DEF Inv

LEMMA InitOK == Init => Inv
<1> SUFFICES ASSUME Init PROVE Inv
  OBVIOUS
<1>1. \A p \in Planner : planner[p] = Idle
  BY DEF Init
<1>2. PlannerTypes
  BY <1>1, IdleSound, PlannerAssumption DEF Init, PlannerTypes
<1>3. PlannerInv
  BY <1>1, IdleSound DEF PlannerInv
<1>4. RowTypes
  BY PlannerAssumption DEF Init, RowTypes, Times, Stamps, Unseen, NoIngestion,
     NotPersisting, Status, None
<1>5. CoverageInv
  BY DEF Init, CoverageInv, Unseen, None
<1>6. EveryEventPlaced
  BY DEF Init, EveryEventPlaced, Current
<1>7. ArchiveInv
  <2>1. ASSUME NEW s \in Slot PROVE Cardinality(Satisfied(s)) = 0
    <3>1. Satisfied(s) = {}
      BY DEF Satisfied, Init, NoIngestion, Corrections, Times, None
    <3> QED
      BY <3>1, FS_EmptySet
  <2>2. \A s \in Slot : /\ ingestion[s].completed = None /\ loads[s] = 0
                         /\ job[s] = "absent"
    BY DEF Init, NoIngestion
  <2>3. now = 0 /\ persisting.pc = "idle"
    BY DEF Init, NotPersisting
  <2> QED
    BY <2>1, <2>2, <2>3 DEF ArchiveInv, None
<1> QED
  BY <1>2, <1>3, <1>4, <1>5, <1>6, <1>7, TypesSplit DEF Inv

-----------------------------------------------------------------------------
(* The check without a lock, and the load. *)

LEMMA MemoryFields ==
    ASSUME NEW l \in Memory
    PROVE  /\ l.pc \in {"idle", "check", "load", "detail", "lock", "rows",
                       "write", "plan"}
           /\ l.tries \in Nat /\ l.loaded \in Snapshot \cup {Nil}
           /\ l.at \in Stamps /\ l.meetings \subseteq Meeting
           /\ l.later \subseteq Event /\ l.todo \subseteq Event
           /\ l.known \subseteq Event
  BY DEF Memory

LEMMA BeginOK ==
    ASSUME Inv, NEW p \in Planner, Begin(p) \/ Recheck(p)
    PROVE  Inv'
<1>1. PICK tries \in Nat : Checked(p, tries)
  BY DEF Begin, Recheck
<1>2. /\ UNCHANGED <<now, upstream, archive, coverage>> /\ advisory' = advisory
      /\ failures' = failures /\ planner[p].pc \in {"idle", "check"}
  BY DEF Begin, Recheck
<1>3. planner \in [Planner -> Memory] /\ planner[p] \in Memory
      /\ Sound(planner[p])
      /\ failures \in 0 .. MaxFailures
  BY DEF Inv, TypeOK, PlannerInv
<1>4. PICK l \in Memory :
        /\ planner' = [planner EXCEPT ![p] = l]
        /\ l.pc \in {"load", "lock"}
        /\ l.loaded = planner[p].loaded /\ l.later = planner[p].later
  <2> DEFINE l == [planner[p] EXCEPT
        !.tries = tries,
        !.pc = IF ~Loaded(p) /\ Due(now) THEN "load" ELSE "lock"]
  <2>1. planner' = [planner EXCEPT ![p] = l]
    BY <1>1, <1>3 DEF Checked
  <2>2. /\ l \in Memory /\ l.pc \in {"load", "lock"}
        /\ l.loaded = planner[p].loaded /\ l.later = planner[p].later
    BY <1>3 DEF Memory
  <2> HIDE DEF l
  <2> QED
    BY <2>1, <2>2
<1>5. now' = now /\ season' = season
  BY <1>2 DEF coverage
<1>6. Sound(l)'
  BY <1>2, <1>3, <1>4, <1>5 DEF Sound
<1>7. advisory # p
  BY <1>2 DEF Inv, TypeOK
<1> QED
  BY <1>2, <1>3, <1>4, <1>5, <1>6, <1>7, PlannerStep DEF LockHeld

LEMMA ReadIndexOK ==
    ASSUME Inv, NEW p \in Planner, ReadIndex(p)
    PROVE  Inv'
<1>1. /\ planner[p] \in Memory /\ planner \in [Planner -> Memory]
      /\ Sound(planner[p]) /\ planner[p].pc = "load"
      /\ now \in Times /\ curated \subseteq Event /\ index \subseteq Meeting
      /\ failures \in 0 .. MaxFailures /\ advisory # p
  BY DEF Inv, TypeOK, PlannerInv, ReadIndex
<1>3. MissingEvents(index, curated) \subseteq curated
  BY DEF MissingEvents
<1>4. PICK l \in Memory :
        /\ planner' = [planner EXCEPT ![p] = l]
        /\ l.pc = "detail" /\ l.at = now
        /\ l.meetings = index /\ l.known = curated
        /\ l.todo = MissingEvents(index, curated)
        /\ l.loaded = planner[p].loaded /\ l.later = planner[p].later
  <2> DEFINE l == [planner[p] EXCEPT
        !.pc = "detail", !.at = now, !.meetings = index,
        !.known = curated, !.todo = MissingEvents(index, curated)]
  <2>1. planner' = [planner EXCEPT ![p] = l]
    BY <1>1 DEF ReadIndex
  <2>2. /\ l \in Memory /\ l.pc = "detail" /\ l.at = now
        /\ l.meetings = index /\ l.known = curated
        /\ l.todo = MissingEvents(index, curated)
        /\ l.loaded = planner[p].loaded /\ l.later = planner[p].later
    BY <1>1, <1>3 DEF Memory, Stamps
  <2> HIDE DEF l
  <2> QED
    BY <2>1, <2>2
<1>5. l.later = {}
  BY <1>1, <1>4 DEF Sound
<1>6. UNCHANGED <<now, season>>
  BY DEF ReadIndex, coverage
<1>7. Loading(l)'
  BY <1>1, <1>3, <1>4, <1>5, <1>6, PlannerAssumption
     DEF Loading, MissingEvents, Listed, Met, Times, None
<1>8. Sound(l)'
  BY <1>1, <1>4, <1>5, <1>6, <1>7 DEF Sound
<1> QED
  BY <1>1, <1>4, <1>8, PlannerStep DEF ReadIndex, LockHeld

LEMMA LoadMissingOK ==
    ASSUME Inv, NEW p \in Planner, NEW e \in Event, LoadMissing(p, e)
    PROVE  Inv'
<1>1. /\ planner[p] \in Memory /\ planner \in [Planner -> Memory]
      /\ Sound(planner[p]) /\ planner[p].pc = "detail"
      /\ e \in planner[p].todo
      /\ details \subseteq Meeting
      /\ failures \in 0 .. MaxFailures /\ advisory # p
  BY DEF Inv, TypeOK, PlannerInv, LoadMissing
<1> DEFINE published == {m \in details : m.event = e}
           waits == StartAt[e] > planner[p].at \/ published = {}
<1>3. published \subseteq Meeting
  BY <1>1
<1>4. PICK l \in Memory :
        /\ planner' = [planner EXCEPT ![p] = l]
        /\ l.pc = "detail" /\ l.at = planner[p].at
        /\ l.meetings = IF waits THEN planner[p].meetings
                         ELSE planner[p].meetings \cup published
        /\ l.known = planner[p].known
        /\ l.todo = planner[p].todo \ {e}
        /\ l.later = IF waits THEN planner[p].later \cup {e}
                      ELSE planner[p].later
        /\ l.loaded = planner[p].loaded
  <2> DEFINE
        l == [planner[p] EXCEPT
                   !.todo = @ \ {e},
                   !.later = IF waits THEN @ \cup {e} ELSE @,
                   !.meetings = IF waits THEN @ ELSE @ \cup published]
  <2>1. planner' = [planner EXCEPT ![p] = l]
    BY <1>1 DEF LoadMissing
  <2> HIDE DEF waits, published
  <2>2. /\ l \in Memory /\ l.pc = "detail" /\ l.at = planner[p].at
        /\ l.meetings = IF waits THEN planner[p].meetings
                         ELSE planner[p].meetings \cup published
        /\ l.known = planner[p].known
        /\ l.todo = planner[p].todo \ {e}
        /\ l.later = IF waits THEN planner[p].later \cup {e}
                      ELSE planner[p].later
        /\ l.loaded = planner[p].loaded
    BY <1>1, <1>3 DEF Memory
  <2> HIDE DEF l
  <2> QED
    BY <2>1, <2>2
<1>5. UNCHANGED <<now, season>>
  BY DEF LoadMissing, coverage
<1>6. Loading(planner[p])
  BY <1>1 DEF Sound
<1>7. ~waits => \E m \in published : m.event = e
  OBVIOUS
<1>8. \A m \in published : m.event = e
  OBVIOUS
<1> HIDE DEF waits, published
<1>9. ASSUME NEW f \in l.known
      PROVE  Met(l.meetings, f) <=> f \notin l.todo /\ f \notin l.later
  <2>1. Met(planner[p].meetings, f) <=>
            f \notin planner[p].todo /\ f \notin planner[p].later
    BY <1>4, <1>6 DEF Loading
  <2>2. CASE waits
    BY <1>1, <1>4, <2>1, <2>2
  <2>3. CASE ~waits
    <3>1. Met(l.meetings, f) <=> Met(planner[p].meetings, f) \/ f = e
      BY <1>4, <1>7, <1>8, <2>3 DEF Met
    <3> QED
      BY <1>1, <1>4, <1>6, <2>1, <2>3, <3>1 DEF Loading
  <2> QED
    BY <2>2, <2>3
<1>10. Loading(l)
  BY <1>1, <1>4, <1>6, <1>9 DEF Loading
<1>11. Loading(l)'
  BY <1>5, <1>10 DEF Loading
<1>12. Sound(l)'
  BY <1>1, <1>4, <1>5, <1>11 DEF Sound
<1> QED
  BY <1>1, <1>4, <1>12, PlannerStep DEF LoadMissing, LockHeld

LEMMA EndLoadOK ==
    ASSUME Inv, NEW p \in Planner, EndLoad(p)
    PROVE  Inv'
<1>1. /\ planner[p] \in Memory /\ planner \in [Planner -> Memory]
      /\ Sound(planner[p]) /\ planner[p].pc = "detail"
      /\ planner[p].todo = {}
      /\ failures \in 0 .. MaxFailures /\ advisory # p
  BY DEF Inv, TypeOK, PlannerInv, EndLoad
<1>2. UNCHANGED <<now, season, advisory>>
  BY DEF EndLoad, coverage
<1>3. CASE ~Acceptable(planner[p].meetings, planner[p].known)
  <2>1. planner' = [planner EXCEPT ![p] = Idle]
    BY <1>3 DEF EndLoad
  <2> QED
    BY <1>1, <2>1, IdleSound, PlannerStep DEF EndLoad
<1>4. CASE Acceptable(planner[p].meetings, planner[p].known)
  <2>2. Loading(planner[p])
    BY <1>1 DEF Sound
  <2>3. /\ planner[p].known \in SUBSET Event
        /\ planner[p].meetings \in SUBSET Meeting
        /\ planner[p].later \subseteq planner[p].known
        /\ planner[p].at \in Times /\ planner[p].tries \in Nat
    BY <1>1, <2>2 DEF Memory, Loading, Stamps
  <2>4. PICK new \in Snapshot :
          /\ planner' = [planner EXCEPT ![p] =
                 [Idle EXCEPT !.pc = "lock", !.tries = planner[p].tries,
                              !.loaded = new]]
          /\ new.sessions =
                 Scheduled(planner[p].meetings, planner[p].known)
          /\ new.later = planner[p].later /\ new.members = planner[p].known
          /\ new.read = planner[p].at
          /\ new.skipped = SkippedEvents(planner[p].meetings, planner[p].known)
    <3> DEFINE new ==
          [sessions |-> Scheduled(planner[p].meetings, planner[p].known),
           later |-> planner[p].later, members |-> planner[p].known,
           skipped |-> SkippedEvents(planner[p].meetings, planner[p].known),
           read |-> planner[p].at]
    <3>1. planner' = [planner EXCEPT ![p] =
                 [Idle EXCEPT !.pc = "lock", !.tries = planner[p].tries,
                              !.loaded = new]]
      BY <1>4 DEF EndLoad
    <3>2. Scheduled(planner[p].meetings, planner[p].known) \in Schedule
      BY <1>4, <2>3, ScheduledOK
    <3>3. new \in Snapshot
      BY <2>3, <3>2 DEF Snapshot, SkippedEvents
    <3> QED
      BY <3>1, <3>3
  <2>5. PICK l \in Memory :
          /\ planner' = [planner EXCEPT ![p] = l]
          /\ l.pc = "lock" /\ l.loaded = new /\ l.later = {}
    <3> DEFINE l == [Idle EXCEPT !.pc = "lock", !.tries = planner[p].tries,
                                 !.loaded = new]
    <3>1. l \in Memory /\ l.pc = "lock" /\ l.loaded = new /\ l.later = {}
      BY <2>3 DEF Memory, Idle, Stamps
    <3> HIDE DEF l
    <3> QED
      BY <2>4, <3>1 DEF l
  <2>7. Placed(new)
    <3>1. ASSUME NEW f \in new.members
          PROVE  Met(planner[p].meetings, f) <=> f \notin new.later
      BY <1>1, <2>2, <2>4 DEF Loading
    <3>2. \A s \in DOMAIN new.sessions :
            /\ new.sessions[s].end \in Ends(s[2])
            /\ new.sessions[s].event \in new.members
            /\ Met(Championship(planner[p].meetings), new.sessions[s].event)
            /\ s[1] = RoundOf(new.sessions[s].event, new.members)
      <4>1. \A s \in DOMAIN Scheduled(planner[p].meetings, planner[p].known) :
              LET S == Scheduled(planner[p].meetings, planner[p].known)
              IN  /\ S[s].end \in Ends(s[2])
                  /\ S[s].event \in planner[p].known
                  /\ Met(Championship(planner[p].meetings), S[s].event)
                  /\ s[1] = RoundOf(S[s].event, planner[p].known)
        BY <1>4, <2>3, ScheduledOK
      <4> QED
        BY <2>4, <4>1
    <3>3. \A f \in new.members : Met(Championship(planner[p].meetings), f) =>
            \E s \in DOMAIN new.sessions : s[1] = RoundOf(f, new.members)
      <4>1. \A f \in planner[p].known :
              Met(Championship(planner[p].meetings), f) =>
              \E s \in DOMAIN Scheduled(planner[p].meetings,
                                        planner[p].known) :
                  s[1] = RoundOf(f, planner[p].known)
        BY <1>4, <2>3, ScheduledOK
      <4> QED
        BY <2>4, <4>1
    <3>4. \A f \in new.members :
            /\ f \in new.skipped =>
                   /\ Met(planner[p].meetings, f)
                   /\ ~Met(Championship(planner[p].meetings), f)
            /\ f \notin new.skipped /\ Met(planner[p].meetings, f) =>
                   Met(Championship(planner[p].meetings), f)
      BY <2>4 DEF SkippedEvents, Listed, Met
    <3>5. new.skipped \subseteq new.members
      BY <2>4 DEF SkippedEvents
    <3>6. \A f \in new.members : Met(Championship(planner[p].meetings), f) =>
            Met(planner[p].meetings, f)
      BY DEF Met, Championship
    <3> QED
      BY <2>3, <2>4, <3>1, <3>2, <3>3, <3>4, <3>5, <3>6 DEF Placed
  <2>8. new.read <= now /\ now <= new.read + MaxHold
    BY <2>2, <2>4 DEF Loading
  <2>9. Sound(l)'
    BY <1>2, <2>5, <2>7, <2>8 DEF Sound, Placed
  <2> QED
    BY <1>1, <2>5, <2>9, PlannerStep DEF EndLoad, LockHeld
<1> QED
  BY <1>3, <1>4

-----------------------------------------------------------------------------
(* The planning transaction. *)

LEMMA LockSeasonOK ==
    ASSUME Inv, NEW p \in Planner, LockSeason(p)
    PROVE  Inv'
<1>1. /\ planner[p] \in Memory /\ planner \in [Planner -> Memory]
      /\ Sound(planner[p]) /\ planner[p].pc = "lock"
      /\ now \in Times /\ season \in [checked: Stamps, valid: Int]
      /\ failures \in 0 .. MaxFailures /\ advisory = Nil /\ CoverageInv
  BY DEF Inv, TypeOK, PlannerInv, LockSeason
<1>2. now' = now /\ season' = season
  BY DEF LockSeason, coverage
<1>3. advisory # p
  BY <1>1, PlannerAssumption
<1>4. CASE Due(now) /\ ~Loaded(p)
  <2>1. PICK l \in Memory :
          /\ planner' = [planner EXCEPT ![p] = l]
          /\ \/ l = Idle
             \/ /\ l.pc = "check" /\ l.later = planner[p].later
                /\ l.loaded = planner[p].loaded
    <3>1. CASE planner[p].tries < 2
      <4> DEFINE l == [planner[p] EXCEPT !.pc = "check"]
      <4>1. planner' = [planner EXCEPT ![p] = l]
        BY <1>4, <3>1 DEF LockSeason
      <4>2. /\ l \in Memory /\ l.pc = "check" /\ l.later = planner[p].later
            /\ l.loaded = planner[p].loaded
        BY <1>1 DEF Memory
      <4> HIDE DEF l
      <4> QED
        BY <4>1, <4>2
    <3>2. CASE ~(planner[p].tries < 2)
      <4>1. planner' = [planner EXCEPT ![p] = Idle]
        BY <1>4, <3>2 DEF LockSeason
      <4> QED
        BY <4>1, IdleSound
    <3> QED
      BY <3>1, <3>2
  <2>2. Sound(l)'
    <3>1. CASE l = Idle
      BY <3>1, IdleSound DEF Sound
    <3>2. CASE l # Idle
      BY <1>1, <1>2, <2>1, <3>2 DEF Sound
    <3> QED
      BY <3>1, <3>2
  <2>3. ~LockHeld(l)
    BY <2>1, IdleSound DEF LockHeld
  <2> QED
    BY <1>1, <1>3, <1>4, <2>1, <2>2, <2>3, PlannerStep DEF LockSeason
<1>5. CASE ~(Due(now) /\ ~Loaded(p))
  <2>1. PICK l \in Memory :
          /\ planner' = [planner EXCEPT ![p] = l]
          /\ l.pc = IF Due(now) THEN "rows" ELSE "plan"
          /\ l.at = now /\ l.later = planner[p].later
          /\ l.loaded = planner[p].loaded
    <3> DEFINE l == [planner[p] EXCEPT
                       !.at = now, !.pc = IF Due(now) THEN "rows" ELSE "plan"]
    <3>1. planner' = [planner EXCEPT ![p] = l]
      BY <1>1, <1>5 DEF LockSeason
    <3>2. /\ l \in Memory /\ l.at = now /\ l.later = planner[p].later
          /\ l.pc = IF Due(now) THEN "rows" ELSE "plan"
          /\ l.loaded = planner[p].loaded
      BY <1>1 DEF Memory, Stamps
    <3> HIDE DEF l
    <3> QED
      BY <3>1, <3>2
  <2>2. ~Due(now) => season.checked # None
    BY <1>1 DEF Due, RefreshRequired, CoverageInv
  <2>3. now # None
    BY <1>1, PlannerAssumption DEF Times, None
  <2>4. Sound(l)'
    <3>1. l.pc \in {"rows", "plan"} /\ (l.pc = "rows" <=> Due(now))
      BY <2>1
    <3>2. l.later = {}
      BY <1>1, <2>1 DEF Sound
    <3>3. l.pc = "rows" => l.loaded # Nil
      BY <1>5, <2>1, <3>1 DEF Loaded
    <3>4. l.loaded # Nil => /\ l.loaded.read <= now
                            /\ now <= l.loaded.read + MaxHold
                            /\ Placed(l.loaded)'
      BY <1>1, <1>2, <2>1 DEF Sound, Placed
    <3>5. l.at = now /\ l.at # None /\ l.at <= now
      BY <1>1, <2>1, <2>3 DEF Times
    <3>6. l.pc = "rows" => Due(l.at)'
      BY <1>2, <3>1, <3>5 DEF Due
    <3>7. l.pc = "plan" => season'.checked # None
      BY <1>2, <2>2, <3>1
    <3> QED
      BY <1>2, <3>1, <3>2, <3>3, <3>4, <3>5, <3>6, <3>7 DEF Sound
  <2> QED
    BY <1>1, <1>5, <2>1, <2>4, PlannerStep DEF LockSeason, LockHeld
<1> QED
  BY <1>4, <1>5

LEMMA LockRowsOK ==
    ASSUME Inv, NEW p \in Planner, LockRows(p)
    PROVE  Inv'
<1>1. /\ planner[p] \in Memory /\ planner \in [Planner -> Memory]
      /\ Sound(planner[p]) /\ planner[p].pc = "rows"
      /\ failures \in 0 .. MaxFailures /\ advisory = p
  BY DEF Inv, TypeOK, PlannerInv, LockRows
<1>2. now' = now /\ season' = season
  BY DEF LockRows, coverage
<1>3. PICK l \in Memory :
        /\ planner' = [planner EXCEPT ![p] = l]
        /\ l.pc = "write" /\ l.at = planner[p].at
        /\ l.later = planner[p].later /\ l.loaded = planner[p].loaded
  <2> DEFINE l == [planner[p] EXCEPT !.pc = "write"]
  <2>1. planner' = [planner EXCEPT ![p] = l]
    BY DEF LockRows
  <2>2. /\ l \in Memory /\ l.pc = "write" /\ l.at = planner[p].at
        /\ l.later = planner[p].later /\ l.loaded = planner[p].loaded
    BY <1>1 DEF Memory
  <2> HIDE DEF l
  <2> QED
    BY <2>1, <2>2
<1>4. Sound(l)'
  BY <1>1, <1>2, <1>3 DEF Sound, Due
<1> QED
  BY <1>1, <1>3, <1>4, PlannerStep DEF LockRows, LockHeld

(* A call that raises leaves nothing behind.                               *)
LEMMA LeavingOK ==
    ASSUME Inv, NEW p \in Planner, Refused(p) \/ Fail(p)
    PROVE  Inv'
<1>1. /\ UNCHANGED <<now, upstream, archive, coverage>> /\ Leave(p)
      /\ failures' \in 0 .. MaxFailures
  BY PlannerAssumption DEF Refused, Fail, Inv, TypeOK
<1> QED
  BY <1>1, IdleSound, PlannerStep DEF Leave

(* What is due by the clock a planner has read has a reason to be loaded.  *)
LEMMA DueIsWanted ==
    ASSUME RowTypes, NEW s \in Slot, NEW end \in Int, NEW at \in Times,
           end \in Ends(s[2]), Eligible(end, ingestion[s].completed, at)
    PROVE  Wanted(s, at)
<1>1. CASE ingestion[s].completed = None
  BY <1>1 DEF Wanted
<1>2. CASE ingestion[s].completed # None
  <2>1. PICK c \in Checkpoints :
           ingestion[s].completed < end + c /\ end + c <= at
    BY <1>2 DEF Eligible, Unsatisfied
  <2>2. c \in Nat /\ ingestion[s].completed \in Times
    BY <1>2, ScheduleAssumption DEF SettingsValid, RowTypes, Stamps
  <2>3. end + c \in Times
    BY <2>1, <2>2, PlannerAssumption DEF Times
  <2>4. \E m \in Championship(Meeting) : \E i \in Usable(m) :
           m.sessions[i].key = s[2] /\ m.sessions[i].end = end
    BY DEF Ends
  <2>5. end + c \in Corrections(s)
    BY <2>3, <2>4 DEF Corrections
  <2> QED
    BY <2>1, <2>5 DEF Wanted
<1> QED
  BY <1>1, <1>2

(* Queueing touches only the job, and queues only what there is a reason   *)
(* to load.                                                                *)
LEMMA QueueOK ==
    ASSUME RowTypes, ArchiveInv, NEW rows, NEW checked, NEW at \in Times,
           at <= now, Queue(rows, checked, at),
           UNCHANGED <<now, ingestion, persisting, loads>>,
           \A s \in Slot : rows[s].seen = checked =>
               rows[s].end \in Ends(s[2])
    PROVE  job' \in [Slot -> Status] /\ ArchiveInv'
<1>1. job' \in [Slot -> Status]
  BY DEF Queue, RowTypes, Status
<1>2. ASSUME NEW s \in Slot, job'[s] = "pending", job[s] # "pending"
      PROVE  Wanted(s, now)
  <2>1. s \in DueSessions(rows, checked, at)
    BY <1>2 DEF Queue
  <2>2. /\ rows[s].seen = checked
        /\ Eligible(rows[s].end, ingestion[s].completed, at)
    BY <2>1 DEF DueSessions, Considered
  <2>3. rows[s].end \in Ends(s[2]) /\ rows[s].end \in Int
    BY <2>2 DEF Ends
  <2>4. Wanted(s, at)
    BY <2>2, <2>3, DueIsWanted
  <2> QED
    BY <2>4 DEF Wanted, Corrections, Times, RowTypes
<1>3. ASSUME NEW s \in Slot
      PROVE  job'[s] = "pending" => Wanted(s, now)
  BY <1>2, <1>3 DEF ArchiveInv
<1>4. ASSUME NEW s \in Slot, NEW t
      PROVE  Wanted(s, t)' <=> Wanted(s, t)
  BY DEF Wanted
<1>5. \A s \in Slot : Satisfied(s)' = Satisfied(s)
  BY DEF Satisfied
<1>6. ASSUME NEW s \in Slot
      PROVE  /\ ingestion'[s].completed <= now'
             /\ ingestion'[s].completed = None => loads'[s] = 0
             /\ loads'[s] <= 1 + Cardinality(Satisfied(s))'
             /\ job'[s] = "pending" => Wanted(s, now)'
  BY <1>3, <1>4, <1>5 DEF ArchiveInv, Wanted
<1>7. persisting.pc = "fetch" =>
          persisting.slot \in Slot /\ Wanted(persisting.slot, now)'
  BY <1>4 DEF ArchiveInv, Wanted
<1>8. persisting.pc = "stamped" =>
           /\ persisting.slot \in Slot
           /\ persisting.at # None /\ persisting.at <= now
           /\ Wanted(persisting.slot, persisting.at)'
  BY <1>4 DEF ArchiveInv, Wanted
<1> QED
  BY <1>1, <1>6, <1>7, <1>8 DEF ArchiveInv, Wanted

LEMMA PlanFreshOK ==
    ASSUME Inv, NEW p \in Planner, PlanFresh(p)
    PROVE  Inv'
<1>1. RowTypes /\ PlannerTypes /\ PlannerInv /\ CoverageInv /\ ArchiveInv
  BY TypesSplit DEF Inv
<1>2. /\ planner[p].at \in Times /\ planner[p].at <= now
      /\ season.checked # None
  BY <1>1 DEF PlannerTypes, Memory, PlannerInv, Sound, PlanFresh, Stamps
<1>3. /\ UNCHANGED <<now, ingestion, persisting, loads, failures>>
      /\ UNCHANGED upstream /\ UNCHANGED coverage /\ Leave(p)
      /\ Queue(race_session, season.checked, planner[p].at)
  BY DEF PlanFresh
<1>4. \A s \in Slot : race_session[s].seen = season.checked =>
          race_session[s].end \in Ends(s[2])
  BY <1>1, <1>2 DEF CoverageInv
<1>5. job' \in [Slot -> Status] /\ ArchiveInv'
  BY <1>1, <1>2, <1>3, <1>4, QueueOK
<1>6. RowTypes'
  BY <1>1, <1>3, <1>5 DEF RowTypes, upstream, coverage
<1>7. PlannerTypes' /\ PlannerInv'
  BY <1>1, <1>3, IdleSound, OnePlanner DEF Leave, coverage
<1>8. CoverageInv' /\ EveryEventPlaced'
  <2>1. now' \in Times /\ now <= now'
    BY <1>1, <1>3 DEF RowTypes, Times
  <2> QED
    BY <1>1, <1>3, <2>1, CoverageStays DEF Inv
<1> QED
  BY <1>5, <1>6, <1>7, <1>8, TypesSplitNext DEF Inv

(* The new snapshot places every event of its own, and nothing seen before *)
(* counts as current (_persist_schedule_snapshot).                         *)
LEMMA RefreshPlaces ==
    ASSUME NEW new \in Snapshot, Placed(new), NEW at \in Times,
           RowTypes, CoverageInv, RowTypes', season.checked < at,
           season' = [checked |-> at, valid |-> at + CoverageTTL],
           members' = new.members, skipped' = new.skipped,
           race_session' = [s \in Slot |->
               IF s \in DOMAIN new.sessions
               THEN [seen |-> at, end |-> new.sessions[s].end,
                     event |-> new.sessions[s].event]
               ELSE race_session[s]],
           deferred' = [r \in Round |->
               IF \E e \in new.later : RoundOf(e, new.members) = r
               THEN at ELSE None]
    PROVE  EveryEventPlaced'
<1>1. /\ new.members \in SUBSET Event /\ new.later \subseteq new.members
      /\ new.skipped \cap new.later = {}
      /\ at # None /\ season'.checked = at
  BY DEF Snapshot, Placed, Times, None
<1>2. DOMAIN new.sessions \subseteq Slot
  BY DEF Snapshot, Schedule
<1>3. ASSUME NEW s \in Slot
      PROVE  Current(s)' <=> s \in DOMAIN new.sessions
  <2>1. s \in DOMAIN new.sessions => race_session'[s].seen = at
    OBVIOUS
  <2>2. s \notin DOMAIN new.sessions => race_session'[s] = race_session[s]
    OBVIOUS
  <2>3. race_session[s].seen <= season.checked
    BY DEF CoverageInv
  <2>4. race_session[s].seen \in Int /\ season.checked \in Int /\ at \in Int
    BY DEF RowTypes, Stamps, Times, None
  <2>5. race_session[s].seen # at
    BY <2>3, <2>4
  <2> QED
    BY <1>1, <2>1, <2>2, <2>5 DEF Current
<1>4. ASSUME NEW s \in Slot, Current(s)'
      PROVE  /\ new.sessions[s].event \in new.members \ new.later
             /\ new.sessions[s].event \notin new.skipped
             /\ s[1] = RoundOf(new.sessions[s].event, new.members)
             /\ race_session'[s].event = new.sessions[s].event
  BY <1>3, <1>4 DEF Placed
<1>5. ASSUME NEW e \in new.members
      PROVE  LET r == RoundOf(e, new.members)
                 rows == {s \in Slot : s[1] = r /\ Current(s)'}
             IN  /\ \A s \in rows : race_session'[s].event = e
                 /\ IF e \in new.skipped
                    THEN rows = {} /\ deferred'[r] = None
                    ELSE rows = {} <=> deferred'[r] = at
  <2> DEFINE r == RoundOf(e, new.members)
             rows == {s \in Slot : s[1] = r /\ Current(s)'}
  <2>1. r \in Round
    BY <1>1, RoundRange
  <2>2. \A f \in new.members : RoundOf(f, new.members) = r => f = e
    BY <1>1, RoundsDiffer
  <2>3. /\ deferred'[r] = at <=> e \in new.later
        /\ e \notin new.later => deferred'[r] = None
    BY <1>1, <2>1, <2>2
  <2>4. ASSUME NEW s \in rows
        PROVE  /\ e \notin new.later /\ e \notin new.skipped
               /\ race_session'[s].event = e
    BY <1>4, <2>2
  <2>5. ASSUME e \notin new.later, e \notin new.skipped PROVE rows # {}
    <3>1. PICK s \in DOMAIN new.sessions : s[1] = r
      BY <2>5 DEF Placed
    <3>2. s \in rows
      BY <1>2, <1>3, <3>1
    <3> QED
      BY <3>2
  <2> QED
    BY <1>1, <2>3, <2>4, <2>5
<1>6. ASSUME NEW s \in Slot, Current(s)'
      PROVE  s[1] <= Cardinality(new.members)
  BY <1>1, <1>4, <1>6, RoundRange
<1>7. /\ \A e \in members' :
           LET r == RoundOf(e, members')
               rows == {s \in Slot : s[1] = r /\ Current(s)'}
           IN  /\ \A s \in rows : race_session'[s].event = e
               /\ IF e \in skipped'
                  THEN rows = {} /\ deferred'[r] = None
                  ELSE rows = {} <=> deferred'[r] = season'.checked
      /\ \A s \in Slot : Current(s)' => s[1] <= Cardinality(members')
  BY <1>1, <1>5, <1>6
<1> QED
  BY <1>7 DEF EveryEventPlaced, RoundOf

LEMMA PlanRefreshedOK ==
    ASSUME Inv, NEW p \in Planner, PlanRefreshed(p)
    PROVE  Inv' /\ reads' >= reads
<1>1. RowTypes /\ PlannerTypes /\ PlannerInv /\ CoverageInv /\ ArchiveInv
  BY TypesSplit DEF Inv
<1>2. /\ planner[p] \in Memory /\ Sound(planner[p])
      /\ planner[p].pc = "write" /\ advisory = p
  BY <1>1 DEF PlannerTypes, PlannerInv, PlanRefreshed, LockHeld
<1>3. PICK new \in Snapshot : new = planner[p].loaded
  BY <1>2 DEF Memory, Sound
<1>4. PICK at \in Times : at = planner[p].at
  BY <1>2 DEF Memory, Sound, Stamps
<1>5. /\ Placed(new) /\ new.read <= at /\ at <= now
      /\ at <= new.read + MaxHold /\ Due(at) /\ new.read \in Times
  BY <1>2, <1>3, <1>4, <1>1, PlannerAssumption
     DEF Sound, Snapshot, Times, RowTypes
<1> DEFINE rows == [s \in Slot |->
               IF s \in DOMAIN new.sessions
               THEN [seen |-> at, end |-> new.sessions[s].end,
                     event |-> new.sessions[s].event]
               ELSE race_session[s]]
<1>6. /\ Queue(rows, at, at) /\ race_session' = rows
      /\ deferred' = [r \in Round |->
               IF \E e \in new.later : RoundOf(e, new.members) = r
               THEN at ELSE None]
      /\ season' = [checked |-> at, valid |-> at + CoverageTTL]
      /\ reads' = new.read /\ members' = new.members
      /\ skipped' = new.skipped
      /\ Leave(p)
      /\ UNCHANGED <<now, ingestion, persisting, loads, failures>>
      /\ UNCHANGED upstream
  BY <1>3, <1>4 DEF PlanRefreshed
<1>7. /\ season.checked \in Stamps /\ season.valid \in Int
      /\ CoverageTTL \in Nat \ {0} /\ MaxHold \in Nat /\ MaxHold < CoverageTTL
      /\ reads \in Stamps /\ now \in Times /\ MaxTime \in Nat
  BY <1>1, ScheduleAssumption, PlannerAssumption DEF RowTypes, SettingsValid
<1>8. season.checked < at /\ reads <= new.read
  <2>1. CASE season.checked = None
    BY <1>1, <1>5, <1>7, <2>1 DEF CoverageInv, Times, None
  <2>2. CASE season.checked # None
    <3>1. season.valid = season.checked + CoverageTTL /\ reads <= season.checked
      BY <1>1, <2>2 DEF CoverageInv
    <3>2. season.checked + CoverageTTL <= at
      BY <1>5, <1>7, <2>2, <3>1 DEF Due, RefreshRequired, Stamps, Times, None
    <3> QED
      BY <1>5, <1>7, <3>1, <3>2 DEF Stamps, Times, None
  <2> QED
    BY <2>1, <2>2
<1>9. DOMAIN new.sessions \subseteq Slot
      /\ \A s \in DOMAIN new.sessions :
             new.sessions[s] \in [slot: Slot, event: Event, end: Int]
  BY DEF Snapshot, Schedule
<1>10. rows \in [Slot -> [seen: Stamps, end: Int, event: Event \cup {Nil}]]
  BY <1>1, <1>9 DEF RowTypes, Stamps
<1>11. \A s \in Slot : rows[s].seen = at => rows[s].end \in Ends(s[2])
  <2>1. \A s \in Slot : s \in DOMAIN new.sessions =>
            rows[s].end = new.sessions[s].end
    OBVIOUS
  <2>2. \A s \in Slot : s \notin DOMAIN new.sessions =>
            rows[s] = race_session[s]
    OBVIOUS
  <2>3. at # None
    BY DEF Times, None
  <2> HIDE DEF rows
  <2> QED
    BY <1>1, <1>5, <2>1, <2>2, <2>3 DEF Placed, CoverageInv
<1>12. job' \in [Slot -> Status] /\ ArchiveInv'
  <2> HIDE DEF rows
  <2> QED
    BY <1>1, <1>5, <1>6, <1>11, QueueOK
<1>13. deferred' \in [Round -> Stamps]
  BY <1>6 DEF Stamps
<1>14. RowTypes'
  <2> HIDE DEF rows
  <2>1. season' \in [checked: Stamps, valid: Int]
    BY <1>6, <1>7 DEF Stamps, Times
  <2>2. /\ reads' \in Stamps /\ members' \subseteq Event
        /\ skipped' \subseteq Event
    BY <1>5, <1>6 DEF Stamps, Snapshot
  <2> QED
    BY <1>1, <1>6, <1>10, <1>12, <1>13, <2>1, <2>2 DEF RowTypes, upstream
<1>15. PlannerTypes' /\ PlannerInv'
  BY <1>1, <1>2, <1>6, IdleSound, OnePlanner DEF Leave
<1>16. EveryEventPlaced'
  BY <1>1, <1>5, <1>6, <1>8, <1>14, RefreshPlaces
<1>17. CoverageInv'
  <2>1. season'.checked = at /\ season'.valid = at + CoverageTTL
    BY <1>6
  <2>2. ASSUME NEW s \in Slot
        PROVE  /\ race_session'[s].seen <= at
               /\ race_session'[s].seen # None =>
                      race_session'[s].end \in Ends(s[2])
    <3>1. CASE s \in DOMAIN new.sessions
      <4>1. /\ race_session'[s].seen = at
            /\ race_session'[s].end = new.sessions[s].end
        BY <1>6, <3>1
      <4> QED
        BY <1>5, <3>1, <4>1 DEF Placed, Times
    <3>2. CASE s \notin DOMAIN new.sessions
      <4>1. race_session'[s] = race_session[s]
        BY <1>6, <3>2
      <4>2. race_session[s].seen \in Stamps
        BY <1>1 DEF RowTypes
      <4> QED
        BY <1>1, <1>7, <1>8, <4>1, <4>2
           DEF CoverageInv, Stamps, Times, None
    <3> QED
      BY <3>1, <3>2
  <2>3. at # None /\ season'.checked <= now'
    BY <1>5, <1>6, <2>1 DEF Times, None
  <2> QED
    BY <1>5, <1>6, <2>1, <2>2, <2>3 DEF CoverageInv
<1>18. reads' >= reads
  BY <1>6, <1>7, <1>8, <1>5 DEF Stamps, Times, None
<1> QED
  BY <1>12, <1>14, <1>15, <1>16, <1>17, <1>18, TypesSplitNext DEF Inv

-----------------------------------------------------------------------------
(* The archive worker. *)

(* Its steps leave planners and coverage alone.                            *)
LEMMA ArchiveStep ==
    ASSUME Inv, ArchiveInv', UNCHANGED <<now, upstream, coverage, planner>>,
           advisory' = advisory,
           ingestion' \in [Slot -> [status: Status, completed: Stamps,
                                   about: Event \cup {Nil}]],
           job' \in [Slot -> Status], loads' \in [Slot -> Nat],
           persisting' \in [pc: {"idle", "fetch", "stamped", "aggregate"},
                            slot: Slot \cup {Nil}, at: Stamps,
                            about: Event \cup {Nil}],
           failures' \in 0 .. MaxFailures
    PROVE  Inv'
<1>1. RowTypes /\ PlannerTypes /\ PlannerInv
  BY TypesSplit DEF Inv
<1>2. RowTypes'
  BY <1>1 DEF RowTypes, upstream, coverage
<1>3. PlannerTypes' /\ PlannerInv'
  BY <1>1 DEF PlannerTypes, PlannerInv, LockHeld, Sound, Loading, Due,
     coverage
<1>4. CoverageInv' /\ EveryEventPlaced'
  <2>1. now' \in Times /\ now <= now'
    BY <1>1, <1>2 DEF RowTypes, Times
  <2> QED
    BY <1>1, <2>1, CoverageStays DEF Inv
<1> QED
  BY <1>2, <1>3, <1>4, TypesSplitNext DEF Inv

(* A step that writes the status of one session keeps the rest of its row. *)
LEMMA OneStatus ==
    ASSUME RowTypes, NEW s \in Slot, NEW status \in Status,
           ingestion' = [ingestion EXCEPT ![s].status = status]
    PROVE  /\ ingestion' \in [Slot -> [status: Status, completed: Stamps,
                                       about: Event \cup {Nil}]]
           /\ \A r \in Slot : ingestion'[r].completed = ingestion[r].completed
<1>1. ingestion \in [Slot -> [status: Status, completed: Stamps,
                              about: Event \cup {Nil}]]
  BY DEF RowTypes
<1>2. PICK row : row = [ingestion[s] EXCEPT !.status = status]
  OBVIOUS
<1>3. /\ row \in [status: Status, completed: Stamps, about: Event \cup {Nil}]
      /\ row.completed = ingestion[s].completed
  BY <1>1, <1>2
<1>4. ingestion' = [ingestion EXCEPT ![s] = row]
  BY <1>2
<1>. QED BY <1>1, <1>3, <1>4

LEMMA ClaimOK ==
    ASSUME Inv, NEW s \in Slot, Claim(s)
    PROVE  Inv'
<1>1. RowTypes /\ ArchiveInv
  BY TypesSplit DEF Inv
<1>2. /\ job[s] = "pending" /\ job' = [job EXCEPT ![s] = "running"]
      /\ ingestion' = [ingestion EXCEPT ![s].status = "running"]
      /\ UNCHANGED <<now, loads, failures>>
  BY DEF Claim
<1>3. PICK about \in Event \cup {Nil} :
         persisting' = [pc |-> "fetch", slot |-> s, at |-> None,
                        about |-> about]
  <2> DEFINE named == {e \in curated : RoundOf(e, curated) = s[1]}
  <2>1. persisting' = [pc |-> "fetch", slot |-> s, at |-> None,
                       about |-> IF named = {} THEN Nil
                                 ELSE CHOOSE e \in named : TRUE]
    BY DEF Claim
  <2>2. named \subseteq Event
    BY <1>1 DEF RowTypes
  <2>3. (IF named = {} THEN Nil ELSE CHOOSE e \in named : TRUE)
            \in Event \cup {Nil}
    BY <2>2
  <2> HIDE DEF named
  <2> QED
    BY <2>1, <2>3
<1>4. /\ ingestion' \in [Slot -> [status: Status, completed: Stamps,
                                  about: Event \cup {Nil}]]
      /\ \A r \in Slot : ingestion'[r].completed = ingestion[r].completed
  <2>1. "running" \in Status
    BY DEF Status
  <2>. QED BY <1>1, <1>2, <2>1, OneStatus
<1>5. /\ job' \in [Slot -> Status] /\ loads' \in [Slot -> Nat]
      /\ \A r \in Slot : job'[r] = "pending" => job[r] = "pending"
  BY <1>1, <1>2 DEF RowTypes, Status
<1>6. /\ persisting' \in [pc: {"idle", "fetch", "stamped", "aggregate"},
                           slot: Slot \cup {Nil}, at: Stamps,
                           about: Event \cup {Nil}]
      /\ persisting'.pc = "fetch" /\ persisting'.slot = s
  BY <1>3 DEF Stamps
<1>7. ArchiveInv'
  <2>1. \A r \in Slot : Satisfied(r)' = Satisfied(r)
    BY <1>4 DEF Satisfied
  <2>2. \A r \in Slot : Wanted(r, now)' <=> Wanted(r, now)
    BY <1>2, <1>4 DEF Wanted
  <2>3. Wanted(s, now)
    BY <1>1, <1>2 DEF ArchiveInv
  <2>4. Wanted(s, now)'
    BY <2>2, <2>3
  <2>5. Wanted(persisting.slot, now)'
    BY <1>6, <2>4 DEF Wanted
  <2>6. ASSUME NEW r \in Slot
        PROVE  /\ ingestion'[r].completed <= now'
               /\ ingestion'[r].completed = None => loads'[r] = 0
               /\ loads'[r] <= 1 + Cardinality(Satisfied(r))'
               /\ job'[r] = "pending" => Wanted(r, now)'
    BY <1>1, <1>2, <1>4, <1>5, <2>1, <2>2 DEF ArchiveInv
  <2> QED
    BY <1>6, <2>5, <2>6 DEF ArchiveInv
<1>8. UNCHANGED <<now, upstream, coverage, planner>> /\ advisory' = advisory
      /\ failures' \in 0 .. MaxFailures
  BY <1>1 DEF Claim, RowTypes
<1> QED
  BY <1>4, <1>5, <1>6, <1>7, <1>8, ArchiveStep

LEMMA AttemptFailsOK ==
    ASSUME Inv, AttemptFails
    PROVE  Inv'
<1>1. RowTypes /\ ArchiveInv
  BY TypesSplit DEF Inv
<1>2. persisting.slot \in Slot /\ Wanted(persisting.slot, now)
  BY <1>1 DEF AttemptFails, ArchiveInv
<1>3. PICK status \in {"pending", "failed"} :
        /\ job' = [job EXCEPT ![persisting.slot] = status]
        /\ ingestion' = [ingestion EXCEPT ![persisting.slot].status = status]
  BY DEF AttemptFails
<1>4. /\ ingestion' \in [Slot -> [status: Status, completed: Stamps,
                                  about: Event \cup {Nil}]]
      /\ \A r \in Slot : ingestion'[r].completed = ingestion[r].completed
  <2>1. status \in Status
    BY DEF Status
  <2>. QED BY <1>1, <1>2, <1>3, <2>1, OneStatus
<1>5. /\ job' \in [Slot -> Status]
      /\ \A r \in Slot \ {persisting.slot} : job'[r] = job[r]
  BY <1>1, <1>2, <1>3 DEF RowTypes, Status
<1>6. /\ UNCHANGED <<now, upstream, coverage, planner>>
      /\ advisory' = advisory /\ loads' = loads
      /\ failures' \in 0 .. MaxFailures
  BY <1>1, PlannerAssumption DEF AttemptFails, RowTypes
<1>7. /\ persisting' \in [pc: {"idle", "fetch", "stamped", "aggregate"},
                           slot: Slot \cup {Nil}, at: Stamps,
                           about: Event \cup {Nil}]
      /\ persisting'.pc = "aggregate"
  BY DEF AttemptFails, NotPersisting, Stamps
<1>8. ArchiveInv'
  <2>1. \A r \in Slot : Satisfied(r)' = Satisfied(r)
    BY <1>4 DEF Satisfied
  <2>2. \A r \in Slot : Wanted(r, now)' <=> Wanted(r, now)
    BY <1>4, <1>6 DEF Wanted
  <2>3. ASSUME NEW r \in Slot, job'[r] = "pending" PROVE Wanted(r, now)
    BY <1>1, <1>2, <1>5, <2>3 DEF ArchiveInv
  <2>4. ASSUME NEW r \in Slot
        PROVE  /\ ingestion'[r].completed <= now'
               /\ ingestion'[r].completed = None => loads'[r] = 0
               /\ loads'[r] <= 1 + Cardinality(Satisfied(r))'
               /\ job'[r] = "pending" => Wanted(r, now)'
    BY <1>1, <1>4, <1>6, <2>1, <2>2, <2>3 DEF ArchiveInv
  <2> QED
    BY <1>7, <2>4 DEF ArchiveInv
<1> QED
  BY <1>1, <1>4, <1>5, <1>6, <1>7, <1>8, ArchiveStep DEF RowTypes

LEMMA LockSessionOK ==
    ASSUME Inv, LockSession
    PROVE  Inv'
<1>1. RowTypes /\ ArchiveInv
  BY TypesSplit DEF Inv
<1>2. /\ persisting.slot \in Slot /\ Wanted(persisting.slot, now)
      /\ now \in Times /\ now # None
  BY <1>1 DEF LockSession, ArchiveInv, RowTypes, Times, None
<1>3. /\ UNCHANGED <<now, upstream, coverage, planner>>
      /\ advisory' = advisory
      /\ UNCHANGED <<ingestion, job, loads, failures>>
  BY DEF LockSession
<1>4. /\ persisting' \in [pc: {"idle", "fetch", "stamped", "aggregate"},
                           slot: Slot \cup {Nil}, at: Stamps,
                           about: Event \cup {Nil}]
      /\ persisting'.pc = "stamped" /\ persisting'.at = now
      /\ persisting'.slot = persisting.slot
  BY <1>1, <1>2 DEF LockSession, RowTypes, Stamps
<1>5. ArchiveInv'
  <2>1. \A r \in Slot : Satisfied(r)' = Satisfied(r)
    BY <1>3 DEF Satisfied
  <2>2. \A r \in Slot : Wanted(r, now)' <=> Wanted(r, now)
    BY <1>3 DEF Wanted
  <2>3. Wanted(persisting.slot, persisting.at)'
    BY <1>2, <1>3, <1>4 DEF Wanted
  <2>4. ASSUME NEW r \in Slot
        PROVE  /\ ingestion'[r].completed <= now'
               /\ ingestion'[r].completed = None => loads'[r] = 0
               /\ loads'[r] <= 1 + Cardinality(Satisfied(r))'
               /\ job'[r] = "pending" => Wanted(r, now)'
    BY <1>1, <1>3, <2>1, <2>2 DEF ArchiveInv
  <2>5. now <= now
    BY <1>2 DEF Times
  <2> QED
    BY <1>2, <1>3, <1>4, <2>3, <2>4, <2>5 DEF ArchiveInv
<1> QED
  BY <1>1, <1>3, <1>4, <1>5, ArchiveStep DEF RowTypes

LEMMA TimesFinite == IsFiniteSet(Times)
<1>1. 0 \in Int /\ MaxTime \in Int
  BY PlannerAssumption
<1>2. IsFiniteSet(0 .. MaxTime)
  BY <1>1, FS_Interval
<1> QED
  BY <1>2 DEF Times

(* A load that completes satisfies one correction more than its slot's     *)
(* data did, or is the first.                                              *)
LEMMA CompleteOK ==
    ASSUME Inv, Complete
    PROVE  Inv'
<1>1. RowTypes /\ ArchiveInv
  BY TypesSplit DEF Inv
<1>a. PICK s \in Slot, at \in Times, old \in Stamps :
         s = persisting.slot /\ at = persisting.at
         /\ old = ingestion[s].completed
  BY <1>1 DEF Complete, ArchiveInv, RowTypes, Stamps
<1>2. /\ at <= now /\ now \in Times /\ Wanted(s, at) /\ loads[s] \in Nat
  BY <1>1, <1>a DEF Complete, ArchiveInv, RowTypes
<1>3. /\ UNCHANGED <<now, upstream, coverage, planner>>
      /\ advisory' = advisory /\ failures' = failures
      /\ job' = [job EXCEPT ![s] = "completed"]
      /\ ingestion' = [ingestion EXCEPT ![s] =
             [status |-> "completed", completed |-> at,
              about |-> persisting.about]]
      /\ loads' = [loads EXCEPT ![s] = @ + 1]
      /\ persisting' = [NotPersisting EXCEPT !.pc = "aggregate"]
  BY <1>a DEF Complete
<1>4. /\ ingestion' \in [Slot -> [status: Status, completed: Stamps,
                                  about: Event \cup {Nil}]]
      /\ ingestion'[s].completed = at
      /\ \A r \in Slot \ {s} :
             ingestion'[r].completed = ingestion[r].completed
  BY <1>1, <1>2, <1>3 DEF RowTypes, Status, Stamps
<1>5. /\ job' \in [Slot -> Status] /\ job'[s] = "completed"
      /\ \A r \in Slot \ {s} : job'[r] = job[r]
  BY <1>1, <1>2, <1>3 DEF RowTypes, Status
<1>6. /\ loads' \in [Slot -> Nat] /\ loads'[s] = loads[s] + 1
      /\ \A r \in Slot \ {s} : loads'[r] = loads[r]
  BY <1>1, <1>2, <1>3 DEF RowTypes
<1>7. /\ persisting' \in [pc: {"idle", "fetch", "stamped", "aggregate"},
                           slot: Slot \cup {Nil}, at: Stamps,
                           about: Event \cup {Nil}]
      /\ persisting'.pc = "aggregate"
  BY <1>3 DEF NotPersisting, Stamps
<1>8. loads[s] + 1 <= 1 + Cardinality(Satisfied(s)')
  <2> DEFINE before == {d \in Corrections(s) : d <= old}
             after == {d \in Corrections(s) : d <= at}
  <2>1. Satisfied(s) = before /\ Satisfied(s)' = after
    BY <1>4, <1>a DEF Satisfied
  <2>2. Corrections(s) \subseteq Times
    BY DEF Corrections
  <2>3. IsFiniteSet(Times)
    BY TimesFinite
  <2>4. IsFiniteSet(Corrections(s))
    BY <2>2, <2>3, FS_Subset
  <2>5. IsFiniteSet(before) /\ IsFiniteSet(after)
    BY <2>4, FS_Subset, before \in SUBSET Corrections(s),
       after \in SUBSET Corrections(s)
  <2>6. Cardinality(before) \in Nat /\ Cardinality(after) \in Nat
    BY <2>5, FS_CardinalityType
  <2> HIDE DEF before, after
  <2>7. CASE old = None
    <3>1. loads[s] = 0
      BY <1>1, <1>a, <2>7 DEF ArchiveInv
    <3>2. Cardinality(Satisfied(s)') \in Nat
      BY <2>1, <2>6
    <3> QED
      BY <3>1, <3>2
  <2>8. CASE old # None
    <3>1. PICK d \in Corrections(s) : old < d /\ d <= at
      BY <1>2, <1>a, <2>8 DEF Wanted
    <3>2. \A x \in Corrections(s) : x \in Int
      BY <2>2 DEF Times
    <3>3. old \in Int /\ at \in Int
      BY <1>2 DEF Stamps, Times, None
    <3>4. before \in SUBSET after /\ d \in after /\ d \notin before
      BY <3>1, <3>2, <3>3 DEF before, after
    <3>5. Cardinality(before) <= Cardinality(after)
          /\ Cardinality(before) # Cardinality(after)
      BY <2>5, <3>4, FS_Subset
    <3>6. loads[s] <= 1 + Cardinality(before)
      BY <1>1, <1>2, <2>1 DEF ArchiveInv
    <3> QED
      BY <1>2, <2>1, <2>6, <3>5, <3>6
  <2> QED
    BY <2>7, <2>8
<1>9. ArchiveInv'
  <2>1. ASSUME NEW r \in Slot, r # s
        PROVE  /\ Satisfied(r)' = Satisfied(r)
               /\ Wanted(r, now)' <=> Wanted(r, now)
    BY <1>3, <1>4, <2>1 DEF Satisfied, Wanted
  <2>2. ASSUME NEW r \in Slot
        PROVE  /\ ingestion'[r].completed <= now'
               /\ ingestion'[r].completed = None => loads'[r] = 0
               /\ loads'[r] <= 1 + Cardinality(Satisfied(r))'
               /\ job'[r] = "pending" => Wanted(r, now)'
    <3>1. CASE r = s
      BY <1>2, <1>3, <1>4, <1>5, <1>6, <1>8, <3>1 DEF Times, None, Satisfied
    <3>2. CASE r # s
      BY <1>1, <1>3, <1>4, <1>5, <1>6, <2>1, <3>2 DEF ArchiveInv
    <3> QED
      BY <3>1, <3>2
  <2> QED
    BY <1>7, <2>2 DEF ArchiveInv
<1> QED
  BY <1>1, <1>3, <1>4, <1>5, <1>6, <1>7, <1>9, ArchiveStep DEF RowTypes

LEMMA AggregateOK ==
    ASSUME Inv, Aggregate
    PROVE  Inv'
<1>1. RowTypes /\ ArchiveInv
  BY TypesSplit DEF Inv
<1>2. /\ job' \in [Slot -> Status]
      /\ \A r \in Slot : job'[r] = "pending" => job[r] = "pending"
  BY <1>1 DEF Aggregate, RowTypes, Status
<1>3. /\ UNCHANGED <<now, upstream, coverage, planner>>
      /\ advisory' = advisory
      /\ UNCHANGED <<ingestion, loads, failures>>
  BY DEF Aggregate
<1>4. /\ persisting' \in [pc: {"idle", "fetch", "stamped", "aggregate"},
                           slot: Slot \cup {Nil}, at: Stamps,
                           about: Event \cup {Nil}]
      /\ persisting'.pc = "idle"
  BY DEF Aggregate, NotPersisting, Stamps
<1>5. ArchiveInv'
  <2>1. \A r \in Slot : Satisfied(r)' = Satisfied(r)
    BY <1>3 DEF Satisfied
  <2>2. \A r \in Slot : Wanted(r, now)' <=> Wanted(r, now)
    BY <1>3 DEF Wanted
  <2>3. ASSUME NEW r \in Slot
        PROVE  /\ ingestion'[r].completed <= now'
               /\ ingestion'[r].completed = None => loads'[r] = 0
               /\ loads'[r] <= 1 + Cardinality(Satisfied(r))'
               /\ job'[r] = "pending" => Wanted(r, now)'
    BY <1>1, <1>2, <1>3, <2>1, <2>2 DEF ArchiveInv
  <2> QED
    BY <1>4, <2>3 DEF ArchiveInv
<1> QED
  BY <1>1, <1>2, <1>3, <1>4, <1>5, ArchiveStep DEF RowTypes

-----------------------------------------------------------------------------
(* Upstream and time. *)

LEMMA UpstreamOK ==
    ASSUME Inv, UpstreamChanges
    PROVE  Inv'
<1>1. RowTypes /\ PlannerTypes /\ PlannerInv
  BY TypesSplit DEF Inv
<1>2. /\ UNCHANGED archive /\ UNCHANGED coverage
      /\ now' = now /\ advisory' = advisory /\ planner' = planner
      /\ failures' = failures /\ changes' = changes + 1
      /\ changes < MaxChanges
  BY DEF UpstreamChanges
<1>3. /\ index' \subseteq Meeting /\ details' \subseteq Meeting
      /\ curated' \subseteq Event
  BY <1>1 DEF UpstreamChanges, RowTypes, Championship
<1>4. RowTypes'
  <2>1. changes' \in 0 .. MaxChanges
    BY <1>1, <1>2, PlannerAssumption DEF RowTypes
  <2> QED
    BY <1>1, <1>2, <1>3, <2>1 DEF RowTypes, archive, coverage
<1>5. PlannerTypes' /\ PlannerInv'
  BY <1>1, <1>2 DEF PlannerTypes, PlannerInv, LockHeld, Sound, Loading, Due,
     coverage
<1>6. now' \in Times /\ now <= now'
  BY <1>2, <1>4, <1>1 DEF RowTypes, Times
<1>7. CoverageInv' /\ EveryEventPlaced' /\ ArchiveInv'
  BY <1>1, <1>2, <1>6, CoverageStays, ArchiveStays DEF Inv
<1> QED
  BY <1>4, <1>5, <1>7, TypesSplitNext DEF Inv

LEMMA TickOK ==
    ASSUME Inv, Tick
    PROVE  Inv'
<1>1. RowTypes /\ PlannerTypes /\ PlannerInv
  BY TypesSplit DEF Inv
<1>2. /\ UNCHANGED archive /\ UNCHANGED coverage /\ UNCHANGED upstream
      /\ now' = now + 1 /\ advisory' = advisory /\ planner' = planner
      /\ failures' = failures /\ now < MaxTime
  BY DEF Tick
<1>3. now' \in Times /\ now <= now'
  BY <1>1, <1>2, PlannerAssumption DEF RowTypes, Times
<1>4. RowTypes'
  BY <1>1, <1>2, <1>3 DEF RowTypes, archive, coverage, upstream
<1>5. PlannerTypes'
  BY <1>1, <1>2 DEF PlannerTypes, LockHeld
<1>6. ASSUME NEW p \in Planner PROVE Sound(planner[p])'
  <2>1. planner[p] \in Memory /\ Sound(planner[p])
    BY <1>1 DEF PlannerTypes, PlannerInv
  <2>2. /\ planner[p].at \in Int /\ now \in Int /\ MaxHold \in Int
        /\ planner[p].loaded # Nil => planner[p].loaded.read \in Int
    BY <1>1, <2>1, PlannerAssumption
       DEF Memory, Stamps, Times, None, Snapshot, RowTypes
  <2>3. planner[p].pc = "detail" => Loading(planner[p])'
    <3>1. ASSUME planner[p].pc = "detail"
          PROVE  /\ Loading(planner[p])
                 /\ now + 1 <= planner[p].at + MaxHold
      BY <2>1, <2>2, <3>1 DEF Sound, Tick
    <3> QED
      BY <1>2, <2>2, <3>1 DEF Loading
  <2>4. planner[p].loaded # Nil =>
          now + 1 <= planner[p].loaded.read + MaxHold
    BY <2>2 DEF Tick, Loaded
  <2> QED
    BY <1>2, <2>1, <2>2, <2>3, <2>4 DEF Sound, Due, coverage
<1>7. CoverageInv' /\ EveryEventPlaced' /\ ArchiveInv'
  BY <1>1, <1>2, <1>3, CoverageStays, ArchiveStays DEF Inv
<1> QED
  BY <1>4, <1>5, <1>6, <1>7, TypesSplitNext DEF Inv, PlannerInv

-----------------------------------------------------------------------------
(* Every step keeps the invariant, and only the refresh changes the read   *)
(* behind the schedule in force.                                           *)
LEMMA StepOK == Inv /\ [Next]_vars => Inv' /\ (reads' # reads => reads' >= reads)
<1> SUFFICES ASSUME Inv, [Next]_vars
             PROVE  Inv' /\ (reads' # reads => reads' >= reads)
  OBVIOUS
<1>1. CASE UNCHANGED vars
  <2>1. /\ UNCHANGED archive /\ UNCHANGED coverage /\ UNCHANGED upstream
        /\ now' = now /\ advisory' = advisory /\ planner' = planner
        /\ failures' = failures
    BY <1>1 DEF vars, archive, coverage, upstream
  <2>2. RowTypes /\ PlannerTypes /\ PlannerInv
    BY TypesSplit DEF Inv
  <2>3. RowTypes'
    BY <2>1, <2>2 DEF RowTypes, archive, coverage, upstream
  <2>4. PlannerTypes' /\ PlannerInv'
    BY <2>1, <2>2 DEF PlannerTypes, PlannerInv, LockHeld, Sound, Loading,
       Due, coverage
  <2>5. now' \in Times /\ now <= now'
    BY <2>1, <2>2 DEF RowTypes, Times
  <2>6. CoverageInv' /\ EveryEventPlaced' /\ ArchiveInv'
    BY <2>1, <2>2, <2>5, CoverageStays, ArchiveStays DEF Inv
  <2> QED
    BY <2>1, <2>3, <2>4, <2>6, TypesSplitNext DEF Inv, coverage
<1>2. ASSUME NEW p \in Planner, PlanRefreshed(p)
      PROVE  Inv' /\ reads' >= reads
  BY <1>2, PlanRefreshedOK
<1>3. ASSUME NEW p \in Planner,
             \/ Begin(p) \/ Recheck(p) \/ ReadIndex(p) \/ EndLoad(p)
             \/ \E e \in Event : LoadMissing(p, e)
             \/ LockSeason(p) \/ LockRows(p) \/ PlanFresh(p)
             \/ Refused(p) \/ Fail(p)
      PROVE  Inv' /\ reads' = reads
  <2>1. Inv'
    BY <1>3, BeginOK, ReadIndexOK, EndLoadOK, LoadMissingOK, LockSeasonOK,
       LockRowsOK, PlanFreshOK, LeavingOK
  <2>2. UNCHANGED coverage
    BY <1>3 DEF Begin, Recheck, ReadIndex, EndLoad, LoadMissing, LockSeason,
       LockRows, PlanFresh, Refused, Fail
  <2> QED
    BY <2>1, <2>2 DEF coverage
<1>4. ASSUME \/ \E s \in Slot : Claim(s)
             \/ AttemptFails \/ Attempt \/ UpstreamChanges \/ Tick
      PROVE  Inv' /\ reads' = reads
  <2>1. Inv'
    BY <1>4, ClaimOK, AttemptFailsOK, LockSessionOK, CompleteOK, AggregateOK,
       UpstreamOK, TickOK DEF Attempt
  <2>2. UNCHANGED coverage
    BY <1>4 DEF Claim, AttemptFails, Attempt, LockSession, Complete,
       Aggregate, UpstreamChanges, Tick
  <2> QED
    BY <2>1, <2>2 DEF coverage
<1> QED
  BY <1>1, <1>2, <1>3, <1>4 DEF Next, Plan

(* The rows, the planners and the archive attempt keep their types, and    *)
(* exactly the planner whose transaction is open holds the season's        *)
(* advisory lock.                                                          *)
THEOREM TypeCorrect == Spec => []TypeOK
<1>1. Init => Inv
  BY InitOK
<1>2. Inv /\ [Next]_vars => Inv'
  BY StepOK
<1>3. Inv => TypeOK
  BY DEF Inv
<1> QED
  BY <1>1, <1>2, <1>3, PTL DEF Spec

(* In the snapshot in force every curated event is there once, with its    *)
(* sessions or deferred, whichever planner wrote it and whatever upstream  *)
(* changed while it loaded; only an event that the index listed without a  *)
(* number is not there at all (FastF1ScheduleLoader.load,                  *)
(* normalize_fastf1_schedule and _persist_schedule_snapshot).              *)
THEOREM EventsArePlaced == Spec => []EveryEventPlaced
<1>1. Init => Inv
  BY InitOK
<1>2. Inv /\ [Next]_vars => Inv'
  BY StepOK
<1>3. Inv => EveryEventPlaced
  BY DEF Inv
<1> QED
  BY <1>1, <1>2, <1>3, PTL DEF Spec

(* No session is loaded again without a correction that has fallen due     *)
(* since (evaluate_archive_ingestion, _create_or_reuse_job and the clock   *)
(* read of replace_archive_session together).                              *)
THEOREM NothingLoadedTwice == Spec => []LoadsBounded
<1>1. Init => Inv
  BY InitOK
<1>2. Inv /\ [Next]_vars => Inv'
  BY StepOK
<1>3. Inv => LoadsBounded
  <2> SUFFICES ASSUME Inv, NEW s \in Slot
               PROVE  loads[s] <=
                        1 + Cardinality({t \in Corrections(s) : t <= now})
    BY DEF LoadsBounded
  <2> DEFINE fallen == {t \in Corrections(s) : t <= now}
  <2>1. /\ ingestion[s].completed \in Stamps /\ now \in Times
        /\ loads[s] \in Nat /\ ingestion[s].completed <= now
        /\ loads[s] <= 1 + Cardinality(Satisfied(s))
    BY DEF Inv, TypeOK, ArchiveInv
  <2>2. Corrections(s) \subseteq Times
    BY DEF Corrections
  <2>3. IsFiniteSet(Times)
    BY TimesFinite
  <2>4. IsFiniteSet(fallen)
    BY <2>2, <2>3, FS_Subset, fallen \in SUBSET Times
  <2>5. Satisfied(s) \in SUBSET fallen
    BY <2>1, <2>2 DEF Satisfied, Stamps, Times, None
  <2>6. Cardinality(Satisfied(s)) <= Cardinality(fallen)
    BY <2>4, <2>5, FS_Subset
  <2>7. Cardinality(Satisfied(s)) \in Nat /\ Cardinality(fallen) \in Nat
    BY <2>4, <2>5, FS_Subset, FS_CardinalityType
  <2> QED
    BY <2>1, <2>6, <2>7
<1> QED
  BY <1>1, <1>2, <1>3, PTL DEF Spec

(* A schedule is never replaced by one that was read before it: the        *)
(* decision taken under the lock sees what another planner wrote since,    *)
(* and coverage lasts longer than a read may be held.                      *)
THEOREM SnapshotsAdvance == Spec => SnapshotAdvances
<1>1. Init => Inv
  BY InitOK
<1>2. Inv /\ [Next]_vars => Inv' /\ [reads' >= reads]_reads
  BY StepOK
<1> QED
  BY <1>1, <1>2, PTL DEF Spec, SnapshotAdvances
=============================================================================
