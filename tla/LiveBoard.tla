------------------------------- MODULE LiveBoard -------------------------------
(***************************************************************************)
(* The merged view of a live session and the board read from it:           *)
(* live/current_view.py keeps one payload per topic and merges the feed's  *)
(* partial updates into it; live/board.py turns the payloads into rows,    *)
(* the fastest lap and the newest race-control messages.                   *)
(*                                                                         *)
(* A payload keeps what the properties tell apart:                         *)
(*   TimingData           [pit, place]: partial functions of the cars;     *)
(*   SessionStatus        the status;                                      *)
(*   RaceControlMessages  [array, items]: the feed sends the messages as   *)
(*                        an array first and as a map keyed by index in    *)
(*                        its updates; items is keyed by index in both;    *)
(*   TimingStats          [time, rank]: each car's best lap and the rank   *)
(*                        of it, partial functions of the cars.            *)
(***************************************************************************)
EXTENDS Integers, Sequences, FiniteSets, SequencesExt

CONSTANTS MaxShown,     \* MAX_RACE_CONTROL_MESSAGES
          NoCar         \* no car holds the fastest lap

Topics == {"TimingData", "SessionStatus", "RaceControlMessages", "TimingStats"}

--------------------------------------------------------------------------------
(* current_view.py *)

\* A mapping is merged key by key.
Merge(target, patch) ==
  [k \in DOMAIN target \cup DOMAIN patch |-> IF k \in DOMAIN patch THEN patch[k] ELSE target[k]]

\* A patch keyed by index updates an array in place and never extends it.
MergeArray(target, patch) ==
  [array |-> target.array,
   items |-> IF target.array
               THEN [i \in DOMAIN target.items |->
                       IF i \in DOMAIN patch.items THEN patch.items[i] ELSE target.items[i]]
               ELSE Merge(target.items, patch.items)]

\* Mutant: an update replaces the topic.
Substituted(topic, target, patch) == patch
\* An update is merged into what the topic held; it never stands for it.
merge_delta(topic, target, patch) ==
  CASE topic = "TimingData"          -> [pit   |-> Merge(target.pit, patch.pit),
                                         place |-> Merge(target.place, patch.place)]
    [] topic = "TimingStats"         -> [time |-> Merge(target.time, patch.time),
                                         rank |-> Merge(target.rank, patch.rank)]
    [] topic = "RaceControlMessages" -> MergeArray(target, patch)
    [] topic = "SessionStatus"       -> patch

\* The view after a frame. A snapshot replaces the topic; an update that
\* arrives before any snapshot of its topic seeds it.
apply(view, frame) ==
  LET payload == IF frame.initial \/ frame.topic \notin DOMAIN view
                   THEN frame.payload
                   ELSE merge_delta(frame.topic, view[frame.topic], frame.payload)
  IN [topic \in DOMAIN view \cup {frame.topic} |->
        IF topic = frame.topic THEN payload ELSE view[topic]]

--------------------------------------------------------------------------------
(* board.py, and the collector's own read of the session status *)

\* The status the trackers are told, "" until the feed has said one.
session_status(view) ==
  IF "SessionStatus" \in DOMAIN view THEN view["SessionStatus"] ELSE ""

\* The cars of the board, by position; those without one come last, by a display
\* line that is left open.
Rows(view) ==
  IF "TimingData" \notin DOMAIN view THEN <<>>
  ELSE LET timing == view["TimingData"]
           Before(a, b) == /\ a \in DOMAIN timing.place
                           /\ b \in DOMAIN timing.place => timing.place[a] < timing.place[b]
       IN CHOOSE rows \in SetToSeqs(DOMAIN timing.pit \cup DOMAIN timing.place) :
            \A i, j \in DOMAIN rows : i < j => ~Before(rows[j], rows[i])

\* The cars a row shows in the pit lane.
RowsInPit(view) ==
  IF "TimingData" \notin DOMAIN view THEN {}
  ELSE {c \in DOMAIN view["TimingData"].pit : view["TimingData"].pit[c]}

\* Whoever alone carries the feed's rank 1, otherwise the quickest time known.
fastest_lap(view) ==
  IF "TimingStats" \notin DOMAIN view THEN NoCar
  ELSE LET stats  == view["TimingStats"]
           timed  == DOMAIN stats.time
           marked == {c \in timed : c \in DOMAIN stats.rank /\ stats.rank[c] = 1}
       IN CASE Cardinality(marked) = 1 -> CHOOSE c \in marked : TRUE
            [] Cardinality(marked) # 1 /\ timed # {} ->
                 CHOOSE c \in timed : \A d \in timed : stats.time[c] <= stats.time[d]
            [] OTHER -> NoCar

\* The messages in index order, newest first, at most MaxShown of them.
race_control(view) ==
  IF "RaceControlMessages" \notin DOMAIN view THEN <<>>
  ELSE LET items   == view["RaceControlMessages"].items
           ordered == SetToSortSeq(DOMAIN items, <)
           newest  == [i \in DOMAIN ordered |-> items[ordered[Len(ordered) + 1 - i]]]
       IN SubSeq(newest, 1, Min({MaxShown, Len(newest)}))
================================================================================
