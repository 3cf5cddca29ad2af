----------------------------- MODULE LiveTrackers -----------------------------
(***************************************************************************)
(* What a live session leaves behind on its way through the collector: the *)
(* merged view, the pit-stop tracker (live/pit_stops.py) and the position  *)
(* tracker (live/positions.py), told of each frame by                      *)
(* LiveCollector._handle (live/collector.py).                              *)
(*                                                                         *)
(* The feed server is the environment: world is the session it reports.    *)
(* Every event of the session is one update, put on the queue of           *)
(* live/signalr_feed.py while a connection is up and lost while it is      *)
(* down; a connection starts with an unstamped snapshot of each topic.  An *)
(* update carries the feed's clock, but some carry none.                   *)
(*                                                                         *)
(* inside, completed, whole and firstSeen are history: the pit-lane visits *)
(* as they really were, whether anything has been lost since the last      *)
(* snapshot, and the places the first snapshot reported.  So are, in an    *)
(* open visit and a stop, the entry update: when it was sent, and whether  *)
(* it carried the feed's clock.                                            *)
(***************************************************************************)
EXTENDS LiveBoard

CONSTANTS Cars,
          QueueSize,       \* QUEUE_SIZE
          Limit,           \* IMPLAUSIBLE_VISIT, in ticks
          SnapshotOrders,  \* the orders a Subscribe answer may list the topics in
          MaxTime,         \* bound: clock ticks
          MaxEvents,       \* bound: events of the session
          MaxOutages       \* bound: lost connections

ASSUME CarsAssumption == IsFiniteSet(Cars)
ASSUME OrdersAssumption == \A order \in SnapshotOrders : order \in Seq(Topics)
ASSUME SizesAssumption == {QueueSize, Limit, MaxTime, MaxEvents, MaxOutages, MaxShown} \subseteq Nat

VARIABLES now, world, events,            \* the session
          connected, outages, queue,     \* the connection and its queue
          view,                          \* LiveCurrentView
          visits, stops,                 \* PitStopTracker: _open, _stops
          baseline, current,             \* PositionTracker
          inside, completed, whole, firstSeen   \* history

session == <<now, world, events>>
collector == <<view, visits, stops, baseline, current>>
history == <<inside, completed, whole, firstSeen>>
vars == <<session, connected, outages, queue, collector, history>>

NoFunction == [c \in {} |-> 0]
Statuses == {"Started", "Aborted"}

Init ==
  /\ now = 1 /\ events = 0
  /\ world = [pit      |-> [c \in Cars |-> FALSE],
              place    |-> CHOOSE f \in [Cars -> 1..Cardinality(Cars)] :
                             \A a, b \in Cars : f[a] = f[b] => a = b,
              status   |-> "Started",
              messages |-> 0,
              time     |-> NoFunction]
  /\ connected = FALSE /\ outages = 0 /\ queue = <<>>
  /\ view = NoFunction /\ visits = NoFunction /\ stops = {}
  /\ baseline = NoFunction /\ current = NoFunction
  /\ inside = NoFunction /\ completed = {} /\ whole = FALSE /\ firstSeen = NoFunction

--------------------------------------------------------------------------------
(* The feed *)

\* at is the moment of the entry or exit that an update reports, and its timestamp
\* when it is stamped. A snapshot tells no moment, and of the other updates nothing
\* is timed: these have 0 and are not stamped.
Frame(topic, initial, at, stamped, payload) ==
  [topic |-> topic, initial |-> initial, at |-> at, stamped |-> stamped, payload |-> payload]

\* An update reaches the queue while the connection is up and the queue has room.
Delivered == connected /\ Len(queue) < QueueSize

\* SignalRFeed._on_message and _offer: an update is put on the queue, or lost.
Publish(topic, at, stamped, payload) ==
  /\ queue' = IF Delivered THEN Append(queue, Frame(topic, FALSE, at, stamped, payload))
              ELSE queue
  /\ whole' = (whole /\ Delivered)

\* The cars ranked by their best laps.
RankOf(time) == [c \in DOMAIN time |-> Cardinality({d \in DOMAIN time : time[d] < time[c]}) + 1]

\* A visit is seen when every update from its entry to its exit was delivered, and
\* these two carry the feed's clock.
Unseen == [c \in DOMAIN inside |-> [inside[c] EXCEPT !.seen = @ /\ Delivered]]

Event ==
  /\ events < MaxEvents
  /\ events' = events + 1
  /\ UNCHANGED <<now, connected, outages, collector, firstSeen>>

\* A car comes back at the earliest a tick after it left: a visit is known by
\* its car and the moment it began.
EnterPit(c, stamped) ==
  /\ Event
  /\ ~world.pit[c]
  /\ \A v \in completed : v.car = c => v.to < now
  /\ world' = [world EXCEPT !.pit[c] = TRUE]
  /\ Publish("TimingData", now, stamped, [pit |-> [d \in {c} |-> TRUE], place |-> NoFunction])
  /\ inside' = [d \in DOMAIN inside \cup {c} |->
                  IF d = c THEN [from |-> now, status |-> world.status,
                                 seen |-> whole /\ Delivered /\ stamped]
                  ELSE Unseen[d]]
  /\ UNCHANGED completed

LeavePit(c, stamped) ==
  /\ Event
  /\ world.pit[c]
  /\ world' = [world EXCEPT !.pit[c] = FALSE]
  /\ Publish("TimingData", now, stamped, [pit |-> [d \in {c} |-> FALSE], place |-> NoFunction])
  /\ completed' = completed \cup
       {[car |-> c, from |-> inside[c].from, to |-> now, before |-> inside[c].status,
         after |-> world.status, seen |-> Unseen[c].seen /\ stamped]}
  /\ inside' = [d \in DOMAIN inside \ {c} |-> Unseen[d]]

\* Two neighbours exchange their places; one update carries both.
Overtake(a, b) ==
  /\ Event
  /\ world.place[a] = world.place[b] + 1
  /\ world' = [world EXCEPT !.place[a] = world.place[b], !.place[b] = world.place[a]]
  /\ Publish("TimingData", 0, FALSE,
             [pit |-> NoFunction, place |-> [c \in {a, b} |-> world.place[IF c = a THEN b ELSE a]]])
  /\ inside' = Unseen
  /\ UNCHANGED completed

ChangeStatus(status) ==
  /\ Event
  /\ status # world.status
  /\ world' = [world EXCEPT !.status = status]
  /\ Publish("SessionStatus", 0, FALSE, status)
  /\ inside' = Unseen
  /\ UNCHANGED completed

\* Race control sends a message: an update keyed by the index of the new message.
SendMessage ==
  /\ Event
  /\ world' = [world EXCEPT !.messages = @ + 1]
  /\ Publish("RaceControlMessages", 0, FALSE,
             [array |-> FALSE, items |-> [i \in {world.messages} |-> i + 1]])
  /\ inside' = Unseen
  /\ UNCHANGED completed

\* A car sets the fastest lap so far: its time, and every rank that moves.
SetFastestLap(c) ==
  /\ Event
  /\ LET best == Min({MaxEvents + 1} \cup Range(world.time))
         time == Merge(world.time, [d \in {c} |-> best - 1])
         rank == RankOf(time)
         was  == RankOf(world.time)
         moved == {d \in DOMAIN time : d \in DOMAIN was => rank[d] # was[d]}
     IN /\ world' = [world EXCEPT !.time = time]
        /\ Publish("TimingStats", 0, FALSE,
                   [time |-> [d \in {c} |-> time[d]], rank |-> [d \in moved |-> rank[d]]])
  /\ inside' = Unseen
  /\ UNCHANGED completed

Tick ==
  /\ now < MaxTime
  /\ now' = now + 1
  /\ UNCHANGED <<world, events, connected, outages, queue, collector, history>>

\* What the server answers to Subscribe; a topic with nothing in it is absent.
Listed == {"TimingData", "SessionStatus"}
            \cup (IF world.messages = 0 THEN {} ELSE {"RaceControlMessages"})
            \cup (IF DOMAIN world.time = {} THEN {} ELSE {"TimingStats"})
Snapshot ==
  [topic \in Listed |->
     CASE topic = "TimingData"          -> [pit |-> world.pit, place |-> world.place]
       [] topic = "SessionStatus"       -> world.status
       [] topic = "RaceControlMessages" -> [array |-> TRUE,
                                            items |-> [i \in 0..(world.messages - 1) |-> i + 1]]
       [] topic = "TimingStats"         -> [time |-> world.time, rank |-> RankOf(world.time)]]

\* SignalRFeed.stream: a new queue, filled with the snapshot of every topic.
\* The collector comes back to it only when the queue before it is consumed.
Connect(order) ==
  /\ ~connected /\ queue = <<>>
  /\ ToSet(order) = Listed /\ Len(order) = Cardinality(Listed)
  /\ connected' = TRUE
  /\ whole' = TRUE
  /\ firstSeen' = IF firstSeen = NoFunction THEN world.place ELSE firstSeen
  /\ queue' = [i \in DOMAIN order |-> Frame(order[i], TRUE, 0, FALSE, Snapshot[order[i]])]
  /\ UNCHANGED <<session, outages, collector, inside, completed>>

\* The connection is lost; the frames already on the queue are still consumed.
Disconnect ==
  /\ connected /\ outages < MaxOutages
  /\ connected' = FALSE
  /\ outages' = outages + 1
  /\ whole' = FALSE
  /\ inside' = [c \in DOMAIN inside |-> [inside[c] EXCEPT !.seen = FALSE]]
  /\ UNCHANGED <<session, queue, collector, completed, firstSeen>>

--------------------------------------------------------------------------------
(* The trackers *)

\* Mutant: every frame is timed on arrival.
OnArrival(frame) == now

\* The feed's clock where the frame carries it, else the clock of arrival.
Moment(frame) == IF frame.stamped THEN frame.at ELSE now

\* Mutant: an entry seen on a snapshot counts like any other.
AlwaysObserved(frame) == TRUE

\* An entry seen on a snapshot began at an unknown moment.
ObservedEntry(frame) == ~frame.initial

\* PitStopTracker.observe: an entry opens a visit over any earlier one; an exit
\* closes it, as a stop when the entry was observed, the time is plausible and
\* the session is in the state the visit began in.
ObservePits(frame, status) ==
  LET pit     == frame.payload.pit
      moment  == Moment(frame)
      entered == {c \in DOMAIN pit : pit[c]}
      left    == {c \in DOMAIN pit \ entered : c \in DOMAIN visits}
      Elapsed(c) == moment - visits[c].startedAt
      Timed(c) == /\ visits[c].observed
                  /\ Elapsed(c) > 0 /\ Elapsed(c) < Limit
                  /\ status # "" => visits[c].status = status
  IN /\ visits' = [c \in (DOMAIN visits \ left) \cup entered |->
                     IF c \in entered
                       THEN [startedAt |-> moment, status |-> status,
                             observed |-> ObservedEntry(frame),
                             entry |-> frame.at, stamped |-> frame.stamped]
                       ELSE visits[c]]
     /\ stops' = stops \cup
          {[car |-> c, entered |-> visits[c].startedAt, seconds |-> Elapsed(c),
            entry |-> visits[c].entry, stamped |-> visits[c].stamped] :
             c \in {d \in left : Timed(d)}}

\* PositionTracker.observe: the first place seen is the baseline, and no later
\* frame, a snapshot included, changes it.
ObservePositions(frame) ==
  /\ baseline' = Merge(frame.payload.place, baseline)
  /\ current' = Merge(current, frame.payload.place)

\* PositionTracker.movement: places gained since the car was first seen.
Gained(c) == baseline[c] - current[c]

\* Mutant: the trackers are not told of snapshots.
OnlyUpdatesTold(frame, merged) == merged # view /\ frame.topic = "TimingData" /\ ~frame.initial

\* A frame that changes nothing is a replay: the trackers are not told of it.
Told(frame, merged) == merged # view /\ frame.topic = "TimingData"

\* LiveCollector._handle: a frame that changes nothing is dropped before the
\* trackers; the status they are told is the merged view's.
Handle ==
  /\ queue # <<>>
  /\ queue' = Tail(queue)
  /\ LET frame  == Head(queue)
         merged == apply(view, frame)
     IN /\ view' = merged
        /\ IF Told(frame, merged)
             THEN ObservePositions(frame) /\ ObservePits(frame, session_status(merged))
             ELSE UNCHANGED <<visits, stops, baseline, current>>
  /\ UNCHANGED <<session, connected, outages, history>>

--------------------------------------------------------------------------------
SessionEvent ==
  \/ \E c \in Cars, stamped \in BOOLEAN : EnterPit(c, stamped) \/ LeavePit(c, stamped)
  \/ \E c \in Cars : SetFastestLap(c)
  \/ \E a, b \in Cars : Overtake(a, b)
  \/ \E status \in Statuses : ChangeStatus(status)
  \/ SendMessage

Next ==
  \/ SessionEvent
  \/ Tick
  \/ \E order \in SnapshotOrders : Connect(order)
  \/ Disconnect
  \/ Handle

Spec == Init /\ [][Next]_vars

--------------------------------------------------------------------------------
(* Properties *)

\* Everything the feed has sent since the last snapshot was delivered and read.
CaughtUp == connected /\ whole /\ queue = <<>>

\* A caught-up board shows the session as it is: every car in its place, the
\* cars in the pit lane, the status and the fastest lap; and the places each
\* car has gained are counted from the first snapshot of all, whatever was
\* lost and however often the feed reconnected in between.
BoardCurrent ==
  CaughtUp =>
    /\ Rows(view) \in SetToSeqs(Cars)
    /\ \A i, j \in DOMAIN Rows(view) :
         i < j => world.place[Rows(view)[i]] < world.place[Rows(view)[j]]
    /\ RowsInPit(view) = {c \in Cars : world.pit[c]}
    /\ session_status(view) = world.status
    /\ fastest_lap(view) = IF DOMAIN world.time = {} THEN NoCar
                           ELSE CHOOSE c \in DOMAIN world.time :
                                  \A d \in DOMAIN world.time : world.time[c] <= world.time[d]
    /\ \A c \in Cars : Gained(c) = firstSeen[c] - world.place[c]

\* What a visit must be to count as a stop: longer than nothing, shorter than
\* the limit, and left in the session status it was entered in.
Racing(v) == v.to > v.from /\ v.to - v.from < Limit /\ v.before = v.after

\* What is recorded of a visit that is timed on the feed's clock.
Record(v) == [car |-> v.car, entered |-> v.from, seconds |-> v.to - v.from,
              entry |-> v.from, stamped |-> TRUE]

\* Of the visits whose updates all arrived, stamped at both ends, exactly the racing
\* stops are recorded, with the time from entry to exit on the feed's clock, however
\* late the frames were handled, whatever other cars' frames came between and
\* whichever of the other visits were timed on arrival.
StopsExact ==
  queue = <<>> => \A v \in completed : v.seen => (Racing(v) <=> Record(v) \in stops)

\* Whatever was lost, no stop is invented: an update of the entry to a real visit
\* opened it, and it ended no earlier than that visit did, not even when its exit was
\* timed on arrival, or was the exit of a later visit. With the feed's clock on the
\* entry it is therefore not shorter than the visit. Without it, it may be: by the
\* time the update waited (pit_stops.py, "arrival time is the fallback").
NeverShort ==
  \A s \in stops : \E v \in completed :
    /\ v.car = s.car /\ v.from = s.entry
    /\ v.from <= s.entered /\ s.seconds > 0 /\ v.to <= s.entered + s.seconds
    /\ s.stamped => s.entered = v.from

\* The open visits are the cars the board shows in the pit lane.
TrackersAgree == DOMAIN visits = RowsInPit(view)

\* "the dashboard shows the most recent messages": a caught-up board shows the
\* newest messages race control has sent.
NewestMessagesShown ==
  CaughtUp =>
    race_control(view) =
      [i \in 1..Min({MaxShown, world.messages}) |-> world.messages + 1 - i]
================================================================================
