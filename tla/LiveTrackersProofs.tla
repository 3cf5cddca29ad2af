------------------------- MODULE LiveTrackersProofs -------------------------
(***************************************************************************)
(* For any cars, queue, limits and snapshot orders, whatever updates are   *)
(* late, lost or without the feed's clock: the tracker's open visits are   *)
(* the cars the board shows in the pit lane, and every recorded stop was   *)
(* opened by the entry to a real visit and ended no earlier than it; with  *)
(* the feed's clock on the entry it is not shorter. Of the visits whose    *)
(* updates all arrived, stamped at both ends, exactly the racing stops are *)
(* recorded, and a board that has caught up shows the session as it is.    *)
(*                                                                         *)
(* The first needs that a snapshot names every car.  The second needs what *)
(* the queue may still bring: after an observed entry, the first exit that *)
(* it reports is not earlier than the exit of the visit that began then.   *)
(* The last two need what the merged view will be after each frame that    *)
(* is still queued: the last of these views shows the session, the entry   *)
(* of every visit that is still seen has been told or will be, and the     *)
(* exit of every visit that was seen is still to be told or is settled.    *)
(***************************************************************************)
EXTENDS LiveTrackers, SequenceTheorems, FiniteSetTheorems, TLAPS

(* A frame says that a car is, or is not, in the pit lane. *)
Says(f, c, value) ==
  f.topic = "TimingData" /\ c \in DOMAIN f.payload.pit /\ f.payload.pit[c] = value

FrameOK(f) ==
  /\ f.topic \in Topics /\ f.initial \in BOOLEAN /\ f.at \in Nat
  /\ f.stamped => ~f.initial
  /\ f.topic = "TimingData" =>
       /\ DOMAIN f.payload.pit \subseteq Cars
       /\ \A c \in DOMAIN f.payload.pit : f.payload.pit[c] \in BOOLEAN
       /\ f.initial => DOMAIN f.payload.pit = Cars

QueueOK ==
  /\ \E S : queue \in Seq(S)
  /\ \A i \in 1..Len(queue) : FrameOK(queue[i]) /\ queue[i].at <= now

WorldOK ==
  /\ world = [pit |-> world.pit, place |-> world.place, status |-> world.status,
              messages |-> world.messages, time |-> world.time]
  /\ world.pit \in [Cars -> BOOLEAN]

HistoryOK ==
  /\ DOMAIN inside = {c \in Cars : world.pit[c]}
  /\ \A c \in DOMAIN inside :
       /\ inside[c] = [from |-> inside[c].from, status |-> inside[c].status,
                       seen |-> inside[c].seen]
       /\ inside[c].from \in Nat
  /\ \A v \in completed : v.from \in Nat /\ v.to \in Nat /\ v.to <= now

ViewOK ==
  "TimingData" \in DOMAIN view =>
    /\ DOMAIN view["TimingData"].pit \subseteq Cars
    /\ \A c \in DOMAIN view["TimingData"].pit : view["TimingData"].pit[c] \in BOOLEAN

(* A visit is timed from its entry when the entry carried the feed's clock, and *)
(* no earlier when it carried none.                                             *)
VisitsOK ==
  \A c \in DOMAIN visits :
    /\ visits[c].startedAt \in Nat /\ visits[c].entry \in Nat
    /\ visits[c].entry <= visits[c].startedAt
    /\ visits[c].stamped => visits[c].startedAt = visits[c].entry

Base == now \in Nat \ {0} /\ QueueOK /\ WorldOK /\ HistoryOK /\ ViewOK /\ VisitsOK

(* After the i-th frame of q: the car has been inside since s and no exit is *)
(* reported, or it was inside from s and the updates report no earlier exit. *)
Real(q, in, done, c, s, i) ==
  \/ /\ c \in DOMAIN in /\ in[c].from = s
     /\ \A j \in 1..Len(q) : j > i => ~Says(q[j], c, FALSE)
  \/ \E v \in done :
       /\ v.car = c /\ v.from = s
       /\ \A j \in 1..Len(q) :
            j > i /\ Says(q[j], c, FALSE) /\ ~q[j].initial => v.to <= q[j].at

EntriesReal(q, in, done) ==
  \A i \in 1..Len(q), c \in Cars :
    Says(q[i], c, TRUE) /\ ~q[i].initial => Real(q, in, done, c, q[i].at, i)
VisitsReal(q, in, done, open) ==
  \A c \in DOMAIN open : open[c].observed => Real(q, in, done, c, open[c].entry, 0)

Truth ==
  /\ VisitsReal(queue, inside, completed, visits)
  /\ EntriesReal(queue, inside, completed)
  /\ NeverShort

Inv == Base /\ TrackersAgree /\ Truth

--------------------------------------------------------------------------------
(* Sequences *)

LEMMA AppendFrame ==
    ASSUME NEW S, NEW q \in Seq(S), NEW e
    PROVE  /\ Append(q, e) \in Seq(S \cup {e})
           /\ Len(Append(q, e)) = Len(q) + 1 /\ Len(q) \in Nat
           /\ \A i \in 1..Len(q) : Append(q, e)[i] = q[i]
           /\ Append(q, e)[Len(q) + 1] = e
<1>1. q \in Seq(S \cup {e})
  OBVIOUS
<1>. QED BY <1>1

LEMMA TailOfQueue ==
    ASSUME NEW S, NEW q \in Seq(S), q # <<>>
    PROVE  /\ Tail(q) \in Seq(S)
           /\ Len(Tail(q)) = Len(q) - 1 /\ Len(q) \in Nat /\ Len(q) >= 1
           /\ \A i \in 1..Len(Tail(q)) : Tail(q)[i] = q[i + 1] /\ i + 1 \in 1..Len(q)
           /\ Head(q) = q[1]
OBVIOUS

--------------------------------------------------------------------------------
(* Updates that are put on the queue or lost *)

Grows(q, p, f) ==
  \/ p = q
  \/ /\ Len(p) = Len(q) + 1
     /\ \A i \in 1..Len(q) : p[i] = q[i]
     /\ p[Len(q) + 1] = f

LEMMA PublishedQueue ==
    ASSUME QueueOK, now \in Nat \ {0}, now' = now, NEW topic \in Topics, NEW payload,
           NEW at \in {now, 0}, NEW stamped \in BOOLEAN, Publish(topic, at, stamped, payload),
           topic = "TimingData" => /\ DOMAIN payload.pit \subseteq Cars
                                   /\ \A c \in DOMAIN payload.pit : payload.pit[c] \in BOOLEAN
    PROVE  /\ QueueOK' /\ Grows(queue, queue', Frame(topic, FALSE, at, stamped, payload))
           /\ Len(queue) \in Nat
<1>. DEFINE f == Frame(topic, FALSE, at, stamped, payload)
<1>1. FrameOK(f) /\ f.at <= now
  BY DEF FrameOK, Frame
<1>2. PICK S : queue \in Seq(S)
  BY DEF QueueOK
<1>3. queue' = queue \/ queue' = Append(queue, f)
  BY DEF Publish
<1>. HIDE DEF f
<1>4. CASE queue' = queue
  BY <1>2, <1>4 DEF QueueOK, Grows, f
<1>5. CASE queue' = Append(queue, f)
  <2>1. /\ queue' \in Seq(S \cup {f}) /\ Len(queue') = Len(queue) + 1 /\ Len(queue) \in Nat
        /\ \A i \in 1..Len(queue) : queue'[i] = queue[i]
        /\ queue'[Len(queue) + 1] = f
    BY <1>2, <1>5, AppendFrame
  <2>2. \A i \in 1..Len(queue') : i \in 1..Len(queue) \/ i = Len(queue) + 1
    BY <2>1
  <2>3. \A i \in 1..Len(queue') : FrameOK(queue'[i]) /\ queue'[i].at <= now
    BY <1>1, <2>1, <2>2 DEF QueueOK
  <2>. QED BY <2>1, <2>3 DEF QueueOK, Grows, f
<1>. QED BY <1>3, <1>4, <1>5

LEMMA GrownQueue ==
    ASSUME NEW q, NEW p, Len(q) \in Nat, NEW f, Grows(q, p, f), NEW j \in 1..Len(p)
    PROVE  \/ j \in 1..Len(q) /\ p[j] = q[j]
           \/ j = Len(q) + 1 /\ p[j] = f
<1>1. CASE p = q
  BY <1>1
<1>2. CASE /\ Len(p) = Len(q) + 1
           /\ \A i \in 1..Len(q) : p[i] = q[i]
           /\ p[Len(q) + 1] = f
  <2>1. j \in 1..Len(q) \/ j = Len(q) + 1
    BY <1>2
  <2>. QED BY <1>2, <2>1
<1>. QED BY <1>1, <1>2 DEF Grows

(* A car keeps what is real of it when nothing says that it left. *)
LEMMA RealKept ==
    ASSUME NEW q, NEW p, Len(q) \in Nat, NEW f, Grows(q, p, f),
           NEW in, NEW in2, NEW done, NEW done2, done \subseteq done2,
           NEW c, ~Says(f, c, FALSE),
           c \in DOMAIN in => c \in DOMAIN in2 /\ in2[c].from = in[c].from,
           NEW s, NEW i, Real(q, in, done, c, s, i)
    PROVE  Real(p, in2, done2, c, s, i)
<1>1. ASSUME NEW j \in 1..Len(p), Says(p[j], c, FALSE)
      PROVE  j \in 1..Len(q) /\ p[j] = q[j]
  <2>1. p[j] # f
    BY <1>1
  <2>2. (j \in 1..Len(q) /\ p[j] = q[j]) \/ p[j] = f
    BY <1>1, GrownQueue
  <2>. QED BY <2>1, <2>2
<1>2. CASE /\ c \in DOMAIN in /\ in[c].from = s
           /\ \A j \in 1..Len(q) : j > i => ~Says(q[j], c, FALSE)
  <2>1. \A j \in 1..Len(p) : j > i => ~Says(p[j], c, FALSE)
    BY <1>1, <1>2
  <2>. QED BY <1>2, <2>1 DEF Real
<1>3. ASSUME NEW v \in done, v.car = c, v.from = s,
             \A j \in 1..Len(q) :
               j > i /\ Says(q[j], c, FALSE) /\ ~q[j].initial => v.to <= q[j].at
      PROVE  Real(p, in2, done2, c, s, i)
  <2>1. \A j \in 1..Len(p) :
          j > i /\ Says(p[j], c, FALSE) /\ ~p[j].initial => v.to <= p[j].at
    BY <1>1, <1>3
  <2>2. v \in done2
    OBVIOUS
  <2>. QED BY <1>3, <2>1, <2>2 DEF Real
<1>. QED BY <1>2, <1>3 DEF Real

(* The car that leaves: what was real of its visit is now a completed visit, *)
(* and the update of the exit carries the moment of it.                      *)
LEMMA RealLeft ==
    ASSUME NEW q, NEW p, Len(q) \in Nat, NEW f, Grows(q, p, f),
           NEW in, NEW in2, NEW done, NEW done2,
           NEW c, c \in DOMAIN in, f.at \in Nat,
           NEW v \in done2, v.car = c, v.from = in[c].from, v.to = f.at,
           done \subseteq done2, \A w \in done : w.to \in Nat /\ w.to <= f.at,
           NEW s, NEW i, Real(q, in, done, c, s, i)
    PROVE  Real(p, in2, done2, c, s, i)
<1>1. \A j \in 1..Len(p) : (j \in 1..Len(q) /\ p[j] = q[j]) \/ p[j] = f
  BY GrownQueue
<1>2. CASE /\ c \in DOMAIN in /\ in[c].from = s
           /\ \A j \in 1..Len(q) : j > i => ~Says(q[j], c, FALSE)
  <2>1. \A j \in 1..Len(p) :
          j > i /\ Says(p[j], c, FALSE) /\ ~p[j].initial => v.to <= p[j].at
    <3>1. \A j \in 1..Len(p) : j > i /\ Says(p[j], c, FALSE) => p[j] = f
      BY <1>1, <1>2
    <3>2. v.to <= f.at
      OBVIOUS
    <3>. QED BY <3>1, <3>2
  <2>. QED BY <1>2, <2>1 DEF Real
<1>3. ASSUME NEW w \in done, w.car = c, w.from = s,
             \A j \in 1..Len(q) :
               j > i /\ Says(q[j], c, FALSE) /\ ~q[j].initial => w.to <= q[j].at
      PROVE  Real(p, in2, done2, c, s, i)
  <2>1. \A j \in 1..Len(p) :
          j > i /\ Says(p[j], c, FALSE) /\ ~p[j].initial => w.to <= p[j].at
    <3>1. w.to <= f.at
      OBVIOUS
    <3>. QED BY <1>1, <1>3, <3>1
  <2>2. w \in done2
    OBVIOUS
  <2>. QED BY <1>3, <2>1, <2>2 DEF Real
<1>. QED BY <1>2, <1>3 DEF Real

(* What was real after a frame is real after it once the first frame is read. *)
LEMMA RealShifted ==
    ASSUME NEW S, NEW q \in Seq(S), q # <<>>, NEW in, NEW done, NEW c, NEW s,
           NEW i \in Nat, Real(q, in, done, c, s, i + 1)
    PROVE  Real(Tail(q), in, done, c, s, i)
<1>. DEFINE p == Tail(q)
<1>1. /\ Len(p) = Len(q) - 1 /\ Len(q) \in Nat
      /\ \A j \in 1..Len(p) : p[j] = q[j + 1] /\ j + 1 \in 1..Len(q)
  BY TailOfQueue
<1>. HIDE DEF p
<1>2. \A j \in 1..Len(p) : j > i => j + 1 > i + 1
  BY <1>1
<1>3. Real(p, in, done, c, s, i)
  <2>1. CASE /\ c \in DOMAIN in /\ in[c].from = s
             /\ \A j \in 1..Len(q) : j > i + 1 => ~Says(q[j], c, FALSE)
    <3>1. \A j \in 1..Len(p) : j > i => ~Says(p[j], c, FALSE)
      BY <1>1, <1>2, <2>1
    <3>. QED BY <2>1, <3>1 DEF Real
  <2>2. ASSUME NEW v \in done, v.car = c, v.from = s,
               \A j \in 1..Len(q) :
                 j > i + 1 /\ Says(q[j], c, FALSE) /\ ~q[j].initial => v.to <= q[j].at
        PROVE  Real(p, in, done, c, s, i)
    <3>1. \A j \in 1..Len(p) :
            j > i /\ Says(p[j], c, FALSE) /\ ~p[j].initial => v.to <= p[j].at
      BY <1>1, <1>2, <2>2
    <3>. QED BY <2>2, <3>1 DEF Real
  <2>. QED BY <2>1, <2>2 DEF Real
<1>. QED BY <1>3 DEF p

(* The frames after which something must be real, before and after an update. *)
LEMMA EntriesKept ==
    ASSUME NEW q, NEW p, Len(q) \in Nat, NEW f, Grows(q, p, f),
           NEW in, NEW in2, NEW done, NEW done2, EntriesReal(q, in, done),
           \A c \in Cars : \A s, i : Real(q, in, done, c, s, i) => Real(p, in2, done2, c, s, i),
           \A c \in Cars : Says(f, c, TRUE) => Real(p, in2, done2, c, f.at, Len(q) + 1)
    PROVE  EntriesReal(p, in2, done2)
<1>. SUFFICES ASSUME NEW i \in 1..Len(p), NEW c \in Cars, Says(p[i], c, TRUE), ~p[i].initial
              PROVE  Real(p, in2, done2, c, p[i].at, i)
  BY DEF EntriesReal
<1>1. CASE i \in 1..Len(q) /\ p[i] = q[i]
  <2>1. Real(q, in, done, c, q[i].at, i)
    BY <1>1 DEF EntriesReal
  <2>. QED BY <1>1, <2>1
<1>2. CASE i = Len(q) + 1 /\ p[i] = f
  BY <1>2
<1>. QED BY <1>1, <1>2, GrownQueue

LEMMA ShortKept ==
    ASSUME NeverShort, stops' = stops, completed \subseteq completed'
    PROVE  NeverShort'
BY DEF NeverShort

LEMMA RealLater ==
    ASSUME NEW q, Len(q) \in Nat, NEW in, NEW done, NEW c, NEW s, NEW i \in Nat,
           Real(q, in, done, c, s, i)
    PROVE  Real(q, in, done, c, s, i + 1)
<1>1. \A j \in 1..Len(q) : j > i + 1 => j > i
  OBVIOUS
<1>. QED BY <1>1 DEF Real

--------------------------------------------------------------------------------
(* The session *)

(* An update that says of no car that it entered or left the lane. *)
LEMMA QuietEvent ==
    ASSUME Inv, NEW topic \in Topics, NEW payload, Publish(topic, 0, FALSE, payload),
           topic = "TimingData" => DOMAIN payload.pit = {},
           UNCHANGED <<now, collector, completed>>, inside' = Unseen,
           WorldOK', world'.pit = world.pit
    PROVE  Inv'
<1>. DEFINE f == Frame(topic, FALSE, 0, FALSE, payload)
<1>. USE DEF Inv, Base
<1>1. QueueOK' /\ Grows(queue, queue', f) /\ Len(queue) \in Nat
  BY PublishedQueue
<1>2. \A c, b : ~Says(f, c, b)
  BY DEF Says, Frame
<1>. HIDE DEF f
<1>3. DOMAIN inside' = DOMAIN inside /\ \A c \in DOMAIN inside : inside'[c].from = inside[c].from
  BY DEF Unseen, HistoryOK
<1>4. HistoryOK'
  BY <1>3 DEF HistoryOK, Unseen, WorldOK
<1>5. Base' /\ TrackersAgree'
  BY <1>1, <1>4 DEF collector, ViewOK, VisitsOK, TrackersAgree
<1>6. \A c, s, i : Real(queue, inside, completed, c, s, i)
                     => Real(queue', inside', completed', c, s, i)
  BY <1>1, <1>2, <1>3, RealKept
<1>7. VisitsReal(queue', inside', completed', visits')
  BY <1>6 DEF Truth, VisitsReal, collector
<1>8. EntriesReal(queue', inside', completed')
  BY <1>1, <1>2, <1>6, EntriesKept DEF Truth
<1>9. NeverShort'
  BY ShortKept DEF Truth, collector
<1>. QED BY <1>5, <1>7, <1>8, <1>9 DEF Truth

LEMMA OtherEvents ==
    ASSUME Inv,
           \/ \E c \in Cars : SetFastestLap(c)
           \/ \E a, b \in Cars : Overtake(a, b)
           \/ \E status \in Statuses : ChangeStatus(status)
           \/ SendMessage
    PROVE  Inv'
<1>. USE DEF Event
<1>0. WorldOK
  BY DEF Inv, Base
<1>1. ASSUME NEW c \in Cars, SetFastestLap(c) PROVE Inv'
  <2>1. PICK payload : Publish("TimingStats", 0, FALSE, payload)
    BY <1>1 DEF SetFastestLap
  <2>2. PICK time : world' = [world EXCEPT !.time = time]
    BY <1>1 DEF SetFastestLap
  <2>3. WorldOK' /\ world'.pit = world.pit
    BY <1>0, <2>2 DEF WorldOK
  <2>. QED BY <1>1, <2>1, <2>3, QuietEvent DEF SetFastestLap, Topics
<1>2. ASSUME NEW a \in Cars, NEW b \in Cars, Overtake(a, b) PROVE Inv'
  <2>1. PICK place : Publish("TimingData", 0, FALSE, [pit |-> NoFunction, place |-> place])
    BY <1>2 DEF Overtake
  <2>2. PICK order : world' = [world EXCEPT !.place = order]
    BY <1>2 DEF Overtake
  <2>3. WorldOK' /\ world'.pit = world.pit
    BY <1>0, <2>2 DEF WorldOK
  <2>4. DOMAIN NoFunction = {}
    BY DEF NoFunction
  <2>. QED BY <1>2, <2>1, <2>3, <2>4, QuietEvent DEF Overtake, Topics
<1>3. ASSUME NEW status \in Statuses, ChangeStatus(status) PROVE Inv'
  <2>1. WorldOK' /\ world'.pit = world.pit
    BY <1>0, <1>3 DEF WorldOK, ChangeStatus
  <2>. QED BY <1>3, <2>1, QuietEvent DEF ChangeStatus, Topics
<1>4. ASSUME SendMessage PROVE Inv'
  <2>1. WorldOK' /\ world'.pit = world.pit
    BY <1>0, <1>4 DEF WorldOK, SendMessage
  <2>. QED BY <1>4, <2>1, QuietEvent DEF SendMessage, Topics
<1>. QED BY <1>1, <1>2, <1>3, <1>4

LEMMA UnseenVisits ==
    ASSUME HistoryOK
    PROVE  /\ DOMAIN Unseen = DOMAIN inside
           /\ \A d \in DOMAIN inside :
                /\ Unseen[d].from = inside[d].from
                /\ Unseen[d] = [from |-> Unseen[d].from, status |-> Unseen[d].status,
                                seen |-> Unseen[d].seen]
<1>. SUFFICES ASSUME NEW d \in DOMAIN inside
              PROVE  /\ Unseen[d].from = inside[d].from
                     /\ Unseen[d] = [from |-> Unseen[d].from, status |-> Unseen[d].status,
                                     seen |-> Unseen[d].seen]
  BY DEF Unseen
<1>. DEFINE b == inside[d].seen /\ Delivered
<1>1. Unseen[d] = [inside[d] EXCEPT !.seen = b]
  BY DEF Unseen
<1>2. inside[d] = [from |-> inside[d].from, status |-> inside[d].status, seen |-> inside[d].seen]
  BY DEF HistoryOK
<1>. HIDE DEF b
<1>3. Unseen[d] = [from |-> inside[d].from, status |-> inside[d].status, seen |-> b]
  BY <1>1, <1>2
<1>. QED BY <1>3

LEMMA VisitsUnseen ==
    ASSUME HistoryOK, NEW c \in DOMAIN inside
    PROVE  /\ Unseen[c].from = inside[c].from /\ Unseen[c].status = inside[c].status
           /\ Unseen[c].seen <=> inside[c].seen /\ Delivered
<1>. DEFINE b == inside[c].seen /\ Delivered
<1>1. Unseen[c] = [inside[c] EXCEPT !.seen = b]
  BY DEF Unseen
<1>2. PICK old : old = inside[c] /\ old = [from |-> old.from, status |-> old.status, seen |-> old.seen]
  BY DEF HistoryOK
<1>. HIDE DEF b
<1>3. Unseen[c] = [from |-> old.from, status |-> old.status, seen |-> b]
  BY <1>1, <1>2
<1>4. Unseen[c].from = old.from /\ Unseen[c].status = old.status /\ Unseen[c].seen = b
  BY <1>3
<1>5. Unseen[c].seen <=> inside[c].seen /\ Delivered
  BY <1>4, Zenon DEF b
<1>. QED BY <1>2, <1>4, <1>5

LEMMA EnterPitKeeps ==
    ASSUME Inv, NEW c \in Cars, NEW stamped \in BOOLEAN, EnterPit(c, stamped)
    PROVE  Inv'
<1>. DEFINE payload == [pit |-> [d \in {c} |-> TRUE], place |-> NoFunction]
            f       == Frame("TimingData", FALSE, now, stamped, payload)
<1>. USE DEF Inv, Base
<1>1. QueueOK' /\ Grows(queue, queue', f) /\ Len(queue) \in Nat
  <2>1. Publish("TimingData", now, stamped, payload) /\ "TimingData" \in Topics /\ now' = now
    BY DEF EnterPit, Event, Topics
  <2>. QED BY <2>1, PublishedQueue
<1>2. /\ UNCHANGED <<now, collector, completed>>
      /\ world' = [world EXCEPT !.pit[c] = TRUE] /\ ~world.pit[c]
  BY DEF EnterPit, Event
<1>3. /\ DOMAIN inside' = DOMAIN inside \cup {c} /\ c \notin DOMAIN inside
      /\ inside'[c].from = now
      /\ \A d \in DOMAIN inside : inside'[d].from = inside[d].from
      /\ \A d \in DOMAIN inside' :
           inside'[d] = [from |-> inside'[d].from, status |-> inside'[d].status,
                         seen |-> inside'[d].seen]
  <2>. DEFINE b == whole /\ Delivered /\ stamped
  <2>1. inside' = [d \in DOMAIN inside \cup {c} |->
                     IF d = c THEN [from |-> now, status |-> world.status, seen |-> b]
                     ELSE Unseen[d]]
    BY DEF EnterPit
  <2>. HIDE DEF b
  <2>2. c \notin DOMAIN inside /\ HistoryOK
    BY <1>2 DEF HistoryOK
  <2>. QED BY <2>1, <2>2, UnseenVisits
<1>4. WorldOK' /\ \A d \in Cars : world'.pit[d] <=> (world.pit[d] \/ d = c)
  BY <1>2 DEF WorldOK
<1>5. HistoryOK'
  <2>1. HistoryOK /\ now \in Nat
    OBVIOUS
  <2>. HIDE DEF Inv, Base
  <2>2. DOMAIN inside' = {d \in Cars : world'.pit[d]}
    BY <1>3, <1>4, <2>1 DEF HistoryOK
  <2>3. ASSUME NEW d \in DOMAIN inside' PROVE inside'[d].from \in Nat
    BY <1>3, <2>1 DEF HistoryOK
  <2>4. \A v \in completed' : v.from \in Nat /\ v.to \in Nat /\ v.to <= now'
    BY <1>2, <2>1 DEF HistoryOK
  <2>. QED BY <1>3, <2>2, <2>3, <2>4 DEF HistoryOK
<1>6. Base' /\ TrackersAgree'
  BY <1>1, <1>2, <1>4, <1>5 DEF collector, ViewOK, VisitsOK, TrackersAgree
<1>7. /\ \A d : ~Says(f, d, FALSE)
      /\ \A d : Says(f, d, TRUE) => d = c
      /\ f.at = now
  BY DEF Says, Frame
<1>. HIDE DEF f, payload
<1>8. \A d, s, i : Real(queue, inside, completed, d, s, i)
                     => Real(queue', inside', completed', d, s, i)
  BY <1>1, <1>2, <1>3, <1>7, RealKept
<1>9. Real(queue', inside', completed', c, now, Len(queue) + 1)
  <2>1. \A j \in 1..Len(queue') : ~(j > Len(queue) + 1)
    BY <1>1 DEF Grows
  <2>. QED BY <1>3, <2>1 DEF Real
<1>10. VisitsReal(queue', inside', completed', visits')
  BY <1>2, <1>8 DEF Truth, VisitsReal, collector
<1>11. EntriesReal(queue', inside', completed')
  BY <1>1, <1>7, <1>8, <1>9, EntriesKept DEF Truth
<1>12. NeverShort'
  BY <1>2, ShortKept DEF Truth, collector
<1>. QED BY <1>6, <1>10, <1>11, <1>12 DEF Truth

LEMMA LeavePitKeeps ==
    ASSUME Inv, NEW c \in Cars, NEW stamped \in BOOLEAN, LeavePit(c, stamped)
    PROVE  Inv'
<1>. DEFINE payload == [pit |-> [d \in {c} |-> FALSE], place |-> NoFunction]
            f       == Frame("TimingData", FALSE, now, stamped, payload)
<1>. USE DEF Inv, Base
<1>1. QueueOK' /\ Grows(queue, queue', f) /\ Len(queue) \in Nat
  <2>1. Publish("TimingData", now, stamped, payload) /\ "TimingData" \in Topics /\ now' = now
    BY DEF LeavePit, Event, Topics
  <2>. QED BY <2>1, PublishedQueue
<1>2. /\ UNCHANGED <<now, collector>>
      /\ world' = [world EXCEPT !.pit[c] = FALSE] /\ world.pit[c]
  BY DEF LeavePit, Event
<1>3. /\ DOMAIN inside' = DOMAIN inside \ {c} /\ c \in DOMAIN inside
      /\ \A d \in DOMAIN inside' : inside'[d].from = inside[d].from
      /\ \A d \in DOMAIN inside' :
           inside'[d] = [from |-> inside'[d].from, status |-> inside'[d].status,
                         seen |-> inside'[d].seen]
  <2>1. c \in DOMAIN inside /\ HistoryOK
    BY <1>2 DEF HistoryOK
  <2>2. inside' = [d \in DOMAIN inside \ {c} |-> Unseen[d]]
    BY DEF LeavePit
  <2>. QED BY <2>1, <2>2, UnseenVisits
<1>4. PICK v : /\ completed' = completed \cup {v}
               /\ v.car = c /\ v.from = inside[c].from /\ v.to = now
  <2>. DEFINE v == [car |-> c, from |-> inside[c].from, to |-> now, before |-> inside[c].status,
                    after |-> world.status, seen |-> Unseen[c].seen /\ stamped]
  <2>1. completed' = completed \cup {v}
    BY DEF LeavePit
  <2>2. v.car = c /\ v.from = inside[c].from /\ v.to = now
    OBVIOUS
  <2>. HIDE DEF v
  <2>. QED BY <2>1, <2>2
<1>5. WorldOK' /\ \A d \in Cars : world'.pit[d] <=> (world.pit[d] /\ d # c)
  BY <1>2 DEF WorldOK
<1>6. HistoryOK'
  <2>1. DOMAIN inside' = {d \in Cars : world'.pit[d]}
    BY <1>3, <1>5 DEF HistoryOK
  <2>2. \A d \in DOMAIN inside' : inside'[d].from \in Nat
    BY <1>3 DEF HistoryOK
  <2>3. \A w \in completed' : w.from \in Nat /\ w.to \in Nat /\ w.to <= now
    <3>1. v.from \in Nat
      BY <1>3, <1>4 DEF HistoryOK
    <3>2. v.to \in Nat /\ v.to <= now
      <4>1. now \in Nat /\ now <= now
        OBVIOUS
      <4>. QED BY <1>4, <4>1
    <3>. QED BY <1>4, <3>1, <3>2 DEF HistoryOK
  <2>. QED BY <1>2, <1>3, <2>1, <2>2, <2>3 DEF HistoryOK
<1>7. Base' /\ TrackersAgree'
  BY <1>1, <1>2, <1>5, <1>6 DEF collector, ViewOK, VisitsOK, TrackersAgree
<1>8. /\ \A d : ~Says(f, d, TRUE)
      /\ \A d : Says(f, d, FALSE) => d = c
      /\ f.at = now
  BY DEF Says, Frame
<1>. HIDE DEF f, payload
<1>9. \A d, s, i : Real(queue, inside, completed, d, s, i)
                     => Real(queue', inside', completed', d, s, i)
  <2>1. completed \subseteq completed' /\ v \in completed'
    BY <1>4
  <2>2. \A w \in completed : w.to \in Nat /\ w.to <= f.at
    BY <1>8 DEF HistoryOK
  <2>3. ASSUME NEW s, NEW i, Real(queue, inside, completed, c, s, i)
        PROVE  Real(queue', inside', completed', c, s, i)
    BY <1>1, <1>3, <1>4, <1>8, <2>1, <2>2, <2>3, RealLeft
  <2>4. ASSUME NEW d, d # c, NEW s, NEW i, Real(queue, inside, completed, d, s, i)
        PROVE  Real(queue', inside', completed', d, s, i)
    <3>1. d \in DOMAIN inside => d \in DOMAIN inside' /\ inside'[d].from = inside[d].from
      BY <1>3, <2>4
    <3>2. ~Says(f, d, FALSE)
      BY <1>8, <2>4
    <3>. QED BY <1>1, <2>1, <2>4, <3>1, <3>2, RealKept
  <2>. QED BY <2>3, <2>4
<1>10. VisitsReal(queue', inside', completed', visits')
  BY <1>2, <1>9 DEF Truth, VisitsReal, collector
<1>11. EntriesReal(queue', inside', completed')
  BY <1>1, <1>8, <1>9, EntriesKept DEF Truth
<1>12. NeverShort'
  BY <1>2, <1>4, ShortKept DEF Truth, collector
<1>. QED BY <1>7, <1>10, <1>11, <1>12 DEF Truth

LEMMA TickKeeps == ASSUME Inv, Tick PROVE Inv'
<1>. USE DEF Inv, Base, Tick, collector, history
<1>1. HistoryOK'
  <2>1. \A v \in completed : v.from \in Nat /\ v.to \in Nat /\ v.to <= now'
    <3>1. \A n \in Nat : n <= now => n <= now'
      OBVIOUS
    <3>. QED BY <3>1 DEF HistoryOK
  <2>. QED BY <2>1 DEF HistoryOK
<1>4. QueueOK'
  <2>1. \A n \in Nat : n <= now => n <= now'
    OBVIOUS
  <2>2. \A i \in 1..Len(queue) : queue[i].at \in Nat
    BY DEF QueueOK, FrameOK
  <2>. QED BY <2>1, <2>2 DEF QueueOK
<1>2. Base' /\ TrackersAgree'
  BY <1>1, <1>4 DEF WorldOK, ViewOK, VisitsOK, TrackersAgree
<1>3. Truth'
  BY DEF Truth, VisitsReal, EntriesReal, NeverShort
<1>. QED BY <1>2, <1>3

--------------------------------------------------------------------------------
(* The connection *)

LEMMA FramesAreSequence ==
    ASSUME NEW n \in Nat, NEW q, q = [i \in 1..n |-> q[i]]
    PROVE  q \in Seq({q[i] : i \in 1..n}) /\ Len(q) = n
<1>1. q \in [1..n -> {q[i] : i \in 1..n}]
  OBVIOUS
<1>. QED BY <1>1, SeqDef

LEMMA ConnectKeeps == ASSUME Inv, NEW order \in SnapshotOrders, Connect(order) PROVE Inv'
<1>. USE DEF Inv, Base
<1>1. /\ UNCHANGED <<now, world, view, visits, stops, inside, completed>>
      /\ queue' = [i \in DOMAIN order |-> Frame(order[i], TRUE, 0, FALSE, Snapshot[order[i]])]
      /\ ToSet(order) = Listed /\ order \in Seq(Topics)
  BY OrdersAssumption DEF Connect, session, collector
<1>2. \A i \in 1..Len(order) : order[i] \in Listed
  BY <1>1 DEF ToSet
<1>3. /\ queue' \in Seq({queue'[i] : i \in 1..Len(order)}) /\ Len(queue') = Len(order)
      /\ Len(order) \in Nat
  <2>1. Len(order) \in Nat /\ DOMAIN order = 1..Len(order)
    BY <1>1
  <2>2. queue' = [i \in 1..Len(order) |-> queue'[i]]
    BY <1>1, <2>1
  <2>. QED BY <2>1, <2>2, FramesAreSequence
<1>4. \A i \in 1..Len(queue') :
        /\ queue'[i].topic \in Topics /\ queue'[i].initial = TRUE /\ queue'[i].at = 0
        /\ queue'[i].stamped = FALSE
        /\ queue'[i].topic = "TimingData" => queue'[i].payload.pit = world.pit
  <2>. SUFFICES ASSUME NEW i \in 1..Len(queue')
                PROVE  /\ queue'[i].topic \in Topics /\ queue'[i].initial = TRUE
                       /\ queue'[i].at = 0 /\ queue'[i].stamped = FALSE
                       /\ queue'[i].topic = "TimingData" => queue'[i].payload.pit = world.pit
    OBVIOUS
  <2>1. queue'[i] = Frame(order[i], TRUE, 0, FALSE, Snapshot[order[i]])
    BY <1>1, <1>3
  <2>2. order[i] \in Topics /\ order[i] \in Listed
    BY <1>1, <1>2, <1>3
  <2>3. ASSUME "TimingData" \in Listed PROVE Snapshot["TimingData"].pit = world.pit
    BY <2>3 DEF Snapshot
  <2>. QED BY <2>1, <2>2, <2>3 DEF Frame
<1>5. QueueOK'
  <2>1. \A i \in 1..Len(queue') : FrameOK(queue'[i]) /\ queue'[i].at <= now
    <3>1. DOMAIN world.pit = Cars /\ \A c \in Cars : world.pit[c] \in BOOLEAN
      BY DEF WorldOK
    <3>. SUFFICES ASSUME NEW i \in 1..Len(queue')
                  PROVE  FrameOK(queue'[i]) /\ queue'[i].at <= now
      OBVIOUS
    <3>2. queue'[i].initial \in BOOLEAN /\ queue'[i].stamped = FALSE
      BY <1>4
    <3>3. queue'[i].topic \in Topics /\ queue'[i].at \in Nat /\ queue'[i].at <= now
      BY <1>4
    <3>4. queue'[i].topic = "TimingData" => queue'[i].payload.pit = world.pit
      BY <1>4
    <3>. QED BY <3>1, <3>2, <3>3, <3>4 DEF FrameOK
  <2>. QED BY <1>1, <1>3, <2>1 DEF QueueOK
<1>6. Base' /\ TrackersAgree'
  BY <1>1, <1>5 DEF WorldOK, HistoryOK, ViewOK, VisitsOK, TrackersAgree
<1>7. \A c, s : Real(queue, inside, completed, c, s, 0)
                  => Real(queue', inside', completed', c, s, 0)
  <2>1. \A c \in DOMAIN inside : world.pit[c]
    BY DEF HistoryOK
  <2>2. \A c \in DOMAIN inside : \A j \in 1..Len(queue') : ~Says(queue'[j], c, FALSE)
    BY <1>4, <2>1 DEF Says
  <2>. QED BY <1>1, <1>4, <2>2 DEF Real
<1>8. VisitsReal(queue', inside', completed', visits')
  BY <1>1, <1>7 DEF Truth, VisitsReal
<1>9. EntriesReal(queue', inside', completed')
  BY <1>4 DEF EntriesReal
<1>10. NeverShort'
  BY <1>1, ShortKept DEF Truth
<1>. QED BY <1>6, <1>8, <1>9, <1>10 DEF Truth

LEMMA DisconnectKeeps == ASSUME Inv, Disconnect PROVE Inv'
<1>. USE DEF Inv, Base
<1>1. UNCHANGED <<now, world, queue, view, visits, stops, completed>>
  BY DEF Disconnect, session, collector
<1>2. /\ DOMAIN inside' = DOMAIN inside
      /\ \A c \in DOMAIN inside : inside'[c].from = inside[c].from
      /\ \A c \in DOMAIN inside' :
           inside'[c] = [from |-> inside'[c].from, status |-> inside'[c].status,
                         seen |-> inside'[c].seen]
  <2>1. \A c \in DOMAIN inside :
          inside[c] = [from |-> inside[c].from, status |-> inside[c].status,
                       seen |-> inside[c].seen]
    BY DEF HistoryOK
  <2>2. inside' = [c \in DOMAIN inside |-> [inside[c] EXCEPT !.seen = FALSE]]
    BY DEF Disconnect
  <2>3. \A c \in DOMAIN inside :
          inside'[c] = [from |-> inside[c].from, status |-> inside[c].status, seen |-> FALSE]
    <3>. SUFFICES ASSUME NEW c \in DOMAIN inside
                  PROVE  inside'[c] = [from |-> inside[c].from, status |-> inside[c].status,
                                       seen |-> FALSE]
      OBVIOUS
    <3>1. inside'[c] = [inside[c] EXCEPT !.seen = FALSE]
      BY <2>2
    <3>. QED BY <2>1, <3>1
  <2>. QED BY <2>2, <2>3
<1>3. HistoryOK'
  <2>0. HistoryOK /\ UNCHANGED <<now, world, completed>>
    BY <1>1
  <2>. HIDE DEF Inv, Base
  <2>1. DOMAIN inside' = {c \in Cars : world'.pit[c]}
    BY <1>2, <2>0 DEF HistoryOK
  <2>2. ASSUME NEW c \in DOMAIN inside'
        PROVE  /\ inside'[c] = [from |-> inside'[c].from, status |-> inside'[c].status,
                                seen |-> inside'[c].seen]
               /\ inside'[c].from \in Nat
    BY <1>2, <2>0 DEF HistoryOK
  <2>. QED BY <2>0, <2>1, <2>2 DEF HistoryOK
<1>4. Base' /\ TrackersAgree'
  <2>1. QueueOK' /\ WorldOK' /\ ViewOK' /\ VisitsOK'
    BY <1>1 DEF QueueOK, WorldOK, ViewOK, VisitsOK
  <2>2. TrackersAgree'
    BY <1>1 DEF TrackersAgree
  <2>. QED BY <1>1, <1>3, <2>1, <2>2
<1>5. \A c, s, i : Real(queue, inside, completed, c, s, i)
                     => Real(queue', inside', completed', c, s, i)
  <2>1. queue' = queue /\ completed' = completed
    BY <1>1
  <2>. HIDE DEF Inv, Base
  <2>. QED BY <1>2, <2>1 DEF Real
<1>6. VisitsReal(queue', inside', completed', visits')
  BY <1>1, <1>5 DEF Truth, VisitsReal
<1>7. EntriesReal(queue', inside', completed')
  BY <1>1, <1>5 DEF Truth, EntriesReal
<1>8. NeverShort'
  BY <1>1, ShortKept DEF Truth
<1>. QED BY <1>4, <1>6, <1>7, <1>8 DEF Truth

--------------------------------------------------------------------------------
(* A frame is read *)

Entered(f) == {c \in DOMAIN f.payload.pit : f.payload.pit[c]}
Exited(f) == {c \in DOMAIN f.payload.pit : ~f.payload.pit[c]}

LEMMA OtherTopic ==
    ASSUME ViewOK, NEW f, f.topic # "TimingData", view' = apply(view, f)
    PROVE  ViewOK' /\ RowsInPit(view') = RowsInPit(view)
<1>1. /\ "TimingData" \in DOMAIN view' <=> "TimingData" \in DOMAIN view
      /\ "TimingData" \in DOMAIN view => view'["TimingData"] = view["TimingData"]
  BY DEF apply
<1>. QED BY <1>1 DEF ViewOK, RowsInPit

(* What timing data does to the cars the board shows in the pit lane. *)
LEMMA TimingData ==
    ASSUME ViewOK, NEW f, FrameOK(f), f.topic = "TimingData", view' = apply(view, f)
    PROVE  ViewOK' /\ RowsInPit(view') = (RowsInPit(view) \ Exited(f)) \cup Entered(f)
<1>. DEFINE pit == f.payload.pit
<1>1. DOMAIN pit \subseteq Cars /\ \A c \in DOMAIN pit : pit[c] \in BOOLEAN
  BY DEF FrameOK
<1>2. "TimingData" \in DOMAIN view'
  BY DEF apply
<1>3. CASE f.initial \/ "TimingData" \notin DOMAIN view
  <2>1. view'["TimingData"].pit = pit
    BY <1>3 DEF apply
  <2>2. RowsInPit(view) \subseteq Cars /\ (~f.initial => RowsInPit(view) = {})
    BY <1>3 DEF ViewOK, RowsInPit
  <2>3. f.initial => DOMAIN pit = Cars
    BY DEF FrameOK
  <2>4. RowsInPit(view') = Entered(f)
    BY <1>2, <2>1 DEF RowsInPit, Entered
  <2>5. RowsInPit(view) \subseteq Exited(f) \cup Entered(f)
    BY <1>1, <2>2, <2>3 DEF Exited, Entered
  <2>. QED BY <1>1, <1>2, <2>1, <2>4, <2>5 DEF ViewOK
<1>4. CASE ~f.initial /\ "TimingData" \in DOMAIN view
  <2>. DEFINE old == view["TimingData"].pit
  <2>1. view'["TimingData"] = merge_delta("TimingData", view["TimingData"], f.payload)
    BY <1>4 DEF apply
  <2>2. view'["TimingData"].pit = Merge(old, pit)
    BY <2>1 DEF merge_delta
  <2>3. DOMAIN old \subseteq Cars /\ \A c \in DOMAIN old : old[c] \in BOOLEAN
    BY <1>4 DEF ViewOK
  <2>4. RowsInPit(view) = {c \in DOMAIN old : old[c]}
    BY <1>4 DEF RowsInPit
  <2>5. RowsInPit(view') = {c \in DOMAIN Merge(old, pit) : Merge(old, pit)[c]}
    BY <1>2, <2>2 DEF RowsInPit
  <2>. HIDE DEF old, pit
  <2>6. RowsInPit(view') = (RowsInPit(view) \ {c \in DOMAIN pit : ~pit[c]})
                            \cup {c \in DOMAIN pit : pit[c]}
    BY <2>4, <2>5 DEF Merge
  <2>7. /\ DOMAIN Merge(old, pit) \subseteq Cars
        /\ \A c \in DOMAIN Merge(old, pit) : Merge(old, pit)[c] \in BOOLEAN
    BY <1>1, <2>3 DEF Merge
  <2>8. ViewOK'
    BY <2>2, <2>7 DEF ViewOK
  <2>. QED BY <2>6, <2>8 DEF pit, Exited, Entered
<1>. QED BY <1>3, <1>4

(* What the pit tracker does with timing data. *)
LEMMA PitsObserved ==
    ASSUME NEW f, FrameOK(f), f.topic = "TimingData", NEW status, ObservePits(f, status)
    PROVE  /\ DOMAIN visits' = (DOMAIN visits \ Exited(f)) \cup Entered(f)
           /\ \A c \in Entered(f) : /\ visits'[c].startedAt = Moment(f)
                                     /\ visits'[c].observed = ~f.initial
                                     /\ visits'[c].entry = f.at
                                     /\ visits'[c].stamped = f.stamped
           /\ \A c \in DOMAIN visits' \ Entered(f) : visits'[c] = visits[c]
           /\ \A s \in stops' \ stops : \E c \in Exited(f) \cap DOMAIN visits :
                /\ visits[c].observed
                /\ s.car = c /\ s.entered = visits[c].startedAt
                /\ s.seconds = Moment(f) - visits[c].startedAt /\ s.seconds > 0
                /\ s.entry = visits[c].entry /\ s.stamped = visits[c].stamped
<1>. DEFINE pit     == f.payload.pit
            entered == {c \in DOMAIN pit : pit[c]}
            left    == {c \in DOMAIN pit \ entered : c \in DOMAIN visits}
            seen    == ObservedEntry(f)
            moment  == Moment(f)
<1>1. \A c \in DOMAIN pit : pit[c] \in BOOLEAN
  BY DEF FrameOK
<1>2. visits' = [c \in (DOMAIN visits \ left) \cup entered |->
                   IF c \in entered
                     THEN [startedAt |-> moment, status |-> status, observed |-> seen,
                           entry |-> f.at, stamped |-> f.stamped]
                     ELSE visits[c]]
  BY DEF ObservePits
<1>3. stops' \subseteq stops \cup
        {[car |-> c, entered |-> visits[c].startedAt, seconds |-> moment - visits[c].startedAt,
          entry |-> visits[c].entry, stamped |-> visits[c].stamped] :
           c \in {d \in left : visits[d].observed /\ moment - visits[d].startedAt > 0}}
  BY DEF ObservePits
<1>4. entered = Entered(f) /\ left = Exited(f) \cap DOMAIN visits
  BY <1>1 DEF Entered, Exited
<1>5. seen = ~f.initial
  BY DEF ObservedEntry
<1>. HIDE DEF pit, entered, left, seen, moment
<1>6. \A c \in entered : /\ visits'[c].startedAt = moment /\ visits'[c].observed = seen
                          /\ visits'[c].entry = f.at /\ visits'[c].stamped = f.stamped
  BY <1>2
<1>7. \A s \in stops' \ stops : \E c \in left :
        /\ visits[c].observed
        /\ s.car = c /\ s.entered = visits[c].startedAt
        /\ s.seconds = moment - visits[c].startedAt /\ s.seconds > 0
        /\ s.entry = visits[c].entry /\ s.stamped = visits[c].stamped
  BY <1>3
<1>8. DOMAIN visits' = (DOMAIN visits \ left) \cup entered
  BY <1>2
<1>9. \A c \in DOMAIN visits' \ entered : visits'[c] = visits[c]
  BY <1>2
<1>. QED BY <1>4, <1>5, <1>6, <1>7, <1>8, <1>9 DEF moment

(* Handle, with its frame and what it does with it named. *)
LEMMA HandledFrame ==
    ASSUME Inv, Handle
    PROVE  \E f :
             /\ queue # <<>> /\ f = queue[1] /\ FrameOK(f) /\ f.at <= now
             /\ Len(queue) \in Nat /\ Len(queue) >= 1
             /\ queue' = Tail(queue) /\ QueueOK' /\ view' = apply(view, f)
             /\ UNCHANGED <<now, world, inside, completed>>
             /\ \/ f.topic = "TimingData" /\ ObservePits(f, session_status(view'))
                \/ /\ f.topic # "TimingData" \/ view' = view
                   /\ UNCHANGED <<visits, stops>>
<1>. DEFINE f == Head(queue)
<1>1. queue # <<>> /\ queue' = Tail(queue) /\ view' = apply(view, f)
      /\ UNCHANGED <<now, world, inside, completed>>
  BY DEF Handle, session, history
<1>2. PICK S : queue \in Seq(S)
  BY DEF Inv, Base, QueueOK
<1>3. /\ queue' \in Seq(S) /\ Len(queue') = Len(queue) - 1 /\ Len(queue) \in Nat
      /\ Len(queue) >= 1 /\ f = queue[1]
      /\ \A i \in 1..Len(queue') : queue'[i] = queue[i + 1] /\ i + 1 \in 1..Len(queue)
  BY <1>1, <1>2, TailOfQueue
<1>4. \A i \in 1..Len(queue) : FrameOK(queue[i]) /\ queue[i].at <= now
  BY DEF Inv, Base, QueueOK
<1>5. QueueOK' /\ FrameOK(f) /\ f.at <= now
  <2>1. 1 \in 1..Len(queue)
    BY <1>3
  <2>. QED BY <1>1, <1>3, <1>4, <2>1 DEF QueueOK
<1>6. \/ f.topic = "TimingData" /\ ObservePits(f, session_status(view'))
      \/ (f.topic # "TimingData" \/ view' = view) /\ UNCHANGED <<visits, stops>>
  BY DEF Handle, Told
<1>. HIDE DEF f
<1>. QED BY <1>1, <1>3, <1>5, <1>6

LEMMA MomentOfFrame ==
    ASSUME now \in Nat \ {0}, NEW f, FrameOK(f), f.at <= now
    PROVE  /\ Moment(f) \in Nat /\ f.at \in Nat /\ f.at <= Moment(f)
           /\ f.stamped => Moment(f) = f.at
           /\ f.initial => Moment(f) = now
<1>1. f.at \in Nat /\ (f.stamped => ~f.initial)
  BY DEF FrameOK
<1>2. CASE f.stamped
  BY <1>1, <1>2 DEF Moment
<1>3. CASE ~f.stamped
  <2>1. Moment(f) = now
    BY <1>3 DEF Moment
  <2>. QED BY <1>1, <1>3, <2>1
<1>. QED BY <1>2, <1>3

LEMMA HandleAgrees == ASSUME Inv, Handle PROVE Base' /\ TrackersAgree'
<1>1. PICK f :
        /\ FrameOK(f) /\ f.at <= now /\ QueueOK' /\ view' = apply(view, f)
        /\ UNCHANGED <<now, world, inside, completed>>
        /\ \/ f.topic = "TimingData" /\ ObservePits(f, session_status(view'))
           \/ /\ f.topic # "TimingData" \/ view' = view
              /\ UNCHANGED <<visits, stops>>
  BY HandledFrame
<1>2. now \in Nat \ {0} /\ ViewOK /\ WorldOK /\ HistoryOK /\ TrackersAgree /\ VisitsOK
  BY DEF Inv, Base
<1>3. WorldOK' /\ HistoryOK'
  BY <1>1, <1>2 DEF WorldOK, HistoryOK
<1>4. CASE f.topic = "TimingData" /\ ObservePits(f, session_status(view'))
  <2>1. ViewOK' /\ RowsInPit(view') = (RowsInPit(view) \ Exited(f)) \cup Entered(f)
    BY <1>1, <1>2, <1>4, TimingData
  <2>2. /\ DOMAIN visits' = (DOMAIN visits \ Exited(f)) \cup Entered(f)
        /\ \A c \in Entered(f) : /\ visits'[c].startedAt = Moment(f)
                                  /\ visits'[c].entry = f.at
                                  /\ visits'[c].stamped = f.stamped
        /\ \A c \in DOMAIN visits' \ Entered(f) : visits'[c] = visits[c]
    BY <1>1, <1>4, PitsObserved
  <2>3. VisitsOK'
    BY <1>1, <1>2, <2>2, MomentOfFrame DEF VisitsOK
  <2>. QED BY <1>1, <1>2, <1>3, <2>1, <2>2, <2>3 DEF Base, TrackersAgree
<1>5. CASE f.topic # "TimingData" /\ UNCHANGED <<visits, stops>>
  <2>1. ViewOK' /\ RowsInPit(view') = RowsInPit(view)
    BY <1>1, <1>2, <1>5, OtherTopic
  <2>. QED BY <1>1, <1>2, <1>3, <1>5, <2>1 DEF Base, VisitsOK, TrackersAgree
<1>6. CASE view' = view /\ UNCHANGED <<visits, stops>>
  BY <1>1, <1>2, <1>3, <1>6 DEF Base, TrackersAgree, ViewOK, VisitsOK
<1>. QED BY <1>1, <1>4, <1>5, <1>6

LEMMA HandleIsTrue == ASSUME Inv, Handle PROVE Truth'
<1>1. PICK f :
        /\ queue # <<>> /\ f = queue[1] /\ FrameOK(f) /\ f.at <= now
        /\ Len(queue) \in Nat /\ Len(queue) >= 1
        /\ queue' = Tail(queue)
        /\ UNCHANGED <<now, inside, completed>>
        /\ \/ f.topic = "TimingData" /\ ObservePits(f, session_status(view'))
           \/ UNCHANGED <<visits, stops>>
  BY HandledFrame
<1>2. now \in Nat \ {0} /\ HistoryOK /\ Truth /\ VisitsOK
  BY DEF Inv, Base
<1>3. PICK S : queue \in Seq(S)
  BY DEF Inv, Base, QueueOK
<1>4. ASSUME NEW c, NEW s, NEW i \in Nat, Real(queue, inside, completed, c, s, i + 1)
      PROVE  Real(queue', inside', completed', c, s, i)
  BY <1>1, <1>3, <1>4, RealShifted
<1>5. ASSUME NEW c, NEW s, Real(queue, inside, completed, c, s, 0)
      PROVE  Real(queue', inside', completed', c, s, 0)
  <2>1. Real(queue, inside, completed, c, s, 0 + 1)
    BY <1>1, <1>5, RealLater
  <2>. QED BY <1>4, <2>1
<1>6. EntriesReal(queue', inside', completed')
  <2>. SUFFICES ASSUME NEW i \in 1..Len(queue'), NEW c \in Cars,
                       Says(queue'[i], c, TRUE), ~queue'[i].initial
                PROVE  Real(queue', inside', completed', c, queue'[i].at, i)
    BY DEF EntriesReal
  <2>1. queue'[i] = queue[i + 1] /\ i + 1 \in 1..Len(queue) /\ i \in Nat
    BY <1>1, <1>3, TailOfQueue
  <2>2. Real(queue, inside, completed, c, queue[i + 1].at, i + 1)
    BY <1>2, <2>1 DEF Truth, EntriesReal
  <2>. QED BY <1>4, <2>1, <2>2
<1>7. CASE UNCHANGED <<visits, stops>>
  <2>1. VisitsReal(queue', inside', completed', visits')
    BY <1>2, <1>5, <1>7 DEF Truth, VisitsReal
  <2>2. NeverShort'
    BY <1>1, <1>2, <1>7, ShortKept DEF Truth
  <2>. QED BY <1>6, <2>1, <2>2 DEF Truth
<1>8. CASE f.topic = "TimingData" /\ ObservePits(f, session_status(view'))
  <2>1. /\ DOMAIN visits' = (DOMAIN visits \ Exited(f)) \cup Entered(f)
        /\ \A c \in Entered(f) : /\ visits'[c].entry = f.at
                                  /\ visits'[c].observed = ~f.initial
        /\ \A c \in DOMAIN visits' \ Entered(f) : visits'[c] = visits[c]
        /\ \A s \in stops' \ stops : \E c \in Exited(f) \cap DOMAIN visits :
             /\ visits[c].observed
             /\ s.car = c /\ s.entered = visits[c].startedAt
             /\ s.seconds = Moment(f) - visits[c].startedAt /\ s.seconds > 0
             /\ s.entry = visits[c].entry /\ s.stamped = visits[c].stamped
    <3>1. PICK status : ObservePits(f, status)
      BY <1>8, Zenon
    <3>2. FrameOK(f) /\ f.topic = "TimingData"
      BY <1>1, <1>8
    <3>. QED BY <3>1, <3>2, PitsObserved
  <2>2. Moment(f) \in Nat /\ f.at \in Nat /\ f.at <= Moment(f)
        /\ (f.initial => Moment(f) = now)
    BY <1>1, <1>2, MomentOfFrame
  <2>3. /\ \A c \in Entered(f) : Says(f, c, TRUE) /\ c \in Cars
        /\ \A c \in Exited(f) : Says(f, c, FALSE)
    BY <1>1, <1>8 DEF Says, Entered, Exited, FrameOK
  <2>4. 1 \in 1..Len(queue)
    BY <1>1
  <2>5. ASSUME NEW c \in Entered(f), ~f.initial
        PROVE  Real(queue', inside', completed', c, f.at, 0)
    <3>1. EntriesReal(queue, inside, completed)
      BY <1>2 DEF Truth
    <3>2. Says(queue[1], c, TRUE) /\ ~queue[1].initial /\ c \in Cars
      BY <1>1, <2>3, <2>5
    <3>3. Real(queue, inside, completed, c, queue[1].at, 1)
      BY <2>4, <3>1, <3>2 DEF EntriesReal
    <3>4. Real(queue, inside, completed, c, f.at, 0 + 1)
      BY <1>1, <3>3
    <3>. QED BY <1>4, <3>4
  <2>6. VisitsReal(queue', inside', completed', visits')
    <3>. SUFFICES ASSUME NEW c \in DOMAIN visits', visits'[c].observed
                  PROVE  Real(queue', inside', completed', c, visits'[c].entry, 0)
      BY DEF VisitsReal
    <3>1. CASE c \in Entered(f)
      BY <2>1, <2>2, <2>5, <3>1
    <3>2. CASE c \notin Entered(f)
      <4>1. c \in DOMAIN visits /\ visits'[c] = visits[c]
        BY <2>1, <3>2
      <4>2. Real(queue, inside, completed, c, visits[c].entry, 0)
        BY <1>2, <4>1 DEF Truth, VisitsReal
      <4>. QED BY <1>5, <4>1, <4>2
    <3>. QED BY <3>1, <3>2
  <2>7. ASSUME NEW s \in stops' \ stops
        PROVE  \E v \in completed :
                 /\ v.car = s.car /\ v.from = s.entry
                 /\ v.from <= s.entered /\ s.seconds > 0 /\ v.to <= s.entered + s.seconds
                 /\ s.stamped => s.entered = v.from
    <3>1. PICK c \in Exited(f) \cap DOMAIN visits :
            /\ visits[c].observed
            /\ s.car = c /\ s.entered = visits[c].startedAt
            /\ s.seconds = Moment(f) - visits[c].startedAt /\ s.seconds > 0
            /\ s.entry = visits[c].entry /\ s.stamped = visits[c].stamped
      BY <2>1, <2>7
    <3>2. Real(queue, inside, completed, c, visits[c].entry, 0)
      BY <1>2, <3>1 DEF Truth, VisitsReal
    <3>3. Says(queue[1], c, FALSE)
      BY <1>1, <2>3, <3>1
    <3>4. PICK v \in completed :
            /\ v.car = c /\ v.from = visits[c].entry
            /\ ~f.initial => v.to <= f.at
      <4>1. \/ \A j \in 1..Len(queue) : j > 0 => ~Says(queue[j], c, FALSE)
            \/ \E v \in completed :
                 /\ v.car = c /\ v.from = visits[c].entry
                 /\ \A j \in 1..Len(queue) :
                      j > 0 /\ Says(queue[j], c, FALSE) /\ ~queue[j].initial
                        => v.to <= queue[j].at
        BY <3>2 DEF Real
      <4>2. 1 > 0
        OBVIOUS
      <4>3. PICK v \in completed :
              /\ v.car = c /\ v.from = visits[c].entry
              /\ \A j \in 1..Len(queue) :
                   j > 0 /\ Says(queue[j], c, FALSE) /\ ~queue[j].initial
                     => v.to <= queue[j].at
        BY <2>4, <3>3, <4>1, <4>2
      <4>4. ~queue[1].initial => v.to <= queue[1].at
        BY <2>4, <3>3, <4>2, <4>3
      <4>. QED BY <1>1, <4>3, <4>4
    <3>5. v.to \in Nat /\ v.to <= now
      BY <1>2 DEF HistoryOK
    <3>6. v.to <= Moment(f)
      BY <2>2, <3>4, <3>5
    <3>7. /\ visits[c].startedAt \in Nat /\ visits[c].entry <= visits[c].startedAt
          /\ visits[c].stamped => visits[c].startedAt = visits[c].entry
      BY <1>2, <3>1 DEF VisitsOK
    <3>8. v.to <= s.entered + s.seconds
      BY <2>2, <3>1, <3>5, <3>6, <3>7
    <3>. QED BY <3>1, <3>4, <3>7, <3>8
  <2>8. NeverShort'
    <3>1. completed' = completed /\ NeverShort
      BY <1>1, <1>2 DEF Truth
    <3>. QED BY <2>7, <3>1 DEF NeverShort
  <2>. QED BY <1>6, <2>6, <2>8 DEF Truth
<1>. QED BY <1>1, <1>7, <1>8

--------------------------------------------------------------------------------
(* The first invariant *)

LEMMA Starts == ASSUME Init PROVE Inv
<1>. USE DEF Init
<1>1. DOMAIN NoFunction = {}
  BY DEF NoFunction
<1>2. QueueOK
  <2>1. queue \in Seq({}) /\ Len(queue) = 0
    OBVIOUS
  <2>. QED BY <2>1 DEF QueueOK
<1>3. WorldOK /\ \A c \in Cars : ~world.pit[c]
  BY DEF WorldOK
<1>4. HistoryOK /\ ViewOK /\ VisitsOK
  BY <1>1, <1>3 DEF HistoryOK, ViewOK, VisitsOK
<1>5. TrackersAgree
  BY <1>1 DEF TrackersAgree, RowsInPit
<1>6. Truth
  BY <1>1 DEF Truth, VisitsReal, EntriesReal, NeverShort
<1>. QED BY <1>1, <1>2, <1>3, <1>4, <1>5, <1>6 DEF Inv, Base

LEMMA Stutters == ASSUME Inv, UNCHANGED vars PROVE Inv'
<1>. USE DEF Inv, Base, vars, session, collector, history
<1>1. Base' /\ TrackersAgree'
  BY DEF QueueOK, WorldOK, HistoryOK, ViewOK, VisitsOK, TrackersAgree
<1>2. Truth'
  BY DEF Truth, VisitsReal, EntriesReal, NeverShort
<1>. QED BY <1>1, <1>2

LEMMA NextKeeps == ASSUME Inv, [Next]_vars PROVE Inv'
<1>1. CASE SessionEvent
  BY <1>1, EnterPitKeeps, LeavePitKeeps, OtherEvents DEF SessionEvent
<1>2. CASE Tick
  BY <1>2, TickKeeps
<1>3. CASE \E order \in SnapshotOrders : Connect(order)
  BY <1>3, ConnectKeeps
<1>4. CASE Disconnect
  BY <1>4, DisconnectKeeps
<1>5. CASE Handle
  BY <1>5, HandleAgrees, HandleIsTrue DEF Inv
<1>6. CASE UNCHANGED vars
  BY <1>6, Stutters
<1>. QED BY <1>1, <1>2, <1>3, <1>4, <1>5, <1>6 DEF Next

(* The invariant is inductive. *)
THEOREM Invariant == Spec => []Inv
<1>1. Init => Inv
  BY Starts
<1>2. Inv /\ [Next]_vars => Inv'
  BY NextKeeps
<1>. QED BY <1>1, <1>2, PTL DEF Spec

(* The tracker's open visits are always the cars that the board shows in the *)
(* lane (live/pit_stops.py, live/board.py).                                  *)
THEOREM PitsMatchBoard == Spec => []TrackersAgree
BY Invariant, PTL DEF Inv

(* Whatever updates the queue or an outage loses, every recorded stop was    *)
(* opened by the entry to a real visit and ended no earlier than it; timed   *)
(* from the feed's clock, it is not shorter (live/pit_stops.py).             *)
THEOREM StopsAreReal == Spec => []NeverShort
BY Invariant, PTL DEF Inv, Truth

--------------------------------------------------------------------------------
(* What the views to come will show.  g runs over the views: g[0] is the     *)
(* merged view, g[i] the view once the i-th frame of the queue is read.      *)

Path(g) ==
  /\ g[0] = view
  /\ \A i \in 1..Len(queue) : g[i] = apply(g[i - 1], queue[i])

(* A view that shows the session as it is. *)
Shows(v) ==
  /\ "TimingData" \in DOMAIN v /\ "SessionStatus" \in DOMAIN v
  /\ v["TimingData"].pit = world.pit /\ v["TimingData"].place = world.place
  /\ v["SessionStatus"] = world.status
  /\ "TimingStats" \in DOMAIN v <=> DOMAIN world.time # {}
  /\ "TimingStats" \in DOMAIN v =>
       v["TimingStats"].time = world.time /\ v["TimingStats"].rank = RankOf(world.time)

(* While nothing is lost, the last of the views shows the session. *)
EndsCurrent(g) ==
  /\ whole => connected /\ Shows(g[Len(queue)])
  /\ \A i \in 0..Len(queue) : "TimingStats" \in DOMAIN g[i] => DOMAIN world.time # {}

PitFrame(f, c) == f.topic = "TimingData" /\ c \in DOMAIN f.payload.pit

(* The i-th frame is an update that tells the trackers of the car, and when. *)
Reports(g, i, c, value, moment, status) ==
  /\ Says(queue[i], c, value) /\ ~queue[i].initial
  /\ queue[i].at = moment /\ queue[i].stamped
  /\ session_status(g[i]) = status
  /\ g[i] # g[i - 1]

(* An open visit whose entry was an update with the feed's clock. *)
Timed(moment, status) ==
  [startedAt |-> moment, status |-> status, observed |-> TRUE, entry |-> moment, stamped |-> TRUE]

(* Before the k-th frame is read, the tracker has the car in an open visit   *)
(* that began at moment, in status.                                          *)
Begun(g, k, c, moment, status) ==
  \/ /\ c \in DOMAIN visits
     /\ visits[c] = Timed(moment, status)
     /\ \A j \in 1..Len(queue) : j < k => ~PitFrame(queue[j], c)
  \/ \E i \in 1..Len(queue) :
       /\ i < k /\ Reports(g, i, c, TRUE, moment, status)
       /\ \A j \in 1..Len(queue) : i < j /\ j < k => ~PitFrame(queue[j], c)

(* A moment at which a visit of the car began is still to be closed. *)
EntryUpdate(f, c) == Says(f, c, TRUE) /\ ~f.initial
Coming(c, moment) ==
  \/ c \in DOMAIN visits /\ visits[c].observed /\ visits[c].entry = moment
  \/ \E i \in 1..Len(queue) : EntryUpdate(queue[i], c) /\ queue[i].at = moment

InsideSeen(g) ==
  \A c \in DOMAIN inside : inside[c].seen =>
    whole /\ Begun(g, Len(queue) + 1, c, inside[c].from, inside[c].status)

Pending(g, v) ==
  \E k \in 1..Len(queue) :
    /\ Reports(g, k, v.car, FALSE, v.to, v.after)
    /\ Begun(g, k, v.car, v.from, v.before)
Settled(v) == ~Coming(v.car, v.from) /\ (Racing(v) <=> Record(v) \in stops)
CompletedSeen(g) == \A v \in completed : v.seen => Pending(g, v) \/ Settled(v)

(* Each entry is timed once at most. *)
Once ==
  /\ \A c \in Cars : \A i, j \in 1..Len(queue) :
       /\ EntryUpdate(queue[i], c) /\ EntryUpdate(queue[j], c)
       /\ queue[i].at = queue[j].at
       => i = j
  /\ \A c \in DOMAIN visits : visits[c].observed =>
       \A i \in 1..Len(queue) : EntryUpdate(queue[i], c) => queue[i].at # visits[c].entry
  /\ \A s \in stops : ~Coming(s.car, s.entry)

Times ==
  /\ \A c \in DOMAIN inside : inside[c].from <= now
  /\ \A v \in completed : v.from <= v.to /\ v.after # ""
  /\ world.status \in Statuses

(* The places are 1 to the number of cars, and the best lap is one car's. *)
Standings ==
  /\ world.place \in [Cars -> 1..Cardinality(Cars)]
  /\ \A a, b \in Cars : world.place[a] = world.place[b] => a = b
  /\ \A i \in 1..Cardinality(Cars) : \E c \in Cars : world.place[c] = i
  /\ DOMAIN world.time \subseteq Cars
  /\ world.time \in [DOMAIN world.time -> Int]
  /\ DOMAIN world.time # {} =>
       \E b \in DOMAIN world.time : \A d \in DOMAIN world.time \ {b} : world.time[b] < world.time[d]

(* The position tracker holds the view's places, and counts from the first snapshot. *)
Positions ==
  /\ view = [t \in DOMAIN view |-> view[t]]
  /\ current = IF "TimingData" \in DOMAIN view THEN view["TimingData"].place ELSE NoFunction
  /\ \/ /\ "TimingData" \in DOMAIN view
        /\ baseline \in [Cars -> Int] /\ firstSeen = baseline /\ DOMAIN current = Cars
     \/ /\ "TimingData" \notin DOMAIN view /\ baseline = NoFunction
        /\ firstSeen = NoFunction /\ ~connected /\ queue = <<>>
     \/ /\ "TimingData" \notin DOMAIN view /\ baseline = NoFunction
        /\ firstSeen \in [Cars -> Int]
        /\ \E k \in 1..Len(queue) :
             /\ queue[k].topic = "TimingData"
             /\ \A j \in 1..k : queue[j].topic = "TimingData" =>
                                queue[j].initial /\ queue[j].payload.place = firstSeen

(* The places a frame of timing data carries are of cars, a snapshot's of all. *)
PlaceOK(f) ==
  f.topic = "TimingData" =>
    /\ f.payload.place = [c \in DOMAIN f.payload.place |-> f.payload.place[c]]
    /\ DOMAIN f.payload.place \subseteq Cars
    /\ f.initial => DOMAIN f.payload.place = Cars
PlacesOK == \A i \in 1..Len(queue) : PlaceOK(queue[i])

Following(g) == Path(g) /\ EndsCurrent(g) /\ InsideSeen(g) /\ CompletedSeen(g)

--------------------------------------------------------------------------------
(* An update that is put on the queue or lost *)

Published(f) ==
  /\ FrameOK(f) /\ PlaceOK(f) /\ ~f.initial
  /\ queue' = IF Delivered THEN Append(queue, f) ELSE queue
  /\ whole' = (whole /\ Delivered)
  /\ UNCHANGED <<now, connected, view, visits, stops, baseline, current, firstSeen>>

Follows(g, h, f) ==
  /\ \A i \in 0..Len(queue) : h[i] = g[i]
  /\ Len(queue') = Len(queue) + 1 => h[Len(queue) + 1] = apply(g[Len(queue)], f)

LEMMA PublishedGrows ==
    ASSUME Inv, NEW f, Published(f)
    PROVE  /\ Len(queue) \in Nat /\ Grows(queue, queue', f)
           /\ whole' => whole
           /\ Delivered => Len(queue') = Len(queue) + 1
           /\ ~Delivered => ~whole' /\ queue' = queue
<1>1. PICK S : queue \in Seq(S)
  BY DEF Inv, Base, QueueOK
<1>2. /\ Len(Append(queue, f)) = Len(queue) + 1 /\ Len(queue) \in Nat
      /\ \A i \in 1..Len(queue) : Append(queue, f)[i] = queue[i]
      /\ Append(queue, f)[Len(queue) + 1] = f
  BY <1>1, AppendFrame
<1>3. Grows(queue, Append(queue, f), f) /\ Grows(queue, queue, f)
  BY <1>2 DEF Grows
<1>. QED BY <1>2, <1>3 DEF Published

LEMMA ViewsFollow ==
    ASSUME Inv, NEW f, Published(f), NEW g, Path(g)
    PROVE  \E h : Follows(g, h, f) /\ Path(h)'
<1>. DEFINE n == Len(queue)
            h == [i \in 0..(n + 1) |-> IF i \in 0..n THEN g[i] ELSE apply(g[n], f)]
<1>1. /\ n \in Nat /\ Grows(queue, queue', f)
      /\ g[0] = view /\ view' = view /\ \A i \in 1..n : g[i] = apply(g[i - 1], queue[i])
  BY PublishedGrows DEF Path, Published
<1>2. /\ \A i \in 0..n : h[i] = g[i]
      /\ h[n + 1] = apply(g[n], f)
  <2>. HIDE DEF n
  <2>. QED BY <1>1
<1>. HIDE DEF h
<1>3. \A i \in 1..Len(queue') : h[i] = apply(h[i - 1], queue'[i])
  <2>. SUFFICES ASSUME NEW i \in 1..Len(queue') PROVE h[i] = apply(h[i - 1], queue'[i])
    OBVIOUS
  <2>1. CASE i \in 1..n /\ queue'[i] = queue[i]
    <3>1. i \in 0..n /\ i - 1 \in 0..n
      BY <1>1, <2>1
    <3>. QED BY <1>1, <1>2, <2>1, <3>1
  <2>2. CASE i = n + 1 /\ queue'[i] = f
    <3>1. i - 1 = n /\ n \in 0..n
      BY <1>1, <2>2
    <3>. QED BY <1>2, <2>2, <3>1
  <2>. QED BY <1>1, <2>1, <2>2, GrownQueue
<1>4. h[0] = view'
  <2>1. 0 \in 0..n
    BY <1>1
  <2>. QED BY <1>1, <1>2, <2>1
<1>. QED BY <1>2, <1>3, <1>4 DEF Follows, Path

(* What has begun by the k-th frame is not disturbed by a later one. *)
LEMMA ReportsKept ==
    ASSUME Inv, NEW f, Published(f), NEW g, NEW h, Follows(g, h, f),
           NEW i \in 1..Len(queue), NEW c, NEW b, NEW m, NEW s, Reports(g, i, c, b, m, s)
    PROVE  Reports(h, i, c, b, m, s)' /\ i \in 1..Len(queue')
<1>1. Len(queue) \in Nat /\ Grows(queue, queue', f)
  BY PublishedGrows
<1>2. i \in 1..Len(queue') /\ queue'[i] = queue[i]
  BY <1>1 DEF Grows
<1>3. h[i] = g[i] /\ h[i - 1] = g[i - 1]
  <2>1. i \in 0..Len(queue) /\ i - 1 \in 0..Len(queue)
    BY <1>1
  <2>. QED BY <2>1 DEF Follows
<1>. QED BY <1>2, <1>3 DEF Reports

LEMMA BegunKept ==
    ASSUME Inv, NEW f, Published(f), NEW g, NEW h, Follows(g, h, f),
           NEW k \in 1..(Len(queue) + 1), NEW c, NEW m, NEW s, Begun(g, k, c, m, s)
    PROVE  Begun(h, k, c, m, s)'
<1>1. Len(queue) \in Nat /\ Grows(queue, queue', f)
  BY PublishedGrows
<1>2. visits' = visits
  BY DEF Published
<1>3. \A j \in 1..Len(queue') : j < k => j \in 1..Len(queue) /\ queue'[j] = queue[j]
  BY <1>1 DEF Grows
<1>4. ASSUME NEW i \in 1..Len(queue), i < k, Reports(g, i, c, TRUE, m, s),
             \A j \in 1..Len(queue) : i < j /\ j < k => ~PitFrame(queue[j], c)
      PROVE  Begun(h, k, c, m, s)'
  <2>1. Reports(h, i, c, TRUE, m, s)' /\ i \in 1..Len(queue')
    BY <1>4, ReportsKept
  <2>2. \A j \in 1..Len(queue') : i < j /\ j < k => ~PitFrame(queue'[j], c)
    BY <1>3, <1>4
  <2>. QED BY <1>4, <2>1, <2>2 DEF Begun
<1>5. ASSUME c \in DOMAIN visits,
             visits[c] = Timed(m, s),
             \A j \in 1..Len(queue) : j < k => ~PitFrame(queue[j], c)
      PROVE  Begun(h, k, c, m, s)'
  <2>1. \A j \in 1..Len(queue') : j < k => ~PitFrame(queue'[j], c)
    BY <1>3, <1>5
  <2>. QED BY <1>2, <1>5, <2>1 DEF Begun
<1>. QED BY <1>4, <1>5 DEF Begun

(* A visit goes on when the update says nothing of the car. *)
LEMMA BegunLasts ==
    ASSUME Inv, NEW f, Published(f), Delivered, NEW g, NEW h, Follows(g, h, f),
           NEW c, ~PitFrame(f, c), NEW m, NEW s, Begun(g, Len(queue) + 1, c, m, s)
    PROVE  Begun(h, Len(queue) + 1, c, m, s)'
<1>. DEFINE k == Len(queue) + 1
<1>1. Len(queue) \in Nat /\ Grows(queue, queue', f) /\ Len(queue') = k
  BY PublishedGrows
<1>3. PICK l : l = Len(queue) + 1
  OBVIOUS
<1>4. Begun(h, l, c, m, s)'
  <2>1. l \in 1..(Len(queue) + 1) /\ Begun(g, l, c, m, s)
    BY <1>1, <1>3
  <2>. QED BY <2>1, BegunKept
<1>5. \A j \in 1..Len(queue') : j < l + 1 => j < l \/ ~PitFrame(queue'[j], c)
  <2>. SUFFICES ASSUME NEW j \in 1..Len(queue'), ~(j < l)
                PROVE  ~PitFrame(queue'[j], c)
    OBVIOUS
  <2>1. queue'[j] = f
    BY <1>1, <1>3, GrownQueue
  <2>. QED BY <2>1
<1>6. Len(queue') + 1 = l + 1 /\ \A i \in 1..Len(queue') : i < l => i < l + 1
  BY <1>1, <1>3
<1>. QED BY <1>4, <1>5, <1>6 DEF Begun

--------------------------------------------------------------------------------
(* Such an update, and the parts of what is to come *)

(* The moment of an update that says a car entered is no earlier visit's. *)
New(f) ==
  \A c \in Cars : EntryUpdate(f, c) =>
    /\ ~Coming(c, f.at)
    /\ \A s \in stops : s.car = c => s.entry # f.at
    /\ \A v \in completed : v.car = c => v.from # f.at

LEMMA EntriesOfCars ==
    ASSUME NEW f, FrameOK(f), NEW c, EntryUpdate(f, c)
    PROVE  c \in Cars
BY DEF FrameOK, EntryUpdate, Says

LEMMA ComingKept ==
    ASSUME Inv, NEW f, Published(f), NEW c, NEW m, Coming(c, m)'
    PROVE  Coming(c, m) \/ (EntryUpdate(f, c) /\ f.at = m)
<1>1. Len(queue) \in Nat /\ Grows(queue, queue', f) /\ visits' = visits
  BY PublishedGrows DEF Published
<1>2. ASSUME NEW i \in 1..Len(queue'), EntryUpdate(queue'[i], c), queue'[i].at = m
      PROVE  Coming(c, m) \/ (EntryUpdate(f, c) /\ f.at = m)
  <2>1. (i \in 1..Len(queue) /\ queue'[i] = queue[i]) \/ queue'[i] = f
    BY <1>1, GrownQueue
  <2>. QED BY <1>2, <2>1 DEF Coming
<1>. QED BY <1>1, <1>2 DEF Coming

LEMMA EventOnce == ASSUME Inv, Once, NEW f, Published(f), New(f) PROVE Once'
<1>1. Len(queue) \in Nat /\ Grows(queue, queue', f) /\ visits' = visits /\ stops' = stops
  BY PublishedGrows DEF Published
<1>2. ASSUME NEW c \in Cars, NEW i \in 1..Len(queue'), NEW j \in 1..Len(queue'),
             EntryUpdate(queue'[i], c), EntryUpdate(queue'[j], c),
             queue'[i].at = queue'[j].at
      PROVE  i = j
  <2>1. ASSUME NEW l \in 1..Len(queue), EntryUpdate(queue[l], c), EntryUpdate(f, c)
        PROVE  queue[l].at # f.at
    BY <2>1 DEF New, Coming
  <2>2. /\ (i \in 1..Len(queue) /\ queue'[i] = queue[i]) \/ (i = Len(queue) + 1 /\ queue'[i] = f)
        /\ (j \in 1..Len(queue) /\ queue'[j] = queue[j]) \/ (j = Len(queue) + 1 /\ queue'[j] = f)
    BY <1>1, GrownQueue
  <2>. QED BY <1>2, <2>1, <2>2 DEF Once
<1>3. ASSUME NEW c \in DOMAIN visits', visits'[c].observed, NEW i \in 1..Len(queue'),
             EntryUpdate(queue'[i], c)
      PROVE  queue'[i].at # visits'[c].entry
  <2>1. CASE i \in 1..Len(queue) /\ queue'[i] = queue[i]
    BY <1>1, <1>3, <2>1 DEF Once
  <2>2. CASE queue'[i] = f
    <3>1. c \in Cars
      BY <1>3, <2>2, EntriesOfCars DEF Published
    <3>. QED BY <1>1, <1>3, <2>2, <3>1 DEF New, Coming
  <2>. QED BY <1>1, <2>1, <2>2, GrownQueue
<1>4. ASSUME NEW s \in stops', Coming(s.car, s.entry)'
      PROVE  FALSE
  <2>1. PICK c, m : c = s.car /\ m = s.entry
    OBVIOUS
  <2>2. Coming(c, m)'
    BY <1>4, <2>1
  <2>3. ~Coming(c, m)
    BY <1>1, <2>1 DEF Once
  <2>4. EntryUpdate(f, c) /\ f.at = m
    BY <2>2, <2>3, ComingKept
  <2>5. c \in Cars
    BY <2>4, EntriesOfCars DEF Published
  <2>. QED BY <1>1, <2>1, <2>4, <2>5 DEF New
<1>. QED BY <1>2, <1>3, <1>4 DEF Once

LEMMA EventPositions ==
    ASSUME Inv, Positions, PlacesOK, NEW f, Published(f)
    PROVE  Positions' /\ PlacesOK'
<1>1. /\ Len(queue) \in Nat /\ Grows(queue, queue', f) /\ (~Delivered => queue' = queue)
      /\ UNCHANGED <<connected, view, baseline, current, firstSeen>>
  BY PublishedGrows DEF Published
<1>2. PlacesOK'
  <2>. SUFFICES ASSUME NEW i \in 1..Len(queue') PROVE PlaceOK(queue'[i])
    BY DEF PlacesOK
  <2>1. (i \in 1..Len(queue) /\ queue'[i] = queue[i]) \/ queue'[i] = f
    BY <1>1, GrownQueue
  <2>. QED BY <2>1 DEF PlacesOK, Published
<1>3. ASSUME ~connected PROVE queue' = queue
  BY <1>1, <1>3 DEF Delivered
<1>4. ASSUME NEW k \in 1..Len(queue), queue[k].topic = "TimingData",
             \A j \in 1..k : queue[j].topic = "TimingData" =>
                               queue[j].initial /\ queue[j].payload.place = firstSeen
      PROVE  /\ k \in 1..Len(queue') /\ queue'[k].topic = "TimingData"
             /\ \A j \in 1..k : queue'[j].topic = "TimingData" =>
                                  queue'[j].initial /\ queue'[j].payload.place = firstSeen
  <2>1. \A j \in 1..k : j \in 1..Len(queue)
    BY <1>1
  <2>2. k \in 1..Len(queue') /\ \A j \in 1..Len(queue) : queue'[j] = queue[j]
    BY <1>1 DEF Grows
  <2>. QED BY <1>4, <2>1, <2>2
<1>5. Positions'
  <2>1. CASE /\ "TimingData" \notin DOMAIN view /\ baseline = NoFunction
             /\ firstSeen \in [Cars -> Int]
             /\ \E k \in 1..Len(queue) :
                  /\ queue[k].topic = "TimingData"
                  /\ \A j \in 1..k : queue[j].topic = "TimingData" =>
                                     queue[j].initial /\ queue[j].payload.place = firstSeen
    <3>1. \E k \in 1..Len(queue') :
            /\ queue'[k].topic = "TimingData"
            /\ \A j \in 1..k : queue'[j].topic = "TimingData" =>
                               queue'[j].initial /\ queue'[j].payload.place = firstSeen
      BY <1>4, <2>1
    <3>. QED BY <1>1, <2>1, <3>1 DEF Positions
  <2>2. CASE \/ "TimingData" \in DOMAIN view
             \/ firstSeen = NoFunction /\ ~connected /\ queue = <<>>
    BY <1>1, <1>3, <2>2 DEF Positions
  <2>. QED BY <2>1, <2>2 DEF Positions
<1>. QED BY <1>2, <1>5

LEMMA EventPending ==
    ASSUME Inv, NEW f, Published(f), NEW g, NEW h, Follows(g, h, f),
           NEW v, Pending(g, v)
    PROVE  Pending(h, v)'
<1>1. PICK k \in 1..Len(queue) :
        /\ Reports(g, k, v.car, FALSE, v.to, v.after)
        /\ Begun(g, k, v.car, v.from, v.before)
  BY DEF Pending
<1>2. Reports(h, k, v.car, FALSE, v.to, v.after)' /\ k \in 1..Len(queue')
  BY <1>1, ReportsKept
<1>3. Len(queue) \in Nat /\ k \in 1..(Len(queue) + 1)
  BY PublishedGrows
<1>4. Begun(h, k, v.car, v.from, v.before)'
  BY <1>1, <1>3, BegunKept
<1>. QED BY <1>2, <1>4 DEF Pending

LEMMA EventSettled ==
    ASSUME Inv, NEW f, Published(f), New(f), NEW v \in completed, Settled(v)
    PROVE  Settled(v)'
<1>1. ~Coming(v.car, v.from)'
  <2>. SUFFICES ASSUME Coming(v.car, v.from)' PROVE FALSE
    OBVIOUS
  <2>0. PICK c, m : c = v.car /\ m = v.from
    OBVIOUS
  <2>1. EntryUpdate(f, c) /\ f.at = m
    BY <2>0, ComingKept DEF Settled
  <2>2. c \in Cars
    BY <2>1, EntriesOfCars DEF Published
  <2>. QED BY <2>0, <2>1, <2>2 DEF New
<1>. QED BY <1>1 DEF Settled, Published, Racing, Record

LEMMA EventCompleted ==
    ASSUME Inv, NEW f, Published(f), New(f), NEW g, NEW h, Follows(g, h, f), CompletedSeen(g),
           NEW v \in completed, v.seen
    PROVE  Pending(h, v)' \/ Settled(v)'
<1>. QED BY EventPending, EventSettled DEF CompletedSeen

LEMMA EventInside ==
    ASSUME Inv, NEW f, Published(f), NEW g, NEW h, Follows(g, h, f), InsideSeen(g),
           NEW c \in DOMAIN inside, inside[c].seen, Delivered, ~PitFrame(f, c),
           NEW m, m = inside[c].from, NEW s, s = inside[c].status
    PROVE  whole' /\ Begun(h, Len(queue) + 1, c, m, s)'
<1>1. whole /\ Begun(g, Len(queue) + 1, c, m, s)
  BY DEF InsideSeen
<1>2. Begun(h, Len(queue) + 1, c, m, s)'
  BY <1>1, BegunLasts
<1>. QED BY <1>1, <1>2 DEF Published

LEMMA EventEndsCurrent ==
    ASSUME Inv, NEW f, Published(f), NEW g, NEW h, Follows(g, h, f), EndsCurrent(g),
           DOMAIN world.time # {} => DOMAIN world'.time # {},
           f.topic = "TimingStats" => DOMAIN world'.time # {},
           NEW w, w = apply(g[Len(queue)], f),
           Shows(g[Len(queue)]) => Shows(w)'
    PROVE  EndsCurrent(h)'
<1>1. /\ Len(queue) \in Nat /\ Grows(queue, queue', f) /\ (whole' => whole)
      /\ Delivered => Len(queue') = Len(queue) + 1
      /\ whole' => Delivered
      /\ connected' = connected
  BY PublishedGrows DEF Published
<1>2. ASSUME whole' PROVE connected' /\ Shows(h[Len(queue)])'
  <2>1. Shows(w)' /\ connected'
    BY <1>1, <1>2 DEF EndsCurrent
  <2>2. h[Len(queue')] = w
    BY <1>1, <1>2 DEF Follows
  <2>. QED BY <2>1, <2>2
<1>3. ASSUME NEW i \in 0..Len(queue'), "TimingStats" \in DOMAIN h[i]
      PROVE  DOMAIN world'.time # {}
  <2>1. CASE i \in 0..Len(queue)
    BY <1>3, <2>1 DEF Follows, EndsCurrent
  <2>2. CASE i = Len(queue) + 1 /\ Len(queue') = Len(queue) + 1
    <3>1. h[i] = apply(g[Len(queue)], f) /\ Len(queue) \in 0..Len(queue)
      BY <1>1, <2>2 DEF Follows
    <3>2. "TimingStats" \in DOMAIN g[Len(queue)] \/ f.topic = "TimingStats"
      BY <1>3, <3>1 DEF apply
    <3>. QED BY <3>1, <3>2 DEF EndsCurrent
  <2>. QED BY <1>1, <2>1, <2>2 DEF Grows
<1>. QED BY <1>2, <1>3 DEF EndsCurrent

--------------------------------------------------------------------------------
(* Updates and the session that the last view shows *)

(* The whole invariant: some path of views follows the queue to the session. *)
Full ==
  /\ Inv /\ Once /\ Times /\ Standings /\ Positions /\ PlacesOK
  /\ \E g : Following(g)

LEMMA Merged ==
    ASSUME NEW v, NEW f, ~f.initial, f.topic \in DOMAIN v
    PROVE  /\ DOMAIN apply(v, f) = DOMAIN v
           /\ apply(v, f)[f.topic] = merge_delta(f.topic, v[f.topic], f.payload)
           /\ \A t \in DOMAIN v : t # f.topic => apply(v, f)[t] = v[t]
BY DEF apply

LEMMA MergedNothing ==
    ASSUME NEW target, target = [k \in DOMAIN target |-> target[k]]
    PROVE  Merge(target, NoFunction) = target
BY DEF Merge, NoFunction

LEMMA WorldParts ==
    ASSUME WorldOK, Standings
    PROVE  /\ world.pit = [c \in DOMAIN world.pit |-> world.pit[c]] /\ DOMAIN world.pit = Cars
           /\ world.place = [c \in DOMAIN world.place |-> world.place[c]]
           /\ DOMAIN world.place = Cars
           /\ world.time = [c \in DOMAIN world.time |-> world.time[c]]
BY DEF WorldOK, Standings

(* An update of the pit lane keeps a view that shows the session current. *)
LEMMA ShowsPit ==
    ASSUME WorldOK, Standings, NEW c \in Cars, NEW b \in BOOLEAN,
           world' = [world EXCEPT !.pit[c] = b],
           NEW f, f.topic = "TimingData", ~f.initial,
           f.payload = [pit |-> [d \in {c} |-> b], place |-> NoFunction],
           NEW v, Shows(v), NEW w, w = apply(v, f)
    PROVE  Shows(w)'
<1>1. /\ world'.pit = [world.pit EXCEPT ![c] = b] /\ world'.place = world.place
      /\ world'.status = world.status /\ world'.time = world.time
  BY DEF WorldOK
<1>2. Merge(world.pit, [d \in {c} |-> b]) = world'.pit
  BY <1>1, WorldParts DEF Merge
<1>3. Merge(world.place, NoFunction) = world'.place
  BY <1>1, WorldParts, MergedNothing
<1>4. /\ DOMAIN w = DOMAIN v /\ w["TimingData"] = merge_delta("TimingData", v["TimingData"], f.payload)
      /\ \A t \in DOMAIN v : t # "TimingData" => w[t] = v[t]
  BY Merged DEF Shows
<1>5. w["TimingData"].pit = world'.pit /\ w["TimingData"].place = world'.place
  BY <1>2, <1>3, <1>4 DEF Shows, merge_delta
<1>. QED BY <1>1, <1>4, <1>5 DEF Shows

LEMMA ShowsPlace ==
    ASSUME WorldOK, Standings, NEW a \in Cars, NEW b \in Cars,
           world.place[a] = world.place[b] + 1,
           world' = [world EXCEPT !.place[a] = world.place[b], !.place[b] = world.place[a]],
           NEW f, f.topic = "TimingData", ~f.initial,
           f.payload = [pit |-> NoFunction,
                        place |-> [c \in {a, b} |-> world.place[IF c = a THEN b ELSE a]]],
           NEW v, Shows(v), NEW w, w = apply(v, f)
    PROVE  Shows(w)' /\ Standings'
<1>0. a # b
  BY DEF Standings
<1>1. /\ world'.place = [[world.place EXCEPT ![a] = world.place[b]] EXCEPT ![b] = world.place[a]]
      /\ world'.pit = world.pit /\ world'.status = world.status /\ world'.time = world.time
  BY DEF WorldOK
<1>2. world'.place = [c \in Cars |-> IF c = a THEN world.place[b]
                                     ELSE IF c = b THEN world.place[a] ELSE world.place[c]]
  BY <1>0, <1>1, WorldParts
<1>3. Merge(world.place, [c \in {a, b} |-> world.place[IF c = a THEN b ELSE a]]) = world'.place
  <2>. DEFINE p == world.place
              patch == [c \in {a, b} |-> p[IF c = a THEN b ELSE a]]
  <2>1. DOMAIN patch = {a, b} /\ patch[a] = p[b] /\ patch[b] = p[a]
    BY <1>0
  <2>2. DOMAIN p = Cars /\ p = [c \in DOMAIN p |-> p[c]]
    BY WorldParts
  <2>3. Merge(p, patch) = [c \in DOMAIN p \cup DOMAIN patch |->
                             IF c \in DOMAIN patch THEN patch[c] ELSE p[c]]
    BY DEF Merge
  <2>4. world'.place = [c \in Cars |-> IF c = a THEN p[b] ELSE IF c = b THEN p[a] ELSE p[c]]
    BY <1>2
  <2>. HIDE DEF p, patch
  <2>5. DOMAIN p \cup DOMAIN patch = Cars
    BY <2>1, <2>2
  <2>6. Merge(p, patch) = world'.place
    BY <2>1, <2>3, <2>4, <2>5
  <2>. QED BY <2>6 DEF p, patch
<1>4. Merge(world.pit, NoFunction) = world'.pit
  BY <1>1, WorldParts, MergedNothing
<1>5. /\ DOMAIN w = DOMAIN v /\ w["TimingData"] = merge_delta("TimingData", v["TimingData"], f.payload)
      /\ \A t \in DOMAIN v : t # "TimingData" => w[t] = v[t]
  BY Merged DEF Shows
<1>6. w["TimingData"].pit = world'.pit /\ w["TimingData"].place = world'.place
  BY <1>3, <1>4, <1>5 DEF Shows, merge_delta
<1>7. Standings'
  <2>1. world'.place \in [Cars -> 1..Cardinality(Cars)]
    BY <1>2 DEF Standings
  <2>2. \A c, d \in Cars : world'.place[c] = world'.place[d] => c = d
    BY <1>2 DEF Standings
  <2>3. ASSUME NEW i \in 1..Cardinality(Cars) PROVE \E c \in Cars : world'.place[c] = i
    BY <1>2 DEF Standings
  <2>4. /\ DOMAIN world'.time \subseteq Cars /\ world'.time \in [DOMAIN world'.time -> Int]
        /\ DOMAIN world'.time # {} =>
             \E d \in DOMAIN world'.time :
               \A e \in DOMAIN world'.time \ {d} : world'.time[d] < world'.time[e]
    BY <1>1 DEF Standings
  <2>. QED BY <2>1, <2>2, <2>3, <2>4 DEF Standings
<1>. QED BY <1>1, <1>5, <1>6, <1>7 DEF Shows

LEMMA ShowsStatus ==
    ASSUME WorldOK, Standings, NEW status,
           world' = [world EXCEPT !.status = status],
           NEW f, f.topic = "SessionStatus", ~f.initial, f.payload = status,
           NEW v, Shows(v), NEW w, w = apply(v, f)
    PROVE  Shows(w)' /\ Standings'
<1>1. /\ world'.pit = world.pit /\ world'.place = world.place
      /\ world'.status = status /\ world'.time = world.time
  BY DEF WorldOK
<1>2. /\ DOMAIN w = DOMAIN v
      /\ w["SessionStatus"] = merge_delta("SessionStatus", v["SessionStatus"], f.payload)
      /\ \A t \in DOMAIN v : t # "SessionStatus" => w[t] = v[t]
  BY Merged DEF Shows
<1>3. w["SessionStatus"] = status
  BY <1>2 DEF merge_delta
<1>. QED BY <1>1, <1>2, <1>3 DEF Shows, Standings

LEMMA ShowsMessage ==
    ASSUME WorldOK, Standings, world' = [world EXCEPT !.messages = @ + 1],
           NEW f, f.topic = "RaceControlMessages", ~f.initial,
           NEW v, Shows(v), NEW w, w = apply(v, f)
    PROVE  Shows(w)' /\ Standings'
<1>1. /\ world'.pit = world.pit /\ world'.place = world.place
      /\ world'.status = world.status /\ world'.time = world.time
  BY DEF WorldOK
<1>2. /\ DOMAIN w = DOMAIN v \cup {"RaceControlMessages"}
      /\ \A t \in DOMAIN v : t # "RaceControlMessages" => w[t] = v[t]
  BY DEF apply
<1>3. Shows(w)'
  BY <1>1, <1>2 DEF Shows
<1>4. Standings'
  BY <1>1 DEF Standings
<1>. QED BY <1>3, <1>4

(* The best lap so far, whoever set it. *)
LEMMA BestLap ==
    ASSUME Standings
    PROVE  LET best == Min({MaxEvents + 1} \cup Range(world.time))
           IN  best \in Int /\ \A d \in DOMAIN world.time : best <= world.time[d]
<1>. DEFINE S == {MaxEvents + 1} \cup Range(world.time)
            T == DOMAIN world.time
<1>0. MaxEvents + 1 \in Int
  BY SizesAssumption
<1>1. Range(world.time) = {world.time[d] : d \in T}
  BY DEF Range
<1>2. Min(S) = CHOOSE x \in S : \A y \in S : x <= y
  BY DEF Min
<1>3. \E x \in S : x \in Int /\ \A y \in S : x <= y
  <2>1. CASE T = {}
    <3>1. S = {MaxEvents + 1}
      BY <1>1, <2>1
    <3>. QED BY <1>0, <3>1
  <2>2. CASE T # {}
    <3>1. PICK b \in T : \A d \in T \ {b} : world.time[b] < world.time[d]
      BY <2>2 DEF Standings
    <3>2. \A d \in T : world.time[d] \in Int /\ world.time[b] <= world.time[d]
      BY <3>1 DEF Standings
    <3>3. CASE world.time[b] <= MaxEvents + 1
      <4>1. world.time[b] \in S
        BY <1>1
      <4>2. \A y \in S : world.time[b] <= y
        BY <1>1, <3>2, <3>3
      <4>. QED BY <3>2, <4>1, <4>2
    <3>4. CASE ~(world.time[b] <= MaxEvents + 1)
      <4>1. \A d \in T : MaxEvents + 1 <= world.time[d]
        BY <1>0, <3>2, <3>4
      <4>2. \A y \in S : MaxEvents + 1 <= y
        BY <1>0, <1>1, <4>1
      <4>. QED BY <1>0, <4>2
    <3>. QED BY <3>3, <3>4
  <2>. QED BY <2>1, <2>2
<1>4. \A x \in S : x \in Int
  BY <1>0, <1>1 DEF Standings
<1>5. Min(S) \in S /\ \A y \in S : Min(S) <= y
  <2>. HIDE DEF S
  <2>. QED BY <1>2, <1>3
<1>6. \A d \in T : world.time[d] \in S
  BY <1>1
<1>7. Min(S) \in Int /\ \A d \in T : Min(S) <= world.time[d]
  BY <1>4, <1>5, <1>6
<1>. QED BY <1>7

(* The update of a best lap: the time, and the ranks that move. *)
LEMMA ShowsLap ==
    ASSUME WorldOK, Standings, NEW time, world' = [world EXCEPT !.time = time],
           DOMAIN time # {}, NEW one, NEW ranks,
           Merge(world.time, one) = time, Merge(RankOf(world.time), ranks) = RankOf(time),
           DOMAIN world.time = {} => one = time /\ ranks = RankOf(time),
           NEW f, f.topic = "TimingStats", ~f.initial, f.payload = [time |-> one, rank |-> ranks],
           NEW v, Shows(v), NEW w, w = apply(v, f)
    PROVE  Shows(w)'
<1>1. /\ world'.pit = world.pit /\ world'.place = world.place
      /\ world'.status = world.status /\ world'.time = time
  BY DEF WorldOK
<1>2. DOMAIN w = DOMAIN v \cup {"TimingStats"} /\ \A t \in DOMAIN v : t # "TimingStats" => w[t] = v[t]
  BY DEF apply
<1>3. f.payload.time = one /\ f.payload.rank = ranks
  OBVIOUS
<1>4. w["TimingStats"].time = time /\ w["TimingStats"].rank = RankOf(time)
  <2>1. CASE "TimingStats" \in DOMAIN v
    <3>1. w["TimingStats"] = merge_delta("TimingStats", v["TimingStats"], f.payload)
      BY <2>1, Merged
    <3>2. w["TimingStats"].time = Merge(v["TimingStats"].time, f.payload.time)
          /\ w["TimingStats"].rank = Merge(v["TimingStats"].rank, f.payload.rank)
      BY <3>1 DEF merge_delta
    <3>. QED BY <1>3, <2>1, <3>2 DEF Shows
  <2>2. CASE "TimingStats" \notin DOMAIN v
    <3>1. w["TimingStats"] = f.payload
      BY <2>2 DEF apply
    <3>. QED BY <1>3, <2>2, <3>1 DEF Shows
  <2>. QED BY <2>1, <2>2
<1>. QED BY <1>1, <1>2, <1>4 DEF Shows

--------------------------------------------------------------------------------
(* Events that move no car in or out of the lane *)

(* An event that moves no car in or out of the lane. *)
LEMMA QuietFull ==
    ASSUME Full, Inv', Times', Standings', NEW f, Published(f), \A c : ~PitFrame(f, c),
           completed' = completed, inside' = Unseen,
           DOMAIN world.time # {} => DOMAIN world'.time # {},
           f.topic = "TimingStats" => DOMAIN world'.time # {},
           \A v, w : Shows(v) /\ w = apply(v, f) => Shows(w)'
    PROVE  Full'
<1>1. PICK g : Path(g) /\ EndsCurrent(g) /\ InsideSeen(g) /\ CompletedSeen(g)
  BY DEF Full, Following
<1>2. PICK h : Follows(g, h, f) /\ Path(h)'
  BY <1>1, ViewsFollow DEF Full
<1>3. New(f)
  BY DEF New, EntryUpdate, Says, PitFrame
<1>4. Once' /\ Positions' /\ PlacesOK'
  BY <1>3, EventOnce, EventPositions DEF Full
<1>5. EndsCurrent(h)'
  <2>1. PICK w : w = apply(g[Len(queue)], f)
    OBVIOUS
  <2>2. Shows(g[Len(queue)]) => Shows(w)'
    BY <2>1
  <2>. QED BY <1>1, <1>2, <2>1, <2>2, EventEndsCurrent DEF Full
<1>6. CompletedSeen(h)'
  BY <1>1, <1>2, <1>3, EventCompleted DEF Full, CompletedSeen
<1>7. InsideSeen(h)'
  <2>. SUFFICES ASSUME NEW c \in DOMAIN inside', inside'[c].seen
                PROVE  (whole /\ Begun(h, Len(queue) + 1, c, inside[c].from, inside[c].status))'
    BY DEF InsideSeen
  <2>0. HistoryOK
    BY DEF Full, Inv, Base
  <2>1. c \in DOMAIN inside /\ inside'[c] = Unseen[c]
    BY DEF Unseen
  <2>2. /\ inside'[c].from = inside[c].from /\ inside'[c].status = inside[c].status
        /\ inside'[c].seen <=> inside[c].seen /\ Delivered
    BY <2>0, <2>1, VisitsUnseen
  <2>3. PICK m, s : m = inside[c].from /\ s = inside[c].status
    OBVIOUS
  <2>4. whole' /\ Begun(h, Len(queue) + 1, c, m, s)'
    BY <1>1, <1>2, <2>1, <2>2, <2>3, EventInside DEF Full
  <2>. QED BY <2>2, <2>3, <2>4
<1>. QED BY <1>2, <1>4, <1>5, <1>6, <1>7 DEF Full, Following

(* What the trackers and the collector keep is left alone. *)
Still == UNCHANGED <<now, connected, collector, firstSeen>>

(* What an update of the timing data may carry. *)
TimingOK(payload) ==
  /\ DOMAIN payload.pit \subseteq Cars
  /\ payload.pit \in [DOMAIN payload.pit -> BOOLEAN]
  /\ payload.place = [c \in DOMAIN payload.place |-> payload.place[c]]
  /\ DOMAIN payload.place \subseteq Cars

LEMMA Publishes ==
    ASSUME Inv, NEW f, f.topic \in Topics, f.initial = FALSE, f.at \in Nat,
           f.topic = "TimingData" => TimingOK(f.payload),
           queue' = IF Delivered THEN Append(queue, f) ELSE queue,
           whole' <=> whole /\ Delivered, Still
    PROVE  Published(f)
<1>1. now \in Nat \ {0}
  BY DEF Inv, Base
<1>2. FrameOK(f)
  BY <1>1 DEF FrameOK, TimingOK
<1>3. PlaceOK(f)
  BY DEF PlaceOK, TimingOK
<1>4. UNCHANGED <<now, connected, view, visits, stops, baseline, current, firstSeen>>
  BY DEF Still, collector
<1>. QED BY <1>2, <1>3, <1>4 DEF Published

LEMMA NothingSaid == DOMAIN NoFunction = {} /\ NoFunction = [c \in DOMAIN NoFunction |-> NoFunction[c]]
BY DEF NoFunction

LEMMA QuietTimes ==
    ASSUME Times, HistoryOK, UNCHANGED <<now, completed>>, inside' = Unseen,
           world'.status \in Statuses
    PROVE  Times'
<1>1. DOMAIN inside' = DOMAIN inside
  BY DEF Unseen
<1>2. \A c \in DOMAIN inside : inside'[c].from = inside[c].from
  BY VisitsUnseen
<1>. QED BY <1>1, <1>2 DEF Times

LEMMA OvertakeFull ==
    ASSUME Full, Inv', NEW a \in Cars, NEW b \in Cars, Overtake(a, b)
    PROVE  Full'
<1>. USE DEF Full
<1>0. WorldOK /\ HistoryOK
  BY DEF Inv, Base
<1>1. PICK payload :
        /\ payload = [pit |-> NoFunction,
                      place |-> [c \in {a, b} |-> world.place[IF c = a THEN b ELSE a]]]
        /\ Publish("TimingData", 0, FALSE, payload)
  BY DEF Overtake
<1>2. PICK f : f = Frame("TimingData", FALSE, 0, FALSE, payload)
  OBVIOUS
<1>3. /\ UNCHANGED <<now, connected, collector, firstSeen>>
      /\ completed' = completed /\ inside' = Unseen
      /\ world.place[a] = world.place[b] + 1
      /\ world' = [world EXCEPT !.place[a] = world.place[b], !.place[b] = world.place[a]]
  BY DEF Overtake, Event
<1>4. Published(f) /\ f.topic = "TimingData" /\ f.payload = payload
  <2>0. Inv
    OBVIOUS
  <2>. HIDE DEF Full
  <2>1. payload.pit = NoFunction
    BY <1>1
  <2>2. /\ payload.place = [c \in DOMAIN payload.place |-> payload.place[c]]
        /\ DOMAIN payload.place \subseteq Cars
    BY <1>1
  <2>3. Publish("TimingData", 0, FALSE, payload)
    BY <1>1
  <2>4. DOMAIN payload.pit = {} /\ payload.pit \in [DOMAIN payload.pit -> BOOLEAN]
    BY <2>1, NothingSaid
  <2>5. Still
    BY <1>3 DEF Still
  <2>6. TimingOK(payload)
    BY <2>2, <2>4 DEF TimingOK
  <2>7. /\ f.topic = "TimingData" /\ f.payload = payload /\ f.initial = FALSE /\ f.at = 0
    BY <1>2 DEF Frame
  <2>8. queue' = (IF Delivered THEN Append(queue, f) ELSE queue) /\ (whole' <=> whole /\ Delivered)
    BY <1>2, <2>3 DEF Publish
  <2>9. Published(f)
    <3>1. f.topic \in Topics /\ f.at \in Nat /\ (f.topic = "TimingData" => TimingOK(f.payload))
      BY <2>7, <2>6 DEF Topics
    <3>. QED BY <2>0, <2>7, <2>5, <2>8, <3>1, Publishes
  <2>. QED BY <2>7, <2>9
<1>5. \A c : ~PitFrame(f, c)
  BY <1>1, <1>4, NothingSaid DEF PitFrame
<1>6. ~f.initial
  BY <1>4 DEF Published
<1>7. ASSUME NEW v, NEW w, Shows(v), w = apply(v, f) PROVE Shows(w)' /\ Standings'
  BY <1>0, <1>1, <1>3, <1>4, <1>6, <1>7, ShowsPlace
<1>8. world'.status = world.status /\ world'.time = world.time
  BY <1>0, <1>3 DEF WorldOK
<1>9. Times'
  BY <1>0, <1>3, <1>8, QuietTimes DEF Times
<1>10. Standings'
  <2>1. world'.place = [[world.place EXCEPT ![a] = world.place[b]] EXCEPT ![b] = world.place[a]]
    BY <1>0, <1>3 DEF WorldOK
  <2>2. world'.place = [c \in Cars |-> IF c = a THEN world.place[b]
                                       ELSE IF c = b THEN world.place[a] ELSE world.place[c]]
    BY <1>0, <1>3, <2>1, WorldParts DEF Standings
  <2>3. \A i \in 1..Cardinality(Cars) : \E c \in Cars : world'.place[c] = i
    BY <2>2 DEF Standings
  <2>. QED BY <1>8, <2>2, <2>3 DEF Standings
<1>. QED BY <1>3, <1>4, <1>5, <1>7, <1>8, <1>9, <1>10, QuietFull

LEMMA StatusFull ==
    ASSUME Full, Inv', NEW status \in Statuses, ChangeStatus(status)
    PROVE  Full'
<1>. USE DEF Full
<1>0. WorldOK /\ HistoryOK
  BY DEF Inv, Base
<1>1. PICK f : f = Frame("SessionStatus", FALSE, 0, FALSE, status)
  OBVIOUS
<1>2. /\ UNCHANGED <<now, connected, collector, firstSeen>>
      /\ completed' = completed /\ inside' = Unseen
      /\ world' = [world EXCEPT !.status = status] /\ Publish("SessionStatus", 0, FALSE, status)
  BY DEF ChangeStatus, Event
<1>3. Published(f) /\ f.topic = "SessionStatus" /\ f.payload = status
  <2>0. Inv
    OBVIOUS
  <2>. HIDE DEF Full
  <2>1. "SessionStatus" \in Topics /\ "SessionStatus" # "TimingData"
    BY DEF Topics
  <2>2. Still /\ Publish("SessionStatus", 0, FALSE, status)
    BY <1>2 DEF Still
  <2>3. /\ f.topic = "SessionStatus" /\ f.payload = status /\ f.initial = FALSE /\ f.at = 0
    BY <1>1 DEF Frame
  <2>4. queue' = (IF Delivered THEN Append(queue, f) ELSE queue) /\ (whole' <=> whole /\ Delivered)
    BY <1>1, <2>2 DEF Publish
  <2>5. Published(f)
    <3>1. f.topic \in Topics /\ f.at \in Nat /\ f.topic # "TimingData"
      BY <2>1, <2>3
    <3>. QED BY <2>0, <2>2, <2>3, <2>4, <3>1, Publishes
  <2>. QED BY <2>3, <2>5
<1>4. (\A c : ~PitFrame(f, c)) /\ ~f.initial
  BY <1>3 DEF PitFrame, Published
<1>5. /\ world'.pit = world.pit /\ world'.place = world.place
      /\ world'.status = status /\ world'.time = world.time
  BY <1>0, <1>2 DEF WorldOK
<1>6. Times' /\ Standings'
  BY <1>0, <1>2, <1>5, QuietTimes DEF Standings
<1>7. \A v, w : Shows(v) /\ w = apply(v, f) => Shows(w)'
  BY <1>0, <1>2, <1>3, <1>4, ShowsStatus
<1>. QED BY <1>2, <1>3, <1>4, <1>5, <1>6, <1>7, QuietFull

LEMMA MessageFull == ASSUME Full, Inv', SendMessage PROVE Full'
<1>. USE DEF Full
<1>0. WorldOK /\ HistoryOK
  BY DEF Inv, Base
<1>1. PICK payload : Publish("RaceControlMessages", 0, FALSE, payload)
  BY DEF SendMessage
<1>2. PICK f : f = Frame("RaceControlMessages", FALSE, 0, FALSE, payload)
  OBVIOUS
<1>3. /\ UNCHANGED <<now, connected, collector, firstSeen>>
      /\ completed' = completed /\ inside' = Unseen
      /\ world' = [world EXCEPT !.messages = @ + 1]
  BY DEF SendMessage, Event
<1>4. Published(f) /\ f.topic = "RaceControlMessages"
  <2>0. Inv
    OBVIOUS
  <2>. HIDE DEF Full
  <2>1. "RaceControlMessages" \in Topics /\ "RaceControlMessages" # "TimingData"
    BY DEF Topics
  <2>2. Still
    BY <1>3 DEF Still
  <2>3. /\ f.topic = "RaceControlMessages" /\ f.payload = payload /\ f.initial = FALSE /\ f.at = 0
    BY <1>2 DEF Frame
  <2>4. queue' = (IF Delivered THEN Append(queue, f) ELSE queue) /\ (whole' <=> whole /\ Delivered)
    BY <1>2, <1>1 DEF Publish
  <2>5. Published(f)
    <3>1. f.topic \in Topics /\ f.at \in Nat /\ f.topic # "TimingData"
      BY <2>1, <2>3
    <3>. QED BY <2>0, <2>2, <2>3, <2>4, <3>1, Publishes
  <2>. QED BY <2>3, <2>5
<1>5. (\A c : ~PitFrame(f, c)) /\ ~f.initial
  BY <1>4 DEF PitFrame, Published
<1>6. /\ world'.pit = world.pit /\ world'.place = world.place
      /\ world'.status = world.status /\ world'.time = world.time
  BY <1>0, <1>3 DEF WorldOK
<1>7. Times' /\ Standings'
  <2>1. Times'
    BY <1>0, <1>3, <1>6, QuietTimes DEF Times
  <2>2. Standings'
    BY <1>6 DEF Standings
  <2>. QED BY <2>1, <2>2
<1>8. \A v, w : Shows(v) /\ w = apply(v, f) => Shows(w)'
  BY <1>0, <1>3, <1>4, <1>5, ShowsMessage
<1>. QED BY <1>3, <1>4, <1>5, <1>6, <1>7, <1>8, QuietFull

LEMMA LapFull == ASSUME Full, Inv', NEW c \in Cars, SetFastestLap(c) PROVE Full'
<1>. USE DEF Full
<1>0. WorldOK /\ HistoryOK /\ Standings
  BY DEF Inv, Base
<1>1. PICK best, time, rank, was, moved, one, ranks :
        /\ best = Min({MaxEvents + 1} \cup Range(world.time))
        /\ time = Merge(world.time, [d \in {c} |-> best - 1])
        /\ was = RankOf(world.time) /\ rank = RankOf(time)
        /\ moved = {d \in DOMAIN time : d \in DOMAIN was => rank[d] # was[d]}
        /\ one = [d \in {c} |-> time[d]] /\ ranks = [d \in moved |-> rank[d]]
        /\ world' = [world EXCEPT !.time = time]
        /\ Publish("TimingStats", 0, FALSE, [time |-> one, rank |-> ranks])
  BY DEF SetFastestLap
<1>2. /\ best \in Int /\ \A d \in DOMAIN world.time : best <= world.time[d]
  BY <1>0, <1>1, BestLap
<1>3. /\ DOMAIN time = DOMAIN world.time \cup {c} /\ time[c] = best - 1
      /\ \A d \in DOMAIN world.time : d # c => time[d] = world.time[d]
      /\ time = [d \in DOMAIN time |-> time[d]]
      /\ Merge(world.time, one) = time /\ Merge(RankOf(world.time), ranks) = RankOf(time)
      /\ DOMAIN world.time = {} => one = time /\ ranks = RankOf(time)
  <2>1. PICK old, t : old = world.time /\ t = best - 1
    OBVIOUS
  <2>2. /\ DOMAIN time = DOMAIN old \cup {c} /\ time[c] = t
        /\ \A d \in DOMAIN old : d # c => time[d] = old[d]
        /\ time = [d \in DOMAIN time |-> time[d]]
    BY <1>1, <2>1 DEF Merge
  <2>3. DOMAIN one = {c} /\ one[c] = t /\ one = [d \in DOMAIN one |-> one[d]]
    BY <1>1, <2>2
  <2>4. Merge(old, one) = time
    BY <2>2, <2>3 DEF Merge
  <2>5. DOMAIN was = DOMAIN old /\ DOMAIN rank = DOMAIN time /\ rank = [d \in DOMAIN rank |-> rank[d]]
    BY <1>1, <2>1 DEF RankOf
  <2>6. /\ DOMAIN ranks = moved /\ \A d \in moved : ranks[d] = rank[d]
        /\ ranks = [d \in DOMAIN ranks |-> ranks[d]]
        /\ \A d : d \in moved <=> d \in DOMAIN time /\ (d \in DOMAIN was => rank[d] # was[d])
    BY <1>1
  <2>7. Merge(was, ranks) = rank
    <3>1. DOMAIN was \cup moved = DOMAIN rank
      BY <2>2, <2>5, <2>6
    <3>2. \A d \in DOMAIN rank : (IF d \in moved THEN ranks[d] ELSE was[d]) = rank[d]
      BY <2>2, <2>5, <2>6
    <3>3. Merge(was, ranks) =
            [d \in DOMAIN was \cup moved |-> IF d \in moved THEN ranks[d] ELSE was[d]]
      BY <2>6 DEF Merge
    <3>. QED BY <2>5, <3>1, <3>2, <3>3
  <2>8. ASSUME DOMAIN old = {} PROVE one = time /\ ranks = rank
    <3>1. DOMAIN time = {c}
      BY <2>2, <2>8
    <3>2. one = time
      BY <2>2, <2>3, <3>1
    <3>3. moved = DOMAIN time
      BY <2>5, <2>6, <2>8
    <3>. QED BY <2>5, <2>6, <3>2, <3>3
  <2>9. was = RankOf(old) /\ rank = RankOf(time)
    BY <1>1, <2>1
  <2>. QED BY <2>1, <2>2, <2>4, <2>7, <2>8, <2>9
<1>4. PICK payload, f : /\ payload = [time |-> one, rank |-> ranks]
                       /\ f = Frame("TimingStats", FALSE, 0, FALSE, payload)
  OBVIOUS
<1>5. /\ UNCHANGED <<now, connected, collector, firstSeen>>
      /\ completed' = completed /\ inside' = Unseen
      /\ world' = [world EXCEPT !.time = time]
      /\ Publish("TimingStats", 0, FALSE, payload)
  BY <1>1, <1>4 DEF SetFastestLap, Event
<1>6. Published(f) /\ f.topic = "TimingStats" /\ f.payload = [time |-> one, rank |-> ranks]
  <2>0. Inv
    OBVIOUS
  <2>. HIDE DEF Full
  <2>1. "TimingStats" \in Topics /\ "TimingStats" # "TimingData"
    BY DEF Topics
  <2>2. Still /\ Publish("TimingStats", 0, FALSE, payload)
    BY <1>5 DEF Still
  <2>3. /\ f.topic = "TimingStats" /\ f.payload = payload /\ f.initial = FALSE /\ f.at = 0
    BY <1>4 DEF Frame
  <2>4. queue' = (IF Delivered THEN Append(queue, f) ELSE queue) /\ (whole' <=> whole /\ Delivered)
    BY <1>4, <2>2 DEF Publish
  <2>5. Published(f)
    <3>1. f.topic \in Topics /\ f.at \in Nat /\ f.topic # "TimingData"
      BY <2>1, <2>3
    <3>. QED BY <2>0, <2>2, <2>3, <2>4, <3>1, Publishes
  <2>6. Published(f) /\ f.topic = "TimingStats" /\ f.payload = payload
    BY <2>3, <2>5
  <2>. QED BY <1>4, <2>6
<1>7. (\A d : ~PitFrame(f, d)) /\ ~f.initial
  BY <1>6 DEF PitFrame, Published
<1>8. ASSUME NEW v, NEW w, Shows(v), w = apply(v, f) PROVE Shows(w)'
  BY <1>0, <1>3, <1>5, <1>6, <1>7, <1>8, ShowsLap
<1>9. /\ world'.pit = world.pit /\ world'.place = world.place
      /\ world'.status = world.status /\ world'.time = time
  BY <1>0, <1>5 DEF WorldOK
<1>10. Standings' /\ DOMAIN world'.time # {}
  <2>1. DOMAIN time \subseteq Cars /\ time \in [DOMAIN time -> Int]
    BY <1>0, <1>2, <1>3 DEF Standings
  <2>2. \A d \in DOMAIN time \ {c} : time[c] < time[d]
    BY <1>0, <1>2, <1>3 DEF Standings
  <2>. QED BY <1>0, <1>3, <1>9, <2>1, <2>2 DEF Standings
<1>11. Times'
  BY <1>0, <1>5, <1>9, QuietTimes DEF Times
<1>. QED BY <1>5, <1>6, <1>7, <1>8, <1>10, <1>11, QuietFull

--------------------------------------------------------------------------------
(* Cars that enter and leave the lane *)

(* The update carries the feed's clock, at that moment. *)
Clocked(f, moment) == f.at = moment /\ f.stamped

(* A car enters or leaves the lane, and the update says so. *)
Moves(c, b, f) ==
  /\ world.pit[c] = ~b /\ world' = [world EXCEPT !.pit[c] = b]
  /\ Published(f) /\ f.topic = "TimingData"
  /\ f.payload = [pit |-> [d \in {c} |-> b], place |-> NoFunction]

(* The update of a car that enters or leaves the lane, in the views to come. *)
LEMMA PitReported ==
    ASSUME Full, NEW c \in Cars, NEW b \in BOOLEAN, NEW f, Moves(c, b, f),
           NEW g, Path(g), EndsCurrent(g), NEW h, Follows(g, h, f), Path(h)',
           NEW m, m = now, NEW s, s = world.status
    PROVE  /\ EndsCurrent(h)' /\ Standings'
           /\ \A d : PitFrame(f, d) <=> d = c
           /\ whole /\ Delivered /\ Clocked(f, m) =>
                /\ Len(queue') = Len(queue) + 1 /\ Len(queue) \in Nat
                /\ \A k : k = Len(queue) + 1 => Reports(h, k, c, b, m, s)'
<1>. USE DEF Full
<1>. USE DEF Moves
<1>0. WorldOK /\ Standings /\ ~f.initial
  BY DEF Inv, Base, Published
<1>1. /\ world'.pit = [world.pit EXCEPT ![c] = b] /\ world'.place = world.place
      /\ world'.status = world.status /\ world'.time = world.time
  BY <1>0 DEF WorldOK
<1>2. PICK w : w = apply(g[Len(queue)], f)
  OBVIOUS
<1>3. Shows(g[Len(queue)]) => Shows(w)'
  BY <1>0, <1>2, ShowsPit
<1>4. EndsCurrent(h)'
  BY <1>1, <1>2, <1>3, EventEndsCurrent
<1>5. Standings'
  BY <1>0, <1>1 DEF Standings
<1>6. f.payload.pit = [d \in {c} |-> b]
  OBVIOUS
<1>7. \A d : PitFrame(f, d) <=> d = c
  BY <1>6 DEF PitFrame
<1>8. ASSUME whole, Delivered, Clocked(f, m), NEW k, k = Len(queue) + 1
      PROVE  Len(queue') = Len(queue) + 1 /\ Len(queue) \in Nat /\ Reports(h, k, c, b, m, s)'
  <2>1. /\ Len(queue') = Len(queue) + 1 /\ Len(queue) \in Nat /\ Grows(queue, queue', f)
    BY <1>8, PublishedGrows
  <2>2. queue'[k] = f
    BY <1>8, <2>1 DEF Grows
  <2>3. Says(f, c, b)
    BY <1>6 DEF Says
  <2>4. Shows(g[Len(queue)]) /\ Shows(w)'
    BY <1>3, <1>8 DEF EndsCurrent
  <2>5. h[k] = w /\ h[k - 1] = g[Len(queue)]
    <3>1. k - 1 = Len(queue) /\ Len(queue) \in 0..Len(queue)
      BY <1>8, <2>1
    <3>. QED BY <1>2, <1>8, <2>1, <3>1 DEF Follows
  <2>6. session_status(w) = s
    BY <1>1, <2>4 DEF Shows, session_status
  <2>7. w["TimingData"].pit[c] = b /\ g[Len(queue)]["TimingData"].pit[c] = ~b
    <3>1. world'.pit[c] = b
      BY <1>0, <1>1, WorldParts
    <3>2. w["TimingData"].pit = world'.pit /\ g[Len(queue)]["TimingData"].pit = world.pit
      BY <2>4 DEF Shows
    <3>. QED BY <3>1, <3>2
  <2>8. h[k] # h[k - 1]
    BY <2>5, <2>7
  <2>9. queue'[k].at = m /\ queue'[k].stamped
    BY <1>8, <2>2 DEF Clocked
  <2>. QED BY <1>0, <2>1, <2>2, <2>3, <2>5, <2>6, <2>8, <2>9 DEF Reports
<1>. QED BY <1>4, <1>5, <1>7, <1>8

LEMMA EnterPitFull ==
    ASSUME Full, Inv', NEW c \in Cars, NEW stamped \in BOOLEAN, EnterPit(c, stamped)
    PROVE  Full'
<1>. USE DEF Full
<1>0. WorldOK /\ HistoryOK /\ Truth /\ now \in Nat
  BY DEF Inv, Base
<1>1. PICK payload : payload = [pit |-> [d \in {c} |-> TRUE], place |-> NoFunction]
  OBVIOUS
<1>2. PICK f : f = Frame("TimingData", FALSE, now, stamped, payload)
  OBVIOUS
<1>3. /\ UNCHANGED <<now, connected, collector, firstSeen, completed>> /\ ~world.pit[c]
      /\ \A v \in completed : v.car = c => v.to < now
      /\ world' = [world EXCEPT !.pit[c] = TRUE]
      /\ Publish("TimingData", now, stamped, payload)
  BY <1>1 DEF EnterPit, Event
<1>4. /\ Published(f) /\ f.topic = "TimingData" /\ f.payload = payload
      /\ f.at = now /\ (f.stamped <=> stamped)
  <2>0. Inv
    OBVIOUS
  <2>. HIDE DEF Full
  <2>1. payload.place = NoFunction /\ DOMAIN payload.pit = {c} /\ payload.pit \in [{c} -> BOOLEAN]
    BY <1>1
  <2>2. Still /\ Publish("TimingData", now, stamped, payload)
    BY <1>3 DEF Still
  <2>3. TimingOK(payload)
    BY <2>1, NothingSaid DEF TimingOK
  <2>4. /\ f.topic = "TimingData" /\ f.payload = payload /\ f.initial = FALSE /\ f.at = now
    BY <1>2 DEF Frame
  <2>5. queue' = (IF Delivered THEN Append(queue, f) ELSE queue) /\ (whole' <=> whole /\ Delivered)
    BY <1>2, <2>2 DEF Publish
  <2>6. Published(f)
    <3>1. f.topic \in Topics /\ f.at \in Nat /\ (f.topic = "TimingData" => TimingOK(f.payload))
      BY <1>0, <2>4, <2>3 DEF Topics
    <3>. QED BY <2>0, <2>4, <2>2, <2>5, <3>1, Publishes
  <2>7. f.at = now /\ (f.stamped <=> stamped)
    BY <1>2 DEF Frame
  <2>. QED BY <2>4, <2>7, <2>6
<1>5. PICK g : Path(g) /\ EndsCurrent(g) /\ InsideSeen(g) /\ CompletedSeen(g)
  BY DEF Following
<1>6. PICK h : Follows(g, h, f) /\ Path(h)'
  BY <1>4, <1>5, ViewsFollow
<1>7. PICK m, s : m = now /\ s = world.status
  OBVIOUS
<1>8. /\ EndsCurrent(h)' /\ Standings'
      /\ \A d : PitFrame(f, d) <=> d = c
      /\ whole /\ Delivered /\ f.stamped =>
           /\ Len(queue') = Len(queue) + 1 /\ Len(queue) \in Nat
           /\ \A k : k = Len(queue) + 1 => Reports(h, k, c, TRUE, m, s)'
  <2>0. Full
    OBVIOUS
  <2>. HIDE DEF Full
  <2>1. PICK b \in BOOLEAN : b = TRUE
    OBVIOUS
  <2>2. world.pit[c] = ~b
    BY <1>0, <1>3, <2>1 DEF WorldOK
  <2>3. world' = [world EXCEPT !.pit[c] = b]
    BY <1>3, <2>1
  <2>4. /\ Published(f) /\ f.topic = "TimingData"
        /\ f.payload = [pit |-> [d \in {c} |-> b], place |-> NoFunction]
    BY <1>1, <1>4, <2>1
  <2>5. Moves(c, b, f)
    BY <2>2, <2>3, <2>4 DEF Moves
  <2>6. /\ EndsCurrent(h)' /\ Standings'
        /\ \A d : PitFrame(f, d) <=> d = c
        /\ whole /\ Delivered /\ Clocked(f, m) =>
             /\ Len(queue') = Len(queue) + 1 /\ Len(queue) \in Nat
             /\ \A k : k = Len(queue) + 1 => Reports(h, k, c, b, m, s)'
    BY <1>5, <1>6, <1>7, <2>0, <2>5, PitReported
  <2>7. f.stamped => Clocked(f, m)
    BY <1>4, <1>7 DEF Clocked
  <2>. QED BY <2>1, <2>6, <2>7
<1>9. New(f)
  <2>1. \A d : EntryUpdate(f, d) => d = c
    BY <1>8 DEF EntryUpdate, Says, PitFrame
  <2>2. c \notin DOMAIN inside
    BY <1>0, <1>3 DEF HistoryOK
  <2>3. \A v \in completed : v.car = c => v.from # now
    <3>1. \A v \in completed : v.from \in Nat /\ v.to \in Nat /\ v.from <= v.to
      BY <1>0 DEF HistoryOK, Times
    <3>. QED BY <1>0, <1>3, <3>1
  <2>4. \A i : ~Real(queue, inside, completed, c, now, i)
    BY <2>2, <2>3 DEF Real
  <2>5. ~Coming(c, now)
    <3>1. ASSUME c \in DOMAIN visits, visits[c].observed PROVE visits[c].entry # now
      BY <1>0, <2>4, <3>1 DEF Truth, VisitsReal
    <3>2. ASSUME NEW i \in 1..Len(queue), EntryUpdate(queue[i], c)
          PROVE  queue[i].at # now
      BY <1>0, <2>4, <3>2 DEF Truth, EntriesReal, EntryUpdate
    <3>. QED BY <3>1, <3>2 DEF Coming
  <2>6. \A s1 \in stops : s1.car = c => s1.entry # now
    BY <1>0, <2>3 DEF Truth, NeverShort
  <2>7. f.at = now
    BY <1>4
  <2>. QED BY <2>1, <2>3, <2>5, <2>6, <2>7 DEF New
<1>10. Once' /\ Positions' /\ PlacesOK'
  BY <1>4, <1>9, EventOnce, EventPositions
<1>11. CompletedSeen(h)'
  <2>1. completed' = completed
    BY <1>3
  <2>. QED BY <1>4, <1>5, <1>6, <1>9, <2>1, EventCompleted DEF CompletedSeen
<1>12. /\ DOMAIN inside' = DOMAIN inside \cup {c} /\ c \notin DOMAIN inside
       /\ inside'[c].from = now /\ inside'[c].status = world.status
       /\ inside'[c].seen <=> whole /\ Delivered /\ stamped
       /\ \A d \in DOMAIN inside :
            /\ inside'[d].from = inside[d].from /\ inside'[d].status = inside[d].status
            /\ inside'[d].seen <=> inside[d].seen /\ Delivered
  <2>. DEFINE b == whole /\ Delivered /\ stamped
  <2>1. inside' = [d \in DOMAIN inside \cup {c} |->
                     IF d = c THEN [from |-> now, status |-> world.status, seen |-> b]
                     ELSE Unseen[d]]
    BY DEF EnterPit
  <2>2. c \notin DOMAIN inside
    BY <1>0, <1>3 DEF HistoryOK
  <2>3. \A d \in DOMAIN inside :
          /\ Unseen[d].from = inside[d].from /\ Unseen[d].status = inside[d].status
          /\ Unseen[d].seen <=> inside[d].seen /\ Delivered
    BY <1>0, VisitsUnseen
  <2>. HIDE DEF b
  <2>4. /\ inside'[c].from = now /\ inside'[c].status = world.status /\ inside'[c].seen = b
        /\ \A d \in DOMAIN inside : inside'[d] = Unseen[d]
    BY <2>1, <2>2
  <2>5. inside'[c].seen <=> whole /\ Delivered /\ stamped
    BY <2>4, Zenon DEF b
  <2>. QED BY <2>1, <2>2, <2>3, <2>4, <2>5
<1>13. InsideSeen(h)'
  <2>. SUFFICES ASSUME NEW d \in DOMAIN inside', inside'[d].seen
                PROVE  (whole /\ Begun(h, Len(queue) + 1, d, inside[d].from, inside[d].status))'
    BY DEF InsideSeen
  <2>1. CASE d = c
    <3>1. whole /\ Delivered /\ f.stamped /\ whole'
      BY <1>4, <1>12, <2>1 DEF Published
    <3>2. PICK k : k = Len(queue) + 1
      OBVIOUS
    <3>3. Reports(h, k, c, TRUE, m, s)' /\ Len(queue') = k /\ k \in Nat /\ k >= 1
      <4>1. Reports(h, k, c, TRUE, m, s)'
        BY <1>8, <3>1, <3>2, Zenon
      <4>2. Len(queue') = Len(queue) + 1 /\ Len(queue) \in Nat
        BY <1>8, <3>1, Zenon
      <4>3. Len(queue') = k /\ k \in Nat /\ k >= 1
        BY <3>2, <4>2
      <4>. QED BY <4>1, <4>3, Zenon
    <3>4. k \in 1..Len(queue') /\ k < Len(queue') + 1
          /\ \A j \in 1..Len(queue') : ~(k < j /\ j < Len(queue') + 1)
      BY <3>3
    <3>5. Begun(h, Len(queue) + 1, c, m, s)'
      BY <3>3, <3>4 DEF Begun
    <3>. QED BY <1>7, <1>12, <2>1, <3>1, <3>5
  <2>2. CASE d # c
    <3>1. d \in DOMAIN inside /\ inside[d].seen /\ Delivered /\ ~PitFrame(f, d)
      BY <1>8, <1>12, <2>2
    <3>2. PICK m1, s1 : m1 = inside[d].from /\ s1 = inside[d].status
      OBVIOUS
    <3>3. whole' /\ Begun(h, Len(queue) + 1, d, m1, s1)'
      BY <1>4, <1>5, <1>6, <3>1, <3>2, EventInside
    <3>. QED BY <1>12, <3>1, <3>2, <3>3
  <2>. QED BY <2>1, <2>2
<1>14. Times'
  <2>1. now <= now /\ now' = now /\ completed' = completed /\ world'.status = world.status
    BY <1>0, <1>3 DEF WorldOK
  <2>. QED BY <1>12, <2>1 DEF Times
<1>. QED BY <1>6, <1>8, <1>10, <1>11, <1>13, <1>14 DEF Following

LEMMA LeavePitFull ==
    ASSUME Full, Inv', NEW c \in Cars, NEW stamped \in BOOLEAN, LeavePit(c, stamped)
    PROVE  Full'
<1>. USE DEF Full
<1>0. WorldOK /\ HistoryOK /\ now \in Nat
  BY DEF Inv, Base
<1>1. PICK payload : payload = [pit |-> [d \in {c} |-> FALSE], place |-> NoFunction]
  OBVIOUS
<1>2. PICK f : f = Frame("TimingData", FALSE, now, stamped, payload)
  OBVIOUS
<1>3. /\ UNCHANGED <<now, connected, collector, firstSeen>> /\ world.pit[c]
      /\ world' = [world EXCEPT !.pit[c] = FALSE]
      /\ Publish("TimingData", now, stamped, payload)
  BY <1>1 DEF LeavePit, Event
<1>4. /\ Published(f) /\ f.topic = "TimingData" /\ f.payload = payload
      /\ f.at = now /\ (f.stamped <=> stamped)
  <2>0. Inv
    OBVIOUS
  <2>. HIDE DEF Full
  <2>1. payload.place = NoFunction /\ DOMAIN payload.pit = {c} /\ payload.pit \in [{c} -> BOOLEAN]
    BY <1>1
  <2>2. Still /\ Publish("TimingData", now, stamped, payload)
    BY <1>3 DEF Still
  <2>3. TimingOK(payload)
    BY <2>1, NothingSaid DEF TimingOK
  <2>4. /\ f.topic = "TimingData" /\ f.payload = payload /\ f.initial = FALSE /\ f.at = now
    BY <1>2 DEF Frame
  <2>5. queue' = (IF Delivered THEN Append(queue, f) ELSE queue) /\ (whole' <=> whole /\ Delivered)
    BY <1>2, <2>2 DEF Publish
  <2>6. Published(f)
    <3>1. f.topic \in Topics /\ f.at \in Nat /\ (f.topic = "TimingData" => TimingOK(f.payload))
      BY <1>0, <2>4, <2>3 DEF Topics
    <3>. QED BY <2>0, <2>4, <2>2, <2>5, <3>1, Publishes
  <2>7. f.at = now /\ (f.stamped <=> stamped)
    BY <1>2 DEF Frame
  <2>. QED BY <2>4, <2>7, <2>6
<1>5. PICK g : Path(g) /\ EndsCurrent(g) /\ InsideSeen(g) /\ CompletedSeen(g)
  BY DEF Following
<1>6. PICK h : Follows(g, h, f) /\ Path(h)'
  BY <1>4, <1>5, ViewsFollow
<1>7. PICK m, s : m = now /\ s = world.status
  OBVIOUS
<1>8. /\ EndsCurrent(h)' /\ Standings'
      /\ \A d : PitFrame(f, d) <=> d = c
      /\ whole /\ Delivered /\ f.stamped =>
           /\ Len(queue') = Len(queue) + 1 /\ Len(queue) \in Nat
           /\ \A k : k = Len(queue) + 1 => Reports(h, k, c, FALSE, m, s)'
  <2>0. Full
    OBVIOUS
  <2>. HIDE DEF Full
  <2>1. PICK b \in BOOLEAN : b = FALSE
    OBVIOUS
  <2>2. world.pit[c] = ~b
    BY <1>0, <1>3, <2>1 DEF WorldOK
  <2>3. world' = [world EXCEPT !.pit[c] = b]
    BY <1>3, <2>1
  <2>4. /\ Published(f) /\ f.topic = "TimingData"
        /\ f.payload = [pit |-> [d \in {c} |-> b], place |-> NoFunction]
    BY <1>1, <1>4, <2>1
  <2>5. Moves(c, b, f)
    BY <2>2, <2>3, <2>4 DEF Moves
  <2>6. /\ EndsCurrent(h)' /\ Standings'
        /\ \A d : PitFrame(f, d) <=> d = c
        /\ whole /\ Delivered /\ Clocked(f, m) =>
             /\ Len(queue') = Len(queue) + 1 /\ Len(queue) \in Nat
             /\ \A k : k = Len(queue) + 1 => Reports(h, k, c, b, m, s)'
    BY <1>5, <1>6, <1>7, <2>0, <2>5, PitReported
  <2>7. f.stamped => Clocked(f, m)
    BY <1>4, <1>7 DEF Clocked
  <2>. QED BY <2>1, <2>6, <2>7
<1>9. New(f)
  <2>1. f.payload.pit = [d \in {c} |-> FALSE]
    BY <1>1, <1>4
  <2>. QED BY <2>1 DEF New, EntryUpdate, Says
<1>10. Once' /\ Positions' /\ PlacesOK'
  BY <1>4, <1>9, EventOnce, EventPositions
<1>11. c \in DOMAIN inside /\ DOMAIN inside' = DOMAIN inside \ {c}
       /\ \A d \in DOMAIN inside' :
            /\ inside'[d].from = inside[d].from /\ inside'[d].status = inside[d].status
            /\ inside'[d].seen <=> inside[d].seen /\ Delivered
  <2>1. inside' = [d \in DOMAIN inside \ {c} |-> Unseen[d]]
    BY DEF LeavePit
  <2>2. c \in DOMAIN inside
    BY <1>0, <1>3 DEF HistoryOK
  <2>. QED BY <1>0, <2>1, <2>2, VisitsUnseen
<1>12. PICK v : /\ completed' = completed \cup {v}
                /\ v.car = c /\ v.from = inside[c].from /\ v.to = m
                /\ v.before = inside[c].status /\ v.after = s
                /\ v.seen <=> inside[c].seen /\ Delivered /\ stamped
  <2>. DEFINE b == Unseen[c].seen /\ stamped
              v == [car |-> c, from |-> inside[c].from, to |-> now, before |-> inside[c].status,
                    after |-> world.status, seen |-> b]
  <2>1. completed' = completed \cup {v}
    BY DEF LeavePit
  <2>2. b <=> inside[c].seen /\ Delivered /\ stamped
    BY <1>0, <1>11, VisitsUnseen
  <2>. HIDE DEF b
  <2>3. v.car = c /\ v.from = inside[c].from /\ v.to = m
        /\ v.before = inside[c].status /\ v.after = s /\ v.seen = b
    BY <1>7
  <2>. HIDE DEF v
  <2>. QED BY <2>1, <2>2, <2>3
<1>13. ASSUME v.seen PROVE Pending(h, v)'
  <2>1. inside[c].seen /\ Delivered /\ f.stamped /\ whole
        /\ Begun(g, Len(queue) + 1, c, inside[c].from, inside[c].status)
    BY <1>4, <1>5, <1>11, <1>12, <1>13 DEF InsideSeen
  <2>2. PICK k : k = Len(queue) + 1
    OBVIOUS
  <2>3. Reports(h, k, c, FALSE, m, s)' /\ Len(queue') = k /\ k \in Nat /\ k >= 1
    <3>1. Reports(h, k, c, FALSE, m, s)'
      BY <1>8, <2>1, <2>2, Zenon
    <3>2. Len(queue') = Len(queue) + 1 /\ Len(queue) \in Nat
      BY <1>8, <2>1, Zenon
    <3>3. Len(queue') = k /\ k \in Nat /\ k >= 1
      BY <2>2, <3>2
    <3>. QED BY <3>1, <3>3, Zenon
  <2>4. Begun(g, k, v.car, v.from, v.before) /\ k \in 1..(Len(queue) + 1)
    BY <1>12, <2>1, <2>2, <2>3
  <2>5. Begun(h, k, v.car, v.from, v.before)'
    BY <1>4, <1>6, <2>4, BegunKept
  <2>6. k \in 1..Len(queue')
    BY <2>3
  <2>7. Reports(h, k, v.car, FALSE, v.to, v.after)'
    BY <1>12, <2>3
  <2>. QED BY <2>5, <2>6, <2>7 DEF Pending
<1>14. CompletedSeen(h)'
  <2>1. \A w \in completed : w.seen => Pending(h, w)' \/ Settled(w)'
    BY <1>4, <1>5, <1>6, <1>9, EventCompleted
  <2>. QED BY <1>12, <1>13, <2>1 DEF CompletedSeen
<1>15. InsideSeen(h)'
  <2>. SUFFICES ASSUME NEW d \in DOMAIN inside', inside'[d].seen
                PROVE  (whole /\ Begun(h, Len(queue) + 1, d, inside[d].from, inside[d].status))'
    BY DEF InsideSeen
  <2>1. d \in DOMAIN inside /\ inside[d].seen /\ Delivered /\ ~PitFrame(f, d)
    BY <1>8, <1>11
  <2>2. PICK m1, s1 : m1 = inside[d].from /\ s1 = inside[d].status
    OBVIOUS
  <2>3. whole' /\ Begun(h, Len(queue) + 1, d, m1, s1)'
    BY <1>4, <1>5, <1>6, <2>1, <2>2, EventInside
  <2>. QED BY <1>11, <2>1, <2>2, <2>3
<1>16. Times'
  <2>1. now' = now /\ world'.status = world.status
    BY <1>0, <1>3 DEF WorldOK
  <2>2. v.from <= v.to /\ v.after # ""
    BY <1>7, <1>11, <1>12 DEF Times, Statuses
  <2>. QED BY <1>11, <1>12, <2>1, <2>2 DEF Times
<1>. QED BY <1>6, <1>8, <1>10, <1>14, <1>15, <1>16 DEF Following

--------------------------------------------------------------------------------
(* The clock, and a lost connection *)

(* Nothing but the clock moves. *)
LEMMA QuietState ==
    ASSUME Full, Inv', Times',
           UNCHANGED <<world, connected, queue, collector, history>>
    PROVE  Full'
<1>. USE DEF Full, collector, history
<1>1. PICK g : Path(g) /\ EndsCurrent(g) /\ InsideSeen(g) /\ CompletedSeen(g)
  BY DEF Following
<1>2. Standings' /\ Positions' /\ PlacesOK'
  BY DEF Standings, Positions, PlacesOK
<1>3. \A c, m : Coming(c, m)' <=> Coming(c, m)
  BY DEF Coming
<1>4. Once'
  BY <1>3 DEF Once
<1>5. \A v : Shows(v)' <=> Shows(v)
  BY DEF Shows
<1>6. Path(g)' /\ EndsCurrent(g)'
  BY <1>1, <1>5 DEF Path, EndsCurrent
<1>7. ASSUME NEW k, NEW c, NEW m, NEW s, Begun(g, k, c, m, s) PROVE Begun(g, k, c, m, s)'
  BY <1>7 DEF Begun, Reports
<1>8. InsideSeen(g)'
  BY <1>1, <1>7 DEF InsideSeen
<1>9. ASSUME NEW v, Pending(g, v) PROVE Pending(g, v)'
  <2>1. PICK k \in 1..Len(queue) : /\ Reports(g, k, v.car, FALSE, v.to, v.after)
                                    /\ Begun(g, k, v.car, v.from, v.before)
    BY <1>9 DEF Pending
  <2>2. Reports(g, k, v.car, FALSE, v.to, v.after)'
    BY <2>1 DEF Reports
  <2>3. Begun(g, k, v.car, v.from, v.before)'
    BY <1>7, <2>1
  <2>. QED BY <2>2, <2>3 DEF Pending
<1>10. ASSUME NEW v, Settled(v) PROVE Settled(v)'
  <2>1. PICK c, m : c = v.car /\ m = v.from
    OBVIOUS
  <2>2. ~Coming(c, m)'
    BY <1>3, <1>10, <2>1 DEF Settled
  <2>. QED BY <1>10, <2>1, <2>2 DEF Settled, Racing, Record
<1>11. CompletedSeen(g)'
  BY <1>1, <1>9, <1>10 DEF CompletedSeen
<1>. QED BY <1>2, <1>4, <1>6, <1>8, <1>11 DEF Following

LEMMA TickFull == ASSUME Full, Inv', Tick PROVE Full'
<1>1. now \in Nat /\ now' = now + 1 /\ UNCHANGED <<world, connected, queue, collector, history>>
      /\ HistoryOK
  BY DEF Full, Inv, Base, Tick
<1>2. Times'
  <2>1. \A n \in Nat : n <= now => n <= now'
    BY <1>1
  <2>2. \A c \in DOMAIN inside : inside[c].from \in Nat
    BY <1>1 DEF HistoryOK
  <2>. QED BY <1>1, <2>1, <2>2 DEF Full, Times, history
<1>. QED BY <1>1, <1>2, QuietState

LEMMA StutterFull == ASSUME Full, Inv', UNCHANGED vars PROVE Full'
<1>1. UNCHANGED <<now, world, connected, queue, collector, history>>
  BY DEF vars, session
<1>2. Times'
  BY <1>1 DEF Full, Times, history
<1>. QED BY <1>1, <1>2, QuietState

LEMMA DisconnectFull == ASSUME Full, Inv', Disconnect PROVE Full'
<1>. USE DEF Full
<1>1. PICK g : Path(g) /\ EndsCurrent(g) /\ InsideSeen(g) /\ CompletedSeen(g)
  BY DEF Following
<1>2. /\ UNCHANGED <<now, world, queue, view, visits, stops, baseline, current, completed, firstSeen>>
      /\ connected /\ connected' = FALSE /\ whole' = FALSE
  BY DEF Disconnect, session, collector
<1>3. /\ DOMAIN inside' = DOMAIN inside
      /\ \A c \in DOMAIN inside : inside'[c].from = inside[c].from /\ inside'[c].seen = FALSE
  <2>1. HistoryOK /\ inside' = [c \in DOMAIN inside |-> [inside[c] EXCEPT !.seen = FALSE]]
    BY DEF Inv, Base, Disconnect
  <2>2. \A c \in DOMAIN inside :
          inside[c] = [from |-> inside[c].from, status |-> inside[c].status,
                       seen |-> inside[c].seen]
    BY <2>1 DEF HistoryOK
  <2>3. \A c \in DOMAIN inside :
          inside'[c] = [from |-> inside[c].from, status |-> inside[c].status, seen |-> FALSE]
    <3>. SUFFICES ASSUME NEW c \in DOMAIN inside
                  PROVE  inside'[c] = [from |-> inside[c].from, status |-> inside[c].status,
                                       seen |-> FALSE]
      OBVIOUS
    <3>1. inside'[c] = [inside[c] EXCEPT !.seen = FALSE]
      BY <2>1
    <3>. QED BY <2>2, <3>1
  <2>. QED BY <2>1, <2>3
<1>4. Standings' /\ PlacesOK'
  BY <1>2 DEF Standings, PlacesOK
<1>5. Positions'
  BY <1>2 DEF Positions
<1>6. \A c, m : Coming(c, m)' <=> Coming(c, m)
  BY <1>2 DEF Coming
<1>7. Once'
  BY <1>2, <1>6 DEF Once
<1>8. Times'
  BY <1>2, <1>3 DEF Times
<1>9. Path(g)' /\ EndsCurrent(g)'
  BY <1>1, <1>2 DEF Path, EndsCurrent
<1>10. InsideSeen(g)'
  BY <1>3 DEF InsideSeen
<1>11. ASSUME NEW v, Pending(g, v) PROVE Pending(g, v)'
  <2>1. PICK k \in 1..Len(queue) : /\ Reports(g, k, v.car, FALSE, v.to, v.after)
                                    /\ Begun(g, k, v.car, v.from, v.before)
    BY <1>11 DEF Pending
  <2>2. Reports(g, k, v.car, FALSE, v.to, v.after)'
    BY <1>2, <2>1 DEF Reports
  <2>3. Begun(g, k, v.car, v.from, v.before)'
    BY <1>2, <2>1 DEF Begun, Reports
  <2>. QED BY <1>2, <2>2, <2>3 DEF Pending
<1>12. ASSUME NEW v, Settled(v) PROVE Settled(v)'
  <2>1. PICK c, m : c = v.car /\ m = v.from
    OBVIOUS
  <2>2. ~Coming(c, m)'
    BY <1>6, <1>12, <2>1 DEF Settled
  <2>. QED BY <1>2, <1>12, <2>1, <2>2 DEF Settled, Racing, Record
<1>13. CompletedSeen(g)'
  BY <1>1, <1>2, <1>11, <1>12 DEF CompletedSeen
<1>. QED BY <1>4, <1>5, <1>7, <1>8, <1>9, <1>10, <1>13 DEF Following

--------------------------------------------------------------------------------
(* A new connection, with its snapshot *)

(* The topics that the first i frames of a snapshot replace. *)
Answered(order, i) == {order[j] : j \in 1..i}

LEMMA AnsweredNext ==
    ASSUME NEW order, NEW i \in Nat, i >= 1
    PROVE  Answered(order, i) = Answered(order, i - 1) \cup {order[i]}
<1>1. 1..i = (1..(i - 1)) \cup {i}
  OBVIOUS
<1>. QED BY <1>1 DEF Answered

(* The views that a snapshot will bring. *)
Refreshed(v, order, i, topics) ==
  [t \in DOMAIN v \cup Answered(order, i) |-> IF t \in Answered(order, i) THEN topics[t] ELSE v[t]]

LEMMA RefreshedStarts ==
    ASSUME NEW v, v = [t \in DOMAIN v |-> v[t]], NEW order, NEW topics
    PROVE  Refreshed(v, order, 0, topics) = v
<1>1. Answered(order, 0) = {}
  BY DEF Answered
<1>. QED BY <1>1 DEF Refreshed

LEMMA RefreshedNext ==
    ASSUME NEW v, NEW order, NEW i \in Nat, i >= 1, NEW topics,
           NEW f, f.topic = order[i], f.initial, f.payload = topics[order[i]]
    PROVE  Refreshed(v, order, i, topics) = apply(Refreshed(v, order, i - 1, topics), f)
<1>. DEFINE a == Answered(order, i)
            b == Answered(order, i - 1)
            old == Refreshed(v, order, i - 1, topics)
            new == Refreshed(v, order, i, topics)
<1>1. a = b \cup {order[i]}
  BY AnsweredNext
<1>2. /\ DOMAIN old = DOMAIN v \cup b
      /\ \A t \in DOMAIN old : old[t] = IF t \in b THEN topics[t] ELSE v[t]
  BY DEF Refreshed
<1>3. new = [t \in DOMAIN v \cup a |-> IF t \in a THEN topics[t] ELSE v[t]]
  BY DEF Refreshed
<1>4. apply(old, f) = [t \in DOMAIN old \cup {order[i]} |->
                         IF t = order[i] THEN topics[order[i]] ELSE old[t]]
  BY DEF apply
<1>. HIDE DEF a, b, old, new
<1>5. DOMAIN v \cup a = DOMAIN old \cup {order[i]}
  BY <1>1, <1>2
<1>6. \A t \in DOMAIN v \cup a :
        (IF t \in a THEN topics[t] ELSE v[t]) = (IF t = order[i] THEN topics[order[i]] ELSE old[t])
  BY <1>1, <1>2
<1>7. new = apply(old, f)
  BY <1>3, <1>4, <1>5, <1>6
<1>. QED BY <1>7 DEF old, new

LEMMA SnapshotShows ==
    ASSUME Full, NEW v, NEW topics, topics = Snapshot,
           "TimingStats" \in DOMAIN v => DOMAIN world.time # {},
           NEW w, DOMAIN w = DOMAIN v \cup Listed, \A t \in Listed : w[t] = topics[t]
    PROVE  Shows(w)
<1>1. "TimingData" \in Listed /\ "SessionStatus" \in Listed
  BY DEF Listed
<1>2. "TimingStats" \in Listed <=> DOMAIN world.time # {}
  BY DEF Listed
<1>3. topics["TimingData"] = [pit |-> world.pit, place |-> world.place]
  BY <1>1 DEF Snapshot
<1>4. topics["SessionStatus"] = world.status
  BY <1>1 DEF Snapshot
<1>5. "TimingStats" \in Listed =>
        topics["TimingStats"] = [time |-> world.time, rank |-> RankOf(world.time)]
  BY DEF Snapshot
<1>. QED BY <1>1, <1>2, <1>3, <1>4, <1>5 DEF Shows

LEMMA ConnectFull ==
    ASSUME Full, Inv', NEW order \in SnapshotOrders, Connect(order)
    PROVE  Full'
<1>. USE DEF Full
<1>1. PICK g : Path(g) /\ EndsCurrent(g) /\ InsideSeen(g) /\ CompletedSeen(g)
  BY DEF Following
<1>2. /\ UNCHANGED <<now, world, view, visits, stops, baseline, current, inside, completed>>
      /\ ~connected /\ connected' = TRUE /\ whole' = TRUE /\ queue = <<>>
      /\ firstSeen' = IF firstSeen = NoFunction THEN world.place ELSE firstSeen
      /\ ToSet(order) = Listed /\ order \in Seq(Topics)
  BY OrdersAssumption DEF Connect, session, collector
<1>3. PICK topics : topics = Snapshot
  OBVIOUS
<1>4. queue' = [i \in DOMAIN order |-> Frame(order[i], TRUE, 0, FALSE, topics[order[i]])]
  BY <1>3 DEF Connect
<1>5. /\ Len(order) \in Nat /\ DOMAIN order = 1..Len(order)
      /\ queue' \in Seq({queue'[i] : i \in 1..Len(order)}) /\ Len(queue') = Len(order)
  <2>1. Len(order) \in Nat /\ DOMAIN order = 1..Len(order)
    BY <1>2
  <2>2. queue' = [i \in 1..Len(order) |-> queue'[i]]
    BY <1>4, <2>1
  <2>. QED BY <2>1, <2>2, FramesAreSequence
<1>6. \A i \in 1..Len(queue') :
        /\ queue'[i].topic = order[i] /\ queue'[i].initial = TRUE
        /\ queue'[i].payload = topics[order[i]]
  BY <1>4, <1>5 DEF Frame
<1>7. Answered(order, Len(order)) = Listed
  BY <1>2, <1>5 DEF ToSet, Answered
<1>8. WorldOK /\ Standings /\ "TimingData" \in Listed
      /\ topics["TimingData"] = [pit |-> world.pit, place |-> world.place]
  <2>1. "TimingData" \in Listed
    BY DEF Listed
  <2>. QED BY <1>3, <2>1 DEF Inv, Base, Snapshot
<1>9. PICK v : v = view /\ v = [t \in DOMAIN v |-> v[t]]
  BY DEF Positions
<1>10. PICK h : h = [i \in 0..Len(order) |-> Refreshed(v, order, i, topics)]
  OBVIOUS
<1>11. Path(h)'
  <2>1. h[0] = v
    <3>1. h[0] = Refreshed(v, order, 0, topics)
      BY <1>5, <1>10
    <3>. QED BY <1>9, <3>1, RefreshedStarts
  <2>2. ASSUME NEW i \in 1..Len(queue') PROVE h[i] = apply(h[i - 1], queue'[i])
    <3>1. i \in 0..Len(order) /\ i - 1 \in 0..Len(order) /\ i \in Nat /\ i >= 1
      BY <1>5
    <3>2. h[i] = Refreshed(v, order, i, topics) /\ h[i - 1] = Refreshed(v, order, i - 1, topics)
      BY <1>10, <3>1
    <3>3. PICK f : f = queue'[i]
      OBVIOUS
    <3>4. f.topic = order[i] /\ f.initial /\ f.payload = topics[order[i]]
      BY <1>6, <3>3
    <3>5. Refreshed(v, order, i, topics) = apply(Refreshed(v, order, i - 1, topics), f)
      BY <3>1, <3>4, RefreshedNext
    <3>. QED BY <3>2, <3>3, <3>5
  <2>. QED BY <1>2, <1>9, <2>1, <2>2 DEF Path
<1>12. EndsCurrent(h)'
  <2>0. "TimingStats" \in DOMAIN v => DOMAIN world.time # {}
    <3>1. 0 \in 0..Len(queue) /\ g[0] = v
      BY <1>1, <1>2, <1>9 DEF Path
    <3>. QED BY <1>1, <3>1 DEF EndsCurrent
  <2>1. PICK w : w = h[Len(queue')]
    OBVIOUS
  <2>2. w = Refreshed(v, order, Len(order), topics)
    BY <1>5, <1>10, <2>1
  <2>3. DOMAIN w = DOMAIN v \cup Listed /\ \A t \in Listed : w[t] = topics[t]
    BY <1>7, <2>2 DEF Refreshed
  <2>4. Shows(w)
    BY <1>3, <2>0, <2>3, SnapshotShows
  <2>5. Shows(w)'
    BY <1>2, <2>4 DEF Shows
  <2>6. ASSUME NEW i \in 0..Len(queue'), "TimingStats" \in DOMAIN h[i]
        PROVE  DOMAIN world.time # {}
    <3>1. h[i] = Refreshed(v, order, i, topics)
      BY <1>5, <1>10
    <3>2. DOMAIN h[i] = DOMAIN v \cup Answered(order, i)
      BY <3>1 DEF Refreshed
    <3>3. Answered(order, i) \subseteq Listed
      <4>1. \A j \in 1..i : j \in 1..Len(order)
        BY <1>5
      <4>. QED BY <1>7, <4>1 DEF Answered
    <3>4. "TimingStats" \in DOMAIN v \/ "TimingStats" \in Listed
      BY <2>6, <3>2, <3>3
    <3>. QED BY <2>0, <3>4 DEF Listed
  <2>. QED BY <1>2, <2>1, <2>5, <2>6 DEF EndsCurrent
<1>13. Standings'
  BY <1>2, <1>8 DEF Standings
<1>14. PlacesOK'
  <2>. SUFFICES ASSUME NEW i \in 1..Len(queue') PROVE PlaceOK(queue'[i])
    BY DEF PlacesOK
  <2>1. PICK f : f = queue'[i] /\ f.topic = order[i] /\ f.payload = topics[order[i]]
    BY <1>6
  <2>2. f.topic = "TimingData" => f.payload.place = world.place
    BY <1>8, <2>1
  <2>3. world.place = [c \in DOMAIN world.place |-> world.place[c]] /\ DOMAIN world.place = Cars
    BY <1>8, WorldParts
  <2>4. PlaceOK(f)
    BY <2>2, <2>3 DEF PlaceOK
  <2>. QED BY <2>1, <2>4
<1>15. Positions'
  <2>1. PICK k \in 1..Len(order) : order[k] = "TimingData"
    BY <1>7, <1>8 DEF Answered
  <2>2. world.place \in [Cars -> Int] /\ DOMAIN world.place = Cars
    BY <1>8 DEF Standings
  <2>3. CASE "TimingData" \in DOMAIN view
    <3>1. baseline \in [Cars -> Int] /\ firstSeen = baseline /\ DOMAIN current = Cars
      BY <2>3 DEF Positions
    <3>2. firstSeen' = firstSeen
      <4>1. CASE firstSeen # NoFunction
        BY <1>2, <4>1
      <4>2. CASE firstSeen = NoFunction
        <5>1. Cars = {}
          BY <3>1, <4>2, NothingSaid
        <5>2. world.place = NoFunction
          BY <2>2, <5>1 DEF NoFunction
        <5>. QED BY <1>2, <4>2, <5>2
      <4>. QED BY <4>1, <4>2
    <3>. QED BY <1>2, <2>3, <3>1, <3>2 DEF Positions
  <2>4. CASE "TimingData" \notin DOMAIN view
    <3>1. baseline = NoFunction /\ firstSeen = NoFunction
      <4>1. Len(queue) = 0
        BY <1>2
      <4>. QED BY <2>4, <4>1 DEF Positions
    <3>2. firstSeen' = world.place
      BY <1>2, <3>1
    <3>3. k \in 1..Len(queue') /\ queue'[k].topic = "TimingData"
      BY <1>5, <1>6, <2>1
    <3>4. \A j \in 1..k : queue'[j].topic = "TimingData" =>
                            queue'[j].initial /\ queue'[j].payload.place = firstSeen'
      <4>. SUFFICES ASSUME NEW j \in 1..k, queue'[j].topic = "TimingData"
                    PROVE  queue'[j].initial /\ queue'[j].payload.place = firstSeen'
        OBVIOUS
      <4>1. j \in 1..Len(queue')
        BY <1>5
      <4>2. queue'[j].topic = order[j] /\ queue'[j].initial = TRUE
            /\ queue'[j].payload = topics[order[j]]
        BY <1>6, <4>1
      <4>3. queue'[j].payload = [pit |-> world.pit, place |-> world.place]
        BY <1>8, <4>2
      <4>. QED BY <3>2, <4>2, <4>3
    <3>5. firstSeen' \in [Cars -> Int]
      BY <2>2, <3>2
    <3>. QED BY <1>2, <2>4, <3>1, <3>3, <3>4, <3>5 DEF Positions
  <2>. QED BY <2>3, <2>4
<1>16. \A i \in 1..Len(queue') : \A c : ~EntryUpdate(queue'[i], c)
  BY <1>6 DEF EntryUpdate
<1>17. \A c, m : Coming(c, m)' => Coming(c, m)
  BY <1>2, <1>16 DEF Coming
<1>18. Once'
  BY <1>2, <1>16, <1>17 DEF Once
<1>19. Times'
  BY <1>2 DEF Times
<1>20. InsideSeen(h)'
  BY <1>1, <1>2 DEF InsideSeen, EndsCurrent
<1>21. CompletedSeen(h)'
  <2>. SUFFICES ASSUME NEW w \in completed, w.seen PROVE Settled(w)'
    BY <1>2 DEF CompletedSeen
  <2>1. Settled(w)
    <3>1. Len(queue) = 0
      BY <1>2
    <3>2. ~Pending(g, w)
      BY <3>1 DEF Pending
    <3>. QED BY <1>1, <3>2 DEF CompletedSeen
  <2>2. PICK c, m : c = w.car /\ m = w.from
    OBVIOUS
  <2>3. ~Coming(c, m)'
    BY <1>17, <2>1, <2>2 DEF Settled
  <2>. QED BY <1>2, <2>1, <2>2, <2>3 DEF Settled, Racing, Record
<1>. QED BY <1>11, <1>12, <1>13, <1>14, <1>15, <1>18, <1>19, <1>20, <1>21 DEF Following

--------------------------------------------------------------------------------
(* The beginning *)

(* There are places for all the cars, one each. *)
LEMMA PlacesExist ==
    \E f \in [Cars -> 1..Cardinality(Cars)] : \A a, b \in Cars : f[a] = f[b] => a = b
<1>1. PICK b : b \in Bijection(1..Cardinality(Cars), Cars)
  BY CarsAssumption, FS_CardinalityType DEF ExistsBijection
<1>. DEFINE N == Cardinality(Cars)
            f == [c \in Cars |-> CHOOSE i \in 1..N : b[i] = c]
<1>2. \A c \in Cars : \E i \in 1..N : b[i] = c
  BY <1>1 DEF Bijection, Surjection
<1>3. \A c \in Cars : f[c] \in 1..N /\ b[f[c]] = c
  BY <1>2
<1>. HIDE DEF N
<1>4. f \in [Cars -> 1..N]
  BY <1>3
<1>5. \A c, d \in Cars : f[c] = f[d] => c = d
  BY <1>3
<1>. QED BY <1>4, <1>5 DEF N

LEMMA AllPlacesTaken ==
    ASSUME NEW f \in [Cars -> 1..Cardinality(Cars)], \A a, b \in Cars : f[a] = f[b] => a = b
    PROVE  \A i \in 1..Cardinality(Cars) : \E c \in Cars : f[c] = i
<1>. DEFINE N == Cardinality(Cars)
<1>1. N \in Nat
  BY CarsAssumption, FS_CardinalityType
<1>2. f \in Injection(Cars, 1..N)
  BY DEF Injection, IsInjective
<1>3. IsFiniteSet(1..N) /\ Cardinality(1..N) = N
  <2>1. IsFiniteSet(1..N) /\ Cardinality(1..N) = IF 1 > N THEN 0 ELSE N - 1 + 1
    BY <1>1, FS_Interval
  <2>. QED BY <1>1, <2>1
<1>4. f \in Surjection(Cars, 1..N)
  BY <1>2, <1>3, FS_Injection
<1>. QED BY <1>4 DEF Surjection

LEMMA StartsFull == ASSUME Init PROVE Full
<1>. USE DEF Init
<1>1. PICK g : g = [i \in {0} |-> view]
  OBVIOUS
<1>2. Len(queue) = 0 /\ DOMAIN view = {}
  BY NothingSaid
<1>3. Inv
  BY Starts
<1>4. DOMAIN visits = {} /\ DOMAIN inside = {} /\ completed = {} /\ stops = {}
  BY NothingSaid
<1>5. Once /\ PlacesOK
  BY <1>2, <1>4 DEF Once, PlacesOK
<1>6. Times
  BY <1>4 DEF Times, Statuses
<1>7. Positions
  BY <1>2, NothingSaid DEF Positions
<1>8. Standings
  <2>1. world.place = CHOOSE f \in [Cars -> 1..Cardinality(Cars)] :
                         \A a, b \in Cars : f[a] = f[b] => a = b
    OBVIOUS
  <2>2. /\ world.place \in [Cars -> 1..Cardinality(Cars)]
        /\ \A a, b \in Cars : world.place[a] = world.place[b] => a = b
    BY <2>1, PlacesExist
  <2>3. \A i \in 1..Cardinality(Cars) : \E c \in Cars : world.place[c] = i
    BY <2>2, AllPlacesTaken
  <2>4. world.time = NoFunction
    OBVIOUS
  <2>5. DOMAIN world.time = {} /\ world.time \in [DOMAIN world.time -> Int]
    BY <2>4, NothingSaid DEF NoFunction
  <2>. QED BY <2>2, <2>3, <2>5 DEF Standings
<1>9. Path(g)
  BY <1>1, <1>2 DEF Path
<1>10. EndsCurrent(g)
  <2>1. \A i \in 0..Len(queue) : g[i] = view
    BY <1>1, <1>2
  <2>. QED BY <1>2, <2>1 DEF EndsCurrent
<1>11. InsideSeen(g) /\ CompletedSeen(g)
  BY <1>4 DEF InsideSeen, CompletedSeen
<1>. QED BY <1>3, <1>5, <1>6, <1>7, <1>8, <1>9, <1>10, <1>11 DEF Full, Following

--------------------------------------------------------------------------------
(* A frame is read, in the views to come *)

(* The frame that is read, and what every tracker makes of it. *)
Read(f) ==
  /\ queue # <<>> /\ f = queue[1] /\ FrameOK(f) /\ PlaceOK(f)
  /\ Len(queue) \in Nat /\ 1 \in 1..Len(queue) /\ Len(queue') = Len(queue) - 1
  /\ \A i \in 1..Len(queue') : i + 1 \in 1..Len(queue) /\ queue'[i] = queue[i + 1]
  /\ view' = apply(view, f)
  /\ UNCHANGED <<now, world, connected, inside, completed, whole, firstSeen>>
  /\ \/ /\ Told(f, view') /\ view' # view /\ f.topic = "TimingData"
        /\ ObservePositions(f) /\ ObservePits(f, session_status(view'))
     \/ /\ ~Told(f, view')
        /\ view' = view \/ f.topic # "TimingData"
        /\ UNCHANGED <<visits, stops, baseline, current>>

LEMMA FrameRead == ASSUME Full, Handle PROVE \E f : Read(f)
<1>. DEFINE f == Head(queue)
<1>1. queue # <<>> /\ queue' = Tail(queue) /\ view' = apply(view, f)
      /\ UNCHANGED <<now, world, connected, inside, completed, whole, firstSeen>>
  BY DEF Handle, session, history
<1>2. PICK S : queue \in Seq(S)
  BY DEF Full, Inv, Base, QueueOK
<1>3. /\ Len(queue') = Len(queue) - 1 /\ Len(queue) \in Nat /\ Len(queue) >= 1 /\ f = queue[1]
      /\ \A i \in 1..Len(queue') : queue'[i] = queue[i + 1] /\ i + 1 \in 1..Len(queue)
  BY <1>1, <1>2, TailOfQueue
<1>4. 1 \in 1..Len(queue)
  BY <1>3
<1>5. FrameOK(f) /\ PlaceOK(f)
  BY <1>3, <1>4 DEF Full, Inv, Base, QueueOK, PlacesOK
<1>6. \/ Told(f, view') /\ ObservePositions(f) /\ ObservePits(f, session_status(view'))
      \/ ~Told(f, view') /\ UNCHANGED <<visits, stops, baseline, current>>
  BY DEF Handle
<1>7. Told(f, view') <=> view' # view /\ f.topic = "TimingData"
  BY DEF Told
<1>. HIDE DEF f
<1>. QED BY <1>1, <1>3, <1>4, <1>5, <1>6, <1>7 DEF Read

Opened(f, moment, status, seen) ==
  [startedAt |-> moment, status |-> status, observed |-> seen,
   entry |-> f.at, stamped |-> f.stamped]

(* The open visits after a frame the pit tracker is told of. *)
LEMMA VisitsAfter ==
    ASSUME NEW f, FrameOK(f), f.topic = "TimingData", NEW status, ObservePits(f, status)
    PROVE  /\ DOMAIN visits' = (DOMAIN visits \ Exited(f)) \cup Entered(f)
           /\ \A c \in Entered(f) : visits'[c] = Opened(f, Moment(f), status, ObservedEntry(f))
           /\ \A c \in DOMAIN visits' \ Entered(f) : visits'[c] = visits[c]
<1>. PICK seen, moment : seen = ObservedEntry(f) /\ moment = Moment(f)
  OBVIOUS
<1>. DEFINE pit     == f.payload.pit
            entered == {c \in DOMAIN pit : pit[c]}
            left    == {c \in DOMAIN pit \ entered : c \in DOMAIN visits}
<1>1. \A c \in DOMAIN pit : pit[c] \in BOOLEAN
  BY DEF FrameOK
<1>2. visits' = [c \in (DOMAIN visits \ left) \cup entered |->
                   IF c \in entered
                     THEN Opened(f, moment, status, seen)
                     ELSE visits[c]]
  BY DEF ObservePits, Opened
<1>3. entered = Entered(f) /\ left = Exited(f) \cap DOMAIN visits
  BY <1>1 DEF Entered, Exited
<1>. HIDE DEF pit, entered, left
<1>4. DOMAIN visits' = (DOMAIN visits \ left) \cup entered
  BY <1>2
<1>5. /\ \A c \in entered :
           visits'[c] = Opened(f, moment, status, seen)
      /\ \A c \in DOMAIN visits' \ entered : visits'[c] = visits[c]
  BY <1>2
<1>. QED BY <1>3, <1>4, <1>5

(* A visit counts as a stop when it is closed at moment in status. *)
Counts(c, moment, status) ==
  /\ visits[c].observed
  /\ moment - visits[c].startedAt > 0 /\ moment - visits[c].startedAt < Limit
  /\ status # "" => visits[c].status = status

StopAt(c, moment) ==
  [car |-> c, entered |-> visits[c].startedAt, seconds |-> moment - visits[c].startedAt,
   entry |-> visits[c].entry, stamped |-> visits[c].stamped]

LEMMA StopsAfter ==
    ASSUME NEW f, FrameOK(f), f.topic = "TimingData", NEW status, ObservePits(f, status),
           NEW moment, moment = Moment(f)
    PROVE  /\ stops \subseteq stops'
           /\ \A s \in stops' \ stops : \E c \in Exited(f) \cap DOMAIN visits :
                /\ Counts(c, moment, status)
                /\ s = StopAt(c, moment)
           /\ \A c \in Exited(f) \cap DOMAIN visits : Counts(c, moment, status) =>
                StopAt(c, moment) \in stops'
<1>. DEFINE pit     == f.payload.pit
            entered == {c \in DOMAIN pit : pit[c]}
            left    == {c \in DOMAIN pit \ entered : c \in DOMAIN visits}
<1>1. \A c \in DOMAIN pit : pit[c] \in BOOLEAN
  BY DEF FrameOK
<1>2. stops' = stops \cup
        {StopAt(c, moment) : c \in {d \in left : Counts(d, moment, status)}}
  BY DEF ObservePits, Counts, StopAt
<1>3. left = Exited(f) \cap DOMAIN visits
  BY <1>1 DEF Exited
<1>. HIDE DEF pit, entered, left
<1>4. /\ stops \subseteq stops'
      /\ \A s \in stops' \ stops : \E c \in left :
           /\ Counts(c, moment, status)
           /\ s = StopAt(c, moment)
      /\ \A c \in left : Counts(c, moment, status) =>
           StopAt(c, moment) \in stops'
  BY <1>2
<1>. QED BY <1>3, <1>4

(* The views that are still to come. *)
Shifted(g, h) == \A i \in 0..Len(queue') : h[i] = g[i + 1]

LEMMA ViewsShift ==
    ASSUME NEW f, Read(f), NEW g, Path(g), EndsCurrent(g)
    PROVE  /\ g[1] = view' /\ g[0] = view
           /\ \E h : Shifted(g, h) /\ Path(h)' /\ EndsCurrent(h)'
<1>. PICK n : n = Len(queue')
  OBVIOUS
<1>. PICK h : h = [i \in 0..n |-> g[i + 1]]
  OBVIOUS
<1>1. /\ f = queue[1] /\ Len(queue) \in Nat /\ n = Len(queue') /\ 1 \in 1..Len(queue) /\ Len(queue') = Len(queue) - 1
      /\ view' = apply(view, f)
      /\ \A i \in 1..Len(queue') : i + 1 \in 1..Len(queue) /\ queue'[i] = queue[i + 1]
      /\ UNCHANGED <<world, connected, whole>>
  BY DEF Read
<1>2. g[0] = view /\ \A i \in 1..Len(queue) : g[i] = apply(g[i - 1], queue[i])
  BY DEF Path
<1>3. g[1] = view'
  <2>1. g[1] = apply(g[1 - 1], queue[1])
    BY <1>1, <1>2
  <2>2. 1 - 1 = 0
    OBVIOUS
  <2>. QED BY <1>1, <1>2, <2>1, <2>2
<1>4. \A i \in 0..n : h[i] = g[i + 1]
  OBVIOUS
<1>5. h[0] = view'
  <2>1. 0 \in 0..n /\ 0 + 1 = 1
    BY <1>1
  <2>. QED BY <1>3, <1>4, <2>1
<1>6. \A i \in 1..n : h[i] = apply(h[i - 1], queue'[i])
  <2>. SUFFICES ASSUME NEW i \in 1..n PROVE h[i] = apply(h[i - 1], queue'[i])
    OBVIOUS
  <2>1. i \in 0..n /\ i - 1 \in 0..n /\ i - 1 + 1 = i /\ i + 1 - 1 = i
    BY <1>1
  <2>2. h[i] = g[i + 1] /\ h[i - 1] = g[i]
    BY <1>4, <2>1
  <2>3. g[i + 1] = apply(g[i + 1 - 1], queue[i + 1]) /\ queue'[i] = queue[i + 1]
    BY <1>1, <1>2
  <2>. QED BY <2>1, <2>2, <2>3
<1>7. Path(h)'
  BY <1>1, <1>5, <1>6 DEF Path
<1>8. h[Len(queue')] = g[Len(queue)]
  <2>1. n \in 0..n /\ n + 1 = Len(queue)
    BY <1>1
  <2>. QED BY <1>4, <2>1
<1>9. EndsCurrent(h)'
  <2>1. ASSUME whole' PROVE connected' /\ Shows(h[Len(queue)])'
    BY <1>1, <1>8, <2>1 DEF EndsCurrent, Shows
  <2>2. ASSUME NEW i \in 0..n, "TimingStats" \in DOMAIN h[i] PROVE DOMAIN world'.time # {}
    <3>1. i + 1 \in 0..Len(queue) /\ h[i] = g[i + 1]
      BY <1>1, <1>4
    <3>. QED BY <1>1, <2>2, <3>1 DEF EndsCurrent
  <2>. QED BY <1>1, <2>1, <2>2 DEF EndsCurrent
<1>10. Shifted(g, h)
  BY <1>1, <1>4 DEF Shifted
<1>. QED BY <1>2, <1>3, <1>7, <1>9, <1>10

LEMMA ReportsShift ==
    ASSUME NEW f, Read(f), NEW g, NEW h, Shifted(g, h),
           NEW i \in 1..Len(queue), i # 1, NEW c, NEW b, NEW m, NEW s, Reports(g, i, c, b, m, s)
    PROVE  i - 1 \in 1..Len(queue') /\ Reports(h, i - 1, c, b, m, s)'
<1>1. PICK l : l = i - 1
  OBVIOUS
<1>2. l \in 1..Len(queue') /\ l + 1 = i /\ l \in 0..Len(queue') /\ l - 1 \in 0..Len(queue')
      /\ l - 1 + 1 = i - 1
  BY <1>1 DEF Read
<1>3. h[l] = g[i] /\ h[l - 1] = g[i - 1] /\ queue'[l] = queue[i]
  BY <1>2 DEF Shifted, Read
<1>. QED BY <1>1, <1>2, <1>3 DEF Reports

(* A report on the first frame is told to the trackers. *)
LEMMA FirstReport ==
    ASSUME NEW f, Read(f), NEW g, g[1] = view', g[0] = view,
           NEW c, NEW b, NEW m, NEW s, Reports(g, 1, c, b, m, s)
    PROVE  /\ ObservePits(f, s) /\ f.topic = "TimingData" /\ FrameOK(f)
           /\ Moment(f) = m /\ f.at = m /\ f.stamped = TRUE /\ ~f.initial /\ Says(f, c, b)
<1>1. Says(f, c, b) /\ ~f.initial /\ f.at = m /\ f.stamped /\ session_status(view') = s
  BY DEF Reports, Read
<1>2. view' # view
  <2>1. g[1] # g[1 - 1] /\ 1 - 1 = 0
    BY DEF Reports
  <2>. QED BY <2>1
<1>3. f.topic = "TimingData"
  BY <1>1 DEF Says
<1>4. ObservePits(f, session_status(view')) /\ FrameOK(f)
  BY <1>2, <1>3 DEF Read
<1>5. Moment(f) = m
  BY <1>1, <1>4 DEF Moment, FrameOK
<1>. QED BY <1>1, <1>3, <1>4, <1>5

LEMMA BegunShift ==
    ASSUME NEW f, Read(f), NEW g, NEW h, Shifted(g, h), g[1] = view', g[0] = view,
           NEW k \in 1..(Len(queue) + 1), k # 1, NEW c, NEW m, NEW s, Begun(g, k, c, m, s)
    PROVE  Begun(h, k - 1, c, m, s)'
<1>1. PICK l : l = k - 1
  OBVIOUS
<1>2. l + 1 = k /\ l \in 1..Len(queue) /\ Len(queue) \in Nat /\ 1 \in 1..Len(queue) /\ 1 < k
  BY <1>1 DEF Read
<1>3. \A j \in 1..Len(queue') :
        j + 1 \in 1..Len(queue) /\ queue'[j] = queue[j + 1] /\ j \in Int /\ 1 < j + 1
  BY DEF Read
<1>4. ASSUME c \in DOMAIN visits,
             visits[c] = Timed(m, s),
             \A j \in 1..Len(queue) : j < k => ~PitFrame(queue[j], c)
      PROVE  Begun(h, l, c, m, s)'
  <2>1. \A j \in 1..Len(queue') : j < l => ~PitFrame(queue'[j], c)
    <3>. SUFFICES ASSUME NEW j \in 1..Len(queue'), j < l PROVE ~PitFrame(queue'[j], c)
      OBVIOUS
    <3>1. j + 1 < k
      BY <1>2, <1>3
    <3>. QED BY <1>3, <1>4, <3>1
  <2>2. ~PitFrame(f, c)
    <3>1. f = queue[1]
      BY DEF Read
    <3>. QED BY <1>2, <1>4, <3>1
  <2>3. c \in DOMAIN visits' /\ visits'[c] = visits[c]
    <3>1. CASE f.topic = "TimingData" /\ ObservePits(f, session_status(view'))
      <4>2. FrameOK(f)
        BY DEF Read
      <4>3. /\ DOMAIN visits' = (DOMAIN visits \ Exited(f)) \cup Entered(f)
            /\ \A d \in DOMAIN visits' \ Entered(f) : visits'[d] = visits[d]
        BY <3>1, <4>2, VisitsAfter
      <4>4. c \notin Exited(f) /\ c \notin Entered(f)
        BY <2>2, <3>1 DEF PitFrame, Exited, Entered
      <4>. QED BY <1>4, <4>3, <4>4
    <3>2. CASE visits' = visits
      BY <1>4, <3>2
    <3>. QED BY <3>1, <3>2 DEF Read
  <2>. QED BY <1>4, <2>1, <2>3 DEF Begun
<1>5. ASSUME NEW i \in 1..Len(queue), i < k, Reports(g, i, c, TRUE, m, s),
             \A j \in 1..Len(queue) : i < j /\ j < k => ~PitFrame(queue[j], c)
      PROVE  Begun(h, l, c, m, s)'
  <2>1. CASE i # 1
    <3>1. i - 1 \in 1..Len(queue') /\ Reports(h, i - 1, c, TRUE, m, s)'
      BY <1>5, <2>1, ReportsShift
    <3>2. i - 1 < l
      BY <1>2, <1>5
    <3>3. \A j \in 1..Len(queue') : i - 1 < j /\ j < l => ~PitFrame(queue'[j], c)
      <4>. SUFFICES ASSUME NEW j \in 1..Len(queue'), i - 1 < j, j < l
                    PROVE  ~PitFrame(queue'[j], c)
        OBVIOUS
      <4>1. i < j + 1 /\ j + 1 < k
        BY <1>2, <1>3
      <4>. QED BY <1>3, <1>5, <4>1
    <3>. QED BY <3>1, <3>2, <3>3 DEF Begun
  <2>2. CASE i = 1
    <3>1. /\ ObservePits(f, s) /\ f.topic = "TimingData" /\ FrameOK(f)
          /\ Moment(f) = m /\ f.at = m /\ f.stamped = TRUE /\ ~f.initial /\ Says(f, c, TRUE)
      <4>1. Reports(g, 1, c, TRUE, m, s)
        BY <1>5, <2>2
      <4>. QED BY <4>1, FirstReport
    <3>2. c \in Entered(f)
      BY <3>1 DEF Says, Entered
    <3>3. \A d \in Entered(f) : visits'[d] = Opened(f, Moment(f), s, ObservedEntry(f))
      BY <3>1, VisitsAfter
    <3>4. DOMAIN visits' = (DOMAIN visits \ Exited(f)) \cup Entered(f)
      BY <3>1, VisitsAfter
    <3>6. Opened(f, Moment(f), s, ObservedEntry(f)) = Timed(m, s)
      <4>1. ObservedEntry(f) = TRUE
        BY <3>1 DEF ObservedEntry
      <4>. QED BY <3>1, <4>1 DEF Opened, Timed
    <3>5. \A j \in 1..Len(queue') : j < l => ~PitFrame(queue'[j], c)
      <4>. SUFFICES ASSUME NEW j \in 1..Len(queue'), j < l PROVE ~PitFrame(queue'[j], c)
        OBVIOUS
      <4>1. i < j + 1 /\ j + 1 < k
        BY <1>2, <1>3, <2>2
      <4>. QED BY <1>3, <1>5, <4>1
    <3>. QED BY <3>2, <3>3, <3>4, <3>5, <3>6 DEF Begun
  <2>. QED BY <2>1, <2>2
<1>6. Begun(h, l, c, m, s)'
  BY <1>4, <1>5 DEF Begun
<1>. QED BY <1>1, <1>6

--------------------------------------------------------------------------------
(* What is still to come once it is read *)

(* What the frame does to the open visits and to the stops, told or not. *)
LEMMA TrackersRead ==
    ASSUME NEW f, Read(f)
    PROVE  /\ \A c \in DOMAIN visits' :
                \/ c \in DOMAIN visits /\ visits'[c] = visits[c]
                   /\ (visits' # visits => ~Says(f, c, FALSE))
                \/ /\ Says(f, c, TRUE)
                   /\ visits'[c].entry = f.at
                   /\ visits'[c].observed <=> ~f.initial
           /\ stops \subseteq stops'
           /\ \A s \in stops' \ stops : \E c \in DOMAIN visits :
                /\ visits[c].observed /\ s.car = c /\ s.entry = visits[c].entry
                /\ c \notin DOMAIN visits'
<1>1. CASE UNCHANGED <<visits, stops>>
  BY <1>1
<1>2. CASE f.topic = "TimingData" /\ ObservePits(f, session_status(view'))
  <2>1. FrameOK(f)
    BY DEF Read
  <2>2. /\ DOMAIN visits' = (DOMAIN visits \ Exited(f)) \cup Entered(f)
        /\ \A c \in Entered(f) : /\ visits'[c].entry = f.at
                                  /\ visits'[c].observed = ~f.initial
        /\ \A c \in DOMAIN visits' \ Entered(f) : visits'[c] = visits[c]
    BY <1>2, <2>1, PitsObserved
  <2>3. /\ stops \subseteq stops'
        /\ \A s \in stops' \ stops : \E c \in Exited(f) \cap DOMAIN visits :
             /\ visits[c].observed /\ s.car = c /\ s.entry = visits[c].entry
    <3>1. PICK moment, status : moment = Moment(f) /\ status = session_status(view')
      OBVIOUS
    <3>2. ObservePits(f, status) /\ f.topic = "TimingData"
      BY <1>2, <3>1
    <3>3. /\ stops \subseteq stops'
          /\ \A s \in stops' \ stops : \E c \in Exited(f) \cap DOMAIN visits :
               /\ Counts(c, moment, status) /\ s = StopAt(c, moment)
      BY <2>1, <3>1, <3>2, StopsAfter
    <3>4. \A s, c : s = StopAt(c, moment) => s.car = c /\ s.entry = visits[c].entry
      BY DEF StopAt
    <3>5. \A c : Counts(c, moment, status) => visits[c].observed
      BY DEF Counts
    <3>. QED BY <3>3, <3>4, <3>5
  <2>4. /\ \A c \in Entered(f) : Says(f, c, TRUE) /\ c \notin Exited(f)
        /\ \A c : Says(f, c, FALSE) => c \in Exited(f)
    BY <1>2, <2>1 DEF Entered, Exited, Says, FrameOK
  <2>5. \A c \in Exited(f) : c \notin DOMAIN visits'
    BY <2>2, <2>4
  <2>6. \A s \in stops' \ stops : \E c \in DOMAIN visits :
          /\ visits[c].observed /\ s.car = c /\ s.entry = visits[c].entry
          /\ c \notin DOMAIN visits'
    BY <2>3, <2>5
  <2>7. \A c \in DOMAIN visits' :
          \/ c \in DOMAIN visits /\ visits'[c] = visits[c] /\ ~Says(f, c, FALSE)
          \/ /\ Says(f, c, TRUE)
             /\ visits'[c].entry = f.at
             /\ visits'[c].observed <=> ~f.initial
    BY <2>2, <2>4
  <2>. QED BY <2>3, <2>6, <2>7
<1>. QED BY <1>1, <1>2 DEF Read

LEMMA ComingRead ==
    ASSUME Full, NEW f, Read(f), NEW c, NEW m, Coming(c, m)'
    PROVE  Coming(c, m)
<1>1. f = queue[1] /\ 1 \in 1..Len(queue) /\ now \in Nat \ {0} /\ FrameOK(f)
      /\ \A i \in 1..Len(queue') : i + 1 \in 1..Len(queue) /\ queue'[i] = queue[i + 1]
  BY DEF Read, Full, Inv, Base
<1>2. ASSUME NEW i \in 1..Len(queue'), EntryUpdate(queue'[i], c), queue'[i].at = m
      PROVE  Coming(c, m)
  BY <1>1, <1>2 DEF Coming
<1>3. ASSUME c \in DOMAIN visits', visits'[c].observed, visits'[c].entry = m
      PROVE  Coming(c, m)
  <2>1. CASE c \in DOMAIN visits /\ visits'[c] = visits[c]
    BY <1>3, <2>1 DEF Coming
  <2>2. CASE /\ Says(f, c, TRUE)
             /\ visits'[c].entry = f.at
             /\ visits'[c].observed <=> ~f.initial
    <3>1. ~f.initial /\ Says(f, c, TRUE)
      BY <1>3, <2>2
    <3>2. f.at = m
      BY <1>1, <1>3, <2>2, <3>1
    <3>. QED BY <1>1, <3>1, <3>2 DEF Coming, EntryUpdate
  <2>. QED BY <1>3, <2>1, <2>2, TrackersRead
<1>. QED BY <1>2, <1>3 DEF Coming

(* A visit that is closed will not be closed again. *)
LEMMA ClosedOnce ==
    ASSUME Full, NEW f, Read(f), NEW c \in DOMAIN visits, visits[c].observed,
           c \notin DOMAIN visits', NEW m, m = visits[c].entry
    PROVE  ~Coming(c, m)'
<1>1. \A i \in 1..Len(queue') : i + 1 \in 1..Len(queue) /\ queue'[i] = queue[i + 1]
  BY DEF Read
<1>2. \A i \in 1..Len(queue) : EntryUpdate(queue[i], c) => queue[i].at # m
  BY DEF Full, Once
<1>. QED BY <1>1, <1>2 DEF Coming

LEMMA OnceRead == ASSUME Full, NEW f, Read(f) PROVE Once'
<1>1. f = queue[1] /\ 1 \in 1..Len(queue) /\ now \in Nat \ {0} /\ FrameOK(f) /\ Len(queue) \in Nat
      /\ \A i \in 1..Len(queue') : i + 1 \in 1..Len(queue) /\ queue'[i] = queue[i + 1]
  BY DEF Read, Full, Inv, Base
<1>2. ASSUME NEW c \in Cars, NEW i \in 1..Len(queue'), NEW j \in 1..Len(queue'),
             EntryUpdate(queue'[i], c), EntryUpdate(queue'[j], c),
             queue'[i].at = queue'[j].at
      PROVE  i = j
  <2>1. i + 1 = j + 1
    BY <1>1, <1>2 DEF Full, Once
  <2>. QED BY <2>1
<1>3. ASSUME NEW c \in DOMAIN visits', visits'[c].observed, NEW i \in 1..Len(queue'),
             EntryUpdate(queue'[i], c)
      PROVE  queue'[i].at # visits'[c].entry
  <2>0. i + 1 \in 1..Len(queue) /\ queue'[i] = queue[i + 1] /\ i + 1 # 1
    BY <1>1
  <2>1. CASE c \in DOMAIN visits /\ visits'[c] = visits[c]
    BY <1>3, <2>0, <2>1 DEF Full, Once
  <2>2. CASE /\ Says(f, c, TRUE)
             /\ visits'[c].entry = f.at
             /\ visits'[c].observed <=> ~f.initial
    <3>1. ~f.initial /\ Says(f, c, TRUE)
      BY <1>3, <2>2
    <3>2. visits'[c].entry = queue[1].at /\ EntryUpdate(queue[1], c)
      BY <1>1, <2>2, <3>1 DEF EntryUpdate
    <3>3. c \in Cars
      BY <1>1, <3>2, EntriesOfCars
    <3>4. queue[1].at # queue[i + 1].at
      BY <1>1, <1>3, <2>0, <3>2, <3>3 DEF Full, Once
    <3>. QED BY <2>0, <3>2, <3>4
  <2>. QED BY <2>1, <2>2, TrackersRead
<1>4. ASSUME NEW s \in stops' PROVE ~Coming(s.car, s.entry)'
  <2>1. PICK c, m : c = s.car /\ m = s.entry
    OBVIOUS
  <2>2. CASE s \in stops
    <3>1. ~Coming(c, m)
      BY <2>1, <2>2 DEF Full, Once
    <3>2. ~Coming(c, m)'
      BY <3>1, ComingRead
    <3>. QED BY <2>1, <3>2
  <2>3. CASE s \notin stops
    <3>1. PICK d \in DOMAIN visits :
            /\ visits[d].observed /\ s.car = d /\ s.entry = visits[d].entry
            /\ d \notin DOMAIN visits'
      BY <2>3, TrackersRead
    <3>2. c \in DOMAIN visits /\ visits[c].observed /\ c \notin DOMAIN visits'
          /\ m = visits[c].entry
      BY <2>1, <3>1
    <3>3. ~Coming(c, m)'
      BY <3>2, ClosedOnce
    <3>. QED BY <2>1, <3>3
  <2>. QED BY <2>2, <2>3
<1>. QED BY <1>2, <1>3, <1>4 DEF Once

LEMMA PositionsRead == ASSUME Full, NEW f, Read(f) PROVE Positions' /\ PlacesOK'
<1>1. /\ f = queue[1] /\ 1 \in 1..Len(queue) /\ Len(queue) \in Nat /\ PlaceOK(f)
      /\ queue # <<>> /\ Len(queue') = Len(queue) - 1
      /\ \A i \in 1..Len(queue') : i + 1 \in 1..Len(queue) /\ queue'[i] = queue[i + 1]
      /\ view' = apply(view, f) /\ UNCHANGED <<connected, firstSeen>>
  BY DEF Read
<1>2. PlacesOK'
  BY <1>1 DEF Full, PlacesOK
<1>3. /\ view' = [t \in DOMAIN view' |-> view'[t]]
      /\ DOMAIN view' = DOMAIN view \cup {f.topic}
      /\ \A t \in DOMAIN view : t # f.topic => view'[t] = view[t]
  BY <1>1 DEF apply
<1>. DEFINE place == f.payload.place
            T == "TimingData"
<1>4. /\ DOMAIN NoFunction = {}
      /\ current = IF T \in DOMAIN view THEN view[T].place ELSE NoFunction
  BY NothingSaid DEF Full, Positions
<1>5. ASSUME f.topic = T, Told(f, view') PROVE Positions'
  <2>1. baseline' = Merge(place, baseline) /\ current' = Merge(current, place)
    BY <1>5 DEF Read, ObservePositions
  <2>2. /\ place = [c \in DOMAIN place |-> place[c]] /\ DOMAIN place \subseteq Cars
        /\ f.initial => DOMAIN place = Cars
    BY <1>1, <1>5 DEF PlaceOK
  <2>3. f.initial \/ T \notin DOMAIN view => view'[T] = f.payload
    BY <1>1, <1>5 DEF apply
  <2>4. ~f.initial /\ T \in DOMAIN view => view'[T].place = Merge(view[T].place, place)
    <3>1. ~f.initial /\ T \in DOMAIN view => view'[T] = merge_delta(T, view[T], f.payload)
      BY <1>1, <1>5 DEF apply
    <3>2. merge_delta(T, view[T], f.payload).place = Merge(view[T].place, place)
      BY DEF merge_delta
    <3>. QED BY <3>1, <3>2
  <2>5. T \in DOMAIN view'
    BY <1>3, <1>5
  <2>6. CASE /\ T \in DOMAIN view
             /\ baseline \in [Cars -> Int] /\ firstSeen = baseline /\ DOMAIN current = Cars
    <3>0. current = view[T].place
      BY <1>4, <2>6
    <3>. HIDE DEF place, T
    <3>1. baseline' = baseline
      BY <2>1, <2>2, <2>6 DEF Merge
    <3>2. DOMAIN current' = Cars
      BY <2>1, <2>2, <2>6 DEF Merge
    <3>3. f.initial => current' = place
      BY <2>1, <2>2, <2>6 DEF Merge
    <3>4. current' = view'[T].place
      BY <2>1, <2>3, <2>4, <2>6, <3>0, <3>3 DEF place
    <3>. QED BY <1>1, <1>3, <2>5, <2>6, <3>1, <3>2, <3>4 DEF Positions, T
  <2>7. CASE /\ T \notin DOMAIN view /\ baseline = NoFunction
             /\ firstSeen \in [Cars -> Int]
             /\ \E k \in 1..Len(queue) :
                  /\ queue[k].topic = "TimingData"
                  /\ \A j \in 1..k : queue[j].topic = "TimingData" =>
                                     queue[j].initial /\ queue[j].payload.place = firstSeen
    <3>1. f.initial /\ place = firstSeen
      BY <1>1, <1>5, <2>7
    <3>2. current' = place /\ baseline' = place
      <4>. HIDE DEF place, T
      <4>. QED BY <1>4, <2>1, <2>2, <2>7 DEF Merge
    <3>3. current' = view'[T].place
      BY <2>3, <3>1, <3>2
    <3>4. DOMAIN current' = Cars
      BY <2>2, <3>1, <3>2
    <3>. QED BY <1>1, <1>3, <2>5, <2>7, <3>1, <3>2, <3>3, <3>4 DEF Positions
  <2>. QED BY <1>1, <2>6, <2>7 DEF Full, Positions
<1>6. ASSUME ~Told(f, view'), view' = view \/ f.topic # T PROVE Positions'
  <2>1. UNCHANGED <<baseline, current>>
    BY <1>6 DEF Read, Told
  <2>2. (T \in DOMAIN view' <=> T \in DOMAIN view) /\ (T \in DOMAIN view => view'[T] = view[T])
    BY <1>3, <1>6
  <2>3. CASE T \in DOMAIN view
    BY <1>1, <1>3, <1>4, <2>1, <2>2, <2>3 DEF Full, Positions
  <2>4. CASE T \notin DOMAIN view
    <3>1. PICK k \in 1..Len(queue) :
            /\ queue[k].topic = "TimingData"
            /\ \A j \in 1..k : queue[j].topic = "TimingData" =>
                               queue[j].initial /\ queue[j].payload.place = firstSeen
      BY <1>1, <2>4 DEF Full, Positions
    <3>2. f.topic # T
      <4>1. view' = view => f.topic \in DOMAIN view
        BY <1>3
      <4>. QED BY <1>6, <2>4, <4>1
    <3>3. PICK l : l = k - 1
      OBVIOUS
    <3>4. l \in 1..Len(queue') /\ l + 1 = k
      BY <1>1, <3>1, <3>2, <3>3
    <3>5. \A j \in 1..l : j \in 1..Len(queue') /\ j + 1 \in 1..k
      BY <1>1, <3>4
    <3>6. /\ queue'[l].topic = "TimingData"
          /\ \A j \in 1..l : queue'[j].topic = "TimingData" =>
                             queue'[j].initial /\ queue'[j].payload.place = firstSeen'
      <4>1. firstSeen' = firstSeen /\ queue'[l] = queue[k]
        BY <1>1, <3>4
      <4>2. ASSUME NEW j \in 1..l, queue'[j].topic = "TimingData"
            PROVE  queue'[j].initial /\ queue'[j].payload.place = firstSeen
        <5>1. PICK i : i = j + 1 /\ i \in 1..k /\ queue'[j] = queue[i]
          BY <1>1, <3>5
        <5>. QED BY <3>1, <4>2, <5>1
      <4>. QED BY <3>1, <4>1, <4>2
    <3>7. baseline = NoFunction /\ firstSeen \in [Cars -> Int]
      BY <1>1, <2>4 DEF Full, Positions
    <3>. QED BY <1>1, <1>3, <1>4, <2>1, <2>2, <2>4, <3>4, <3>6, <3>7 DEF Positions
  <2>. QED BY <2>3, <2>4
<1>. QED BY <1>2, <1>5, <1>6 DEF Read

--------------------------------------------------------------------------------
(* The visits that were seen, once it is read *)

LEMMA SettledRead ==
    ASSUME Full, NEW f, Read(f), NEW v \in completed, Settled(v)
    PROVE  Settled(v)'
<1>1. PICK c, m : c = v.car /\ m = v.from
  OBVIOUS
<1>2. ~Coming(c, m) /\ (Racing(v) <=> Record(v) \in stops)
  BY <1>1 DEF Settled
<1>3. ~Coming(c, m)'
  BY <1>2, ComingRead
<1>4. Record(v) \in stops' => Record(v) \in stops
  <2>. SUFFICES ASSUME Record(v) \in stops' \ stops PROVE FALSE
    OBVIOUS
  <2>1. PICK d \in DOMAIN visits :
          visits[d].observed /\ Record(v).car = d /\ Record(v).entry = visits[d].entry
    BY TrackersRead
  <2>2. d = c /\ visits[d].entry = m
    BY <1>1, <2>1 DEF Record
  <2>. QED BY <1>2, <2>1, <2>2 DEF Coming
<1>5. stops \subseteq stops'
  BY TrackersRead
<1>6. (Racing(v) <=> Record(v) \in stops)'
  BY <1>2, <1>4, <1>5 DEF Racing, Record
<1>. QED BY <1>1, <1>3, <1>6 DEF Settled

(* An exit that is read settles the visit it ends. *)
LEMMA ExitSettles ==
    ASSUME Full, NEW f, Read(f), NEW g, g[1] = view', g[0] = view,
           NEW v \in completed, Reports(g, 1, v.car, FALSE, v.to, v.after),
           Begun(g, 1, v.car, v.from, v.before)
    PROVE  Settled(v)'
<1>1. PICK c, m, t, s : c = v.car /\ m = v.from /\ t = v.to /\ s = v.after
  OBVIOUS
<1>2. /\ ObservePits(f, s) /\ f.topic = "TimingData" /\ FrameOK(f)
      /\ Moment(f) = t /\ Says(f, c, FALSE)
  <2>1. Reports(g, 1, c, FALSE, t, s)
    BY <1>1
  <2>. QED BY <2>1, FirstReport
<1>3. /\ c \in DOMAIN visits
      /\ visits[c] = Timed(m, v.before)
  <2>1. \A i \in 1..Len(queue) : ~(i < 1)
    BY DEF Read
  <2>. QED BY <1>1, <2>1 DEF Begun
<1>4. visits[c].startedAt = m /\ visits[c].status = v.before /\ visits[c].observed
      /\ visits[c].entry = m /\ visits[c].stamped = TRUE
  BY <1>3 DEF Timed
<1>5. c \in Exited(f) /\ c \notin Entered(f)
  BY <1>2 DEF Says, Exited, Entered, FrameOK
<1>6. c \notin DOMAIN visits'
  <2>1. DOMAIN visits' = (DOMAIN visits \ Exited(f)) \cup Entered(f)
    BY <1>2, VisitsAfter
  <2>. QED BY <1>5, <2>1
<1>7. ~Coming(c, m)'
  BY <1>3, <1>4, <1>6, ClosedOnce
<1>8. /\ stops \subseteq stops'
      /\ \A r \in stops' \ stops : \E d \in Exited(f) \cap DOMAIN visits :
           Counts(d, t, s) /\ r = StopAt(d, t)
      /\ Counts(c, t, s) => StopAt(c, t) \in stops'
  <2>1. t = Moment(f)
    BY <1>2
  <2>2. /\ stops \subseteq stops'
        /\ \A r \in stops' \ stops : \E d \in Exited(f) \cap DOMAIN visits :
             Counts(d, t, s) /\ r = StopAt(d, t)
        /\ \A d \in Exited(f) \cap DOMAIN visits : Counts(d, t, s) => StopAt(d, t) \in stops'
    BY <1>2, <2>1, StopsAfter
  <2>. QED BY <1>3, <1>5, <2>2
<1>9. StopAt(c, t) = Record(v)
  BY <1>1, <1>4 DEF StopAt, Record
<1>10. Counts(c, t, s) <=> Racing(v)
  <2>1. s # ""
    BY <1>1 DEF Full, Times
  <2>2. m \in Nat /\ t \in Nat
    BY <1>1 DEF Full, Inv, Base, HistoryOK
  <2>3. Limit \in Nat
    BY SizesAssumption
  <2>4. (t - m > 0 <=> t > m) /\ (t - m < Limit <=> t - m < Limit)
    BY <2>2, <2>3
  <2>. QED BY <1>1, <1>4, <2>1, <2>4 DEF Counts, Racing
<1>11. Record(v) \notin stops
  <2>. SUFFICES ASSUME Record(v) \in stops PROVE FALSE
    OBVIOUS
  <2>1. PICK r : r = Record(v)
    OBVIOUS
  <2>2. r.car = c /\ r.entry = m
    BY <1>1, <2>1 DEF Record
  <2>3. ~Coming(c, m)
    BY <2>1, <2>2 DEF Full, Once
  <2>. QED BY <1>3, <1>4, <2>3 DEF Coming
<1>12. Record(v) \in stops' => Racing(v)
  <2>. SUFFICES ASSUME Record(v) \in stops' PROVE Racing(v)
    OBVIOUS
  <2>1. PICK d : Counts(d, t, s) /\ Record(v) = StopAt(d, t)
    BY <1>8, <1>11
  <2>2. d = c
    BY <1>1, <2>1 DEF Record, StopAt
  <2>. QED BY <1>10, <2>1, <2>2
<1>13. (Racing(v) <=> Record(v) \in stops)'
  BY <1>8, <1>9, <1>10, <1>12 DEF Racing, Record
<1>. QED BY <1>1, <1>7, <1>13 DEF Settled

LEMMA PendingRead ==
    ASSUME Full, NEW f, Read(f), NEW g, NEW h, Shifted(g, h), g[1] = view', g[0] = view,
           NEW v \in completed, Pending(g, v)
    PROVE  Pending(h, v)' \/ Settled(v)'
<1>1. PICK k \in 1..Len(queue) :
        /\ Reports(g, k, v.car, FALSE, v.to, v.after)
        /\ Begun(g, k, v.car, v.from, v.before)
  BY DEF Pending
<1>2. CASE k = 1
  BY <1>1, <1>2, ExitSettles
<1>3. CASE k # 1
  <2>1. PICK l : l = k - 1
    OBVIOUS
  <2>2. l \in 1..Len(queue') /\ Reports(h, l, v.car, FALSE, v.to, v.after)'
    BY <1>1, <1>3, <2>1, ReportsShift
  <2>3. k \in 1..(Len(queue) + 1)
    BY DEF Read
  <2>4. Begun(h, l, v.car, v.from, v.before)'
    BY <1>1, <1>3, <2>1, <2>3, BegunShift
  <2>. QED BY <2>2, <2>4 DEF Pending
<1>. QED BY <1>2, <1>3

LEMMA HandleFull == ASSUME Full, Inv', Handle PROVE Full'
<1>1. PICK f : Read(f)
  BY FrameRead
<1>2. PICK g : Path(g) /\ EndsCurrent(g) /\ InsideSeen(g) /\ CompletedSeen(g)
  BY DEF Full, Following
<1>3. g[1] = view' /\ g[0] = view
  BY <1>1, <1>2, ViewsShift
<1>4. PICK h : Shifted(g, h) /\ Path(h)' /\ EndsCurrent(h)'
  BY <1>1, <1>2, ViewsShift
<1>5. UNCHANGED <<now, world, inside, completed, whole>>
  BY <1>1 DEF Read
<1>6. Times' /\ Standings'
  BY <1>5 DEF Full, Times, Standings
<1>7. InsideSeen(h)'
  <2>. SUFFICES ASSUME NEW c \in DOMAIN inside', inside'[c].seen
                PROVE  (whole /\ Begun(h, Len(queue) + 1, c, inside[c].from, inside[c].status))'
    BY DEF InsideSeen
  <2>0. c \in DOMAIN inside /\ inside[c].seen
    BY <1>5
  <2>1. PICK k, m, s : k = Len(queue) + 1 /\ m = inside[c].from /\ s = inside[c].status
    OBVIOUS
  <2>2. whole /\ Begun(g, k, c, m, s)
    BY <1>2, <2>0, <2>1 DEF InsideSeen
  <2>3. k \in 1..(Len(queue) + 1) /\ k # 1 /\ k - 1 = Len(queue') + 1
    BY <1>1, <2>1 DEF Read
  <2>4. PICK l : l = k - 1
    OBVIOUS
  <2>5. Begun(h, l, c, m, s)'
    BY <1>1, <1>3, <1>4, <2>2, <2>3, <2>4, BegunShift
  <2>. QED BY <1>5, <2>1, <2>2, <2>3, <2>4, <2>5
<1>8. CompletedSeen(h)'
  <2>. SUFFICES ASSUME NEW v \in completed, v.seen PROVE Pending(h, v)' \/ Settled(v)'
    BY <1>5 DEF CompletedSeen
  <2>1. Pending(g, v) \/ Settled(v)
    BY <1>2 DEF CompletedSeen
  <2>. QED BY <1>1, <1>3, <1>4, <2>1, PendingRead, SettledRead
<1>9. Once' /\ Positions' /\ PlacesOK'
  BY <1>1, OnceRead, PositionsRead
<1>10. Following(h)'
  BY <1>4, <1>7, <1>8 DEF Following
<1>. QED BY <1>6, <1>9, <1>10 DEF Full

--------------------------------------------------------------------------------
(* The theorems *)

(* What the queue still brings ends at the session: the invariant is inductive. *)
THEOREM Followed == Spec => []Full
<1>1. Init => Full
  BY StartsFull
<1>2. Inv /\ [Next]_vars => Inv'
  BY NextKeeps
<1>3. Full /\ [Next]_vars => Full'
  <2>. SUFFICES ASSUME Full, [Next]_vars PROVE Full'
    OBVIOUS
  <2>1. Inv'
    BY <1>2 DEF Full
  <2>2. CASE SessionEvent
    BY <2>1, <2>2, EnterPitFull, LeavePitFull, LapFull, OvertakeFull, StatusFull, MessageFull
       DEF SessionEvent
  <2>3. CASE Tick
    BY <2>1, <2>3, TickFull
  <2>4. CASE \E order \in SnapshotOrders : Connect(order)
    BY <2>1, <2>4, ConnectFull
  <2>5. CASE Disconnect
    BY <2>1, <2>5, DisconnectFull
  <2>6. CASE Handle
    BY <2>1, <2>6, HandleFull
  <2>7. CASE UNCHANGED vars
    BY <2>1, <2>7, StutterFull
  <2>. QED BY <2>2, <2>3, <2>4, <2>5, <2>6, <2>7 DEF Next
<1>. QED BY <1>1, <1>3, PTL DEF Spec

(* Once the queue is read, exactly the racing stops of the visits whose      *)
(* updates all arrived are recorded (live/pit_stops.py), for any cars,       *)
(* queue, limit and snapshot orders.                                         *)
THEOREM StopsAreExact == Spec => []StopsExact
<1>1. Full => StopsExact
  <2>. SUFFICES ASSUME Full, queue = <<>>, NEW v \in completed, v.seen
                PROVE  Racing(v) <=> Record(v) \in stops
    BY DEF StopsExact, Record
  <2>1. PICK g : CompletedSeen(g)
    BY DEF Full, Following
  <2>2. ~Pending(g, v)
    <3>1. Len(queue) = 0
      OBVIOUS
    <3>. QED BY <3>1 DEF Pending
  <2>3. Settled(v)
    BY <2>1, <2>2 DEF CompletedSeen
  <2>. QED BY <2>3 DEF Settled
<1>. QED BY <1>1, Followed, PTL

--------------------------------------------------------------------------------
(* The board of a view that shows the session *)

LEMMA RowsByPlace ==
    ASSUME Standings, WorldOK, NEW v, Shows(v)
    PROVE  /\ Rows(v) \in SetToSeqs(Cars)
           /\ \A i, j \in DOMAIN Rows(v) : i < j => world.place[Rows(v)[i]] < world.place[Rows(v)[j]]
<1>. DEFINE N == Cardinality(Cars)
            place == world.place
            Before(a, b) == /\ a \in DOMAIN place
                            /\ b \in DOMAIN place => place[a] < place[b]
            Sorted(rows) == \A i, j \in DOMAIN rows : i < j => ~Before(rows[j], rows[i])
<1>1. /\ place \in [Cars -> 1..N] /\ DOMAIN world.pit = Cars
      /\ \A a, b \in Cars : place[a] = place[b] => a = b
      /\ \A i \in 1..N : \E c \in Cars : place[c] = i
  BY WorldParts DEF Standings
<1>2. Rows(v) = CHOOSE rows \in SetToSeqs(DOMAIN world.pit \cup DOMAIN place) : Sorted(rows)
  BY DEF Rows, Shows
<1>3. DOMAIN world.pit \cup DOMAIN place = Cars
  BY <1>1
<1>4. \A rows : rows \in SetToSeqs(Cars) <=>
        rows \in [1..N -> Cars] /\ \A i, j \in 1..N : i # j => rows[i] # rows[j]
  BY DEF SetToSeqs
<1>5. N \in Nat
  BY CarsAssumption, FS_CardinalityType
<1>. HIDE DEF N, place
<1>6. \E rows \in SetToSeqs(Cars) : Sorted(rows)
  <2>. DEFINE r == [i \in 1..N |-> CHOOSE c \in Cars : place[c] = i]
  <2>1. \A i \in 1..N : r[i] \in Cars /\ place[r[i]] = i
    BY <1>1
  <2>2. r \in [1..N -> Cars] /\ DOMAIN r = 1..N
    BY <2>1
  <2>. HIDE DEF r
  <2>3. \A i, j \in 1..N : i # j => r[i] # r[j]
    BY <2>1
  <2>4. r \in SetToSeqs(Cars)
    BY <1>4, <2>2, <2>3
  <2>5. Sorted(r)
    BY <1>1, <1>5, <2>1, <2>2
  <2>. QED BY <2>4, <2>5
<1>. HIDE DEF Sorted
<1>7. Rows(v) \in SetToSeqs(Cars) /\ Sorted(Rows(v))
  BY <1>2, <1>3, <1>6
<1>8. \A i, j \in DOMAIN Rows(v) : i < j => place[Rows(v)[i]] < place[Rows(v)[j]]
  <2>. SUFFICES ASSUME NEW i \in DOMAIN Rows(v), NEW j \in DOMAIN Rows(v), i < j
                PROVE  place[Rows(v)[i]] < place[Rows(v)[j]]
    OBVIOUS
  <2>1. /\ Rows(v)[i] \in Cars /\ Rows(v)[j] \in Cars /\ i \in 1..N /\ j \in 1..N
        /\ i # j => Rows(v)[i] # Rows(v)[j]
    BY <1>4, <1>7
  <2>2. PICK a, b : a = Rows(v)[i] /\ b = Rows(v)[j]
    OBVIOUS
  <2>3. a # b /\ a \in Cars /\ b \in Cars
    BY <1>5, <2>1, <2>2
  <2>4. ~Before(b, a)
    BY <1>7, <2>2 DEF Sorted
  <2>5. place[a] \in 1..N /\ place[b] \in 1..N /\ place[a] # place[b] /\ ~(place[b] < place[a])
    BY <1>1, <2>3, <2>4
  <2>. QED BY <1>5, <2>2, <2>5
<1>. QED BY <1>7, <1>8 DEF place

LEMMA FastestByTime ==
    ASSUME Standings, NEW v, Shows(v)
    PROVE  fastest_lap(v) = IF DOMAIN world.time = {} THEN NoCar
                            ELSE CHOOSE c \in DOMAIN world.time :
                                   \A d \in DOMAIN world.time : world.time[c] <= world.time[d]
<1>. DEFINE time == world.time
            T == DOMAIN time
            rank == RankOf(time)
            marked == {c \in T : c \in DOMAIN rank /\ rank[c] = 1}
<1>1. CASE T = {}
  BY <1>1 DEF fastest_lap, Shows
<1>2. CASE T # {}
  <2>1. PICK b \in T : \A d \in T \ {b} : time[b] < time[d]
    BY <1>2 DEF Standings
  <2>2. IsFiniteSet(Cars) /\ T \subseteq Cars /\ \A c \in T : time[c] \in Int
    BY CarsAssumption DEF Standings
  <2>3. fastest_lap(v) = CASE Cardinality(marked) = 1 -> CHOOSE c \in marked : TRUE
                            [] Cardinality(marked) # 1 /\ T # {} ->
                                 CHOOSE c \in T : \A d \in T : time[c] <= time[d]
                            [] OTHER -> NoCar
    BY <1>2 DEF fastest_lap, Shows
  <2>4. DOMAIN rank = T
        /\ \A c \in T : rank[c] = Cardinality({d \in T : time[d] < time[c]}) + 1
    BY DEF RankOf
  <2>. HIDE DEF rank, time, T
  <2>5. rank[b] = 1
    <3>1. {d \in T : time[d] < time[b]} = {}
      BY <2>1, <2>2
    <3>. QED BY <2>1, <2>4, <3>1, FS_EmptySet
  <2>6. ASSUME NEW c \in T, c # b PROVE rank[c] # 1
    <3>. DEFINE Faster == {d \in T : time[d] < time[c]}
    <3>1. b \in Faster
      BY <2>1, <2>6
    <3>2. Faster \in SUBSET Cars
      BY <2>2
    <3>. HIDE DEF Faster
    <3>3. IsFiniteSet(Faster)
      BY <2>2, <3>2, FS_Subset
    <3>4. Cardinality(Faster) \in Nat /\ Cardinality(Faster) # 0
      BY <3>1, <3>3, FS_EmptySet, FS_CardinalityType
    <3>5. rank[c] = Cardinality(Faster) + 1
      BY <2>4 DEF Faster
    <3>. QED BY <3>4, <3>5
  <2>7. marked = {b}
    BY <2>1, <2>4, <2>5, <2>6
  <2>8. Cardinality(marked) = 1 /\ (CHOOSE c \in marked : TRUE) = b
    BY <2>7, FS_Singleton
  <2>9. fastest_lap(v) = b
    BY <2>3, <2>8
  <2>10. (CHOOSE c \in T : \A d \in T : time[c] <= time[d]) = b
    <3>1. \A d \in T : time[b] <= time[d]
      BY <2>1, <2>2
    <3>2. \A c \in T : (\A d \in T : time[c] <= time[d]) => c = b
      BY <2>1, <2>2
    <3>. QED BY <2>1, <3>1, <3>2
  <2>. QED BY <1>2, <2>9, <2>10 DEF time, T
<1>. QED BY <1>1, <1>2

(* A board that has caught up shows the session as it is, and counts the     *)
(* places gained from the first snapshot of all (live/board.py,              *)
(* live/positions.py), whatever outages came before.                         *)
THEOREM BoardIsCurrent == Spec => []BoardCurrent
<1>1. Full => BoardCurrent
  <2>. SUFFICES ASSUME Full, CaughtUp PROVE BoardCurrent
    BY DEF BoardCurrent
  <2>1. Standings /\ Positions /\ WorldOK
    BY DEF Full, Inv, Base
  <2>2. Shows(view)
    <3>1. Len(queue) = 0
      BY DEF CaughtUp
    <3>. QED BY <3>1 DEF Full, Following, Path, EndsCurrent, CaughtUp
  <2>3. /\ Rows(view) \in SetToSeqs(Cars)
        /\ \A i, j \in DOMAIN Rows(view) :
             i < j => world.place[Rows(view)[i]] < world.place[Rows(view)[j]]
    BY <2>1, <2>2, RowsByPlace
  <2>4. RowsInPit(view) = {c \in Cars : world.pit[c]} /\ session_status(view) = world.status
    <3>1. DOMAIN world.pit = Cars
      BY <2>1, WorldParts
    <3>. QED BY <2>2, <3>1 DEF RowsInPit, session_status, Shows
  <2>5. fastest_lap(view) = IF DOMAIN world.time = {} THEN NoCar
                            ELSE CHOOSE c \in DOMAIN world.time :
                                   \A d \in DOMAIN world.time : world.time[c] <= world.time[d]
    BY <2>1, <2>2, FastestByTime
  <2>6. ASSUME NEW c \in Cars PROVE Gained(c) = firstSeen[c] - world.place[c]
    <3>1. baseline = firstSeen /\ current = world.place
      BY <2>1, <2>2 DEF Positions, Shows
    <3>. QED BY <3>1 DEF Gained
  <2>. QED BY <2>3, <2>4, <2>5, <2>6 DEF BoardCurrent
<1>. QED BY <1>1, Followed, PTL
================================================================================
