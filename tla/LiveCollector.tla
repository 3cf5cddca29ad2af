---------------------------- MODULE LiveCollector ----------------------------
(***************************************************************************)
(* One live session (backend/app/live: signalr_feed, collector,            *)
(* current_view, session_log, and the websocket handler in api): the feed  *)
(* of one connection, the collector that merges its frames into the view,  *)
(* records them and announces them, and the clients that draw the view.    *)
(*                                                                         *)
(* Everything but the upstream runs on one event loop, so what happens     *)
(* between two awaits is one action.  A message reaches the feed's queue   *)
(* through call_soon_threadsafe, in order; the model lets the upstream     *)
(* change at the moment the loop runs that callback.                       *)
(*                                                                         *)
(* A topic's payload is a function from (leaf) fields to values.  The feed *)
(* names its session in the field "Name" of SessionInfo.  A log line is as *)
(* long as its payload has fields.                                         *)
(***************************************************************************)
EXTENDS Naturals, Sequences, FiniteSets, SequencesExt

CONSTANTS
    Session,        \* names of sessions, in the order the upstream has them
    Field,          \* leaf fields of TimingData
    Value,          \* their values
    Client,         \* websocket clients
    Nil,            \* no name yet
    QueueSize,      \* QUEUE_SIZE of the feed
    MaxPending,     \* MAX_PENDING_FRAMES
    MaxBacklog,     \* max_queue of a subscriber
    MaxLogBytes,    \* max_log_bytes, in fields
    MaxChanges,     \* bound: changes upstream
    MaxCloses,      \* bound: connections that fail or end
    MaxStarts,      \* bound: sessions started
    MaxCrashes,     \* bound: host crashes
    MaxLogErrors    \* bound: errors of the file system

Topic == {"SessionInfo", "TimingData"}

ASSUME CollectorAssumption ==
    /\ Session \subseteq Nat /\ IsFiniteSet(Session) /\ Session # {}
    /\ Field # {} /\ "Name" \notin Field
    /\ Nil \notin Session
    /\ QueueSize \in Nat /\ QueueSize >= Cardinality(Topic)
    /\ MaxPending \in Nat
    /\ MaxBacklog \in Nat \ {0}
    /\ MaxLogBytes \in Nat \ {0}
    /\ {MaxChanges, MaxCloses, MaxStarts, MaxCrashes, MaxLogErrors} \subseteq Nat

VARIABLES
    feed,           \* topic -> what the upstream would send in full
    connection,     \* "none", "open" (subscribed) or "closed" by the upstream
    queue,          \* the feed object's queue
    lost,           \* that queue has dropped an item
    pc,             \* where run() is
    stopping,       \* stop was requested
    view,           \* topic -> merged payload
    identity,       \* the session the collector has named itself after
    logging,        \* the directory had room when the session was started
    pending,        \* accepted frames that wait for the name
    opened,         \* the log is open
    dropped,        \* the collector counted a frame that is not in the log
    files,          \* session -> lines of its log
    at,             \* client -> where its handler is
    backlog,        \* client -> updates in its queue
    shown,          \* client -> view of the last board it was sent
    changes, closes, starts, crashes, logErrors   \* counted against the bounds

upstream == <<feed, connection, queue, lost>>
recording == <<logging, pending, opened, dropped, files>>
clients == <<at, backlog, shown>>
counters == <<changes, closes, starts, crashes, logErrors>>
vars == <<feed, connection, queue, lost, pc, stopping, view, identity,
          logging, pending, opened, dropped, files,
          at, backlog, shown, changes, closes, starts, crashes, logErrors>>

Payload == UNION {[F -> Session \cup Value] : F \in SUBSET (Field \cup {"Name"})}

Frame == [topic: Topic, initial: BOOLEAN, payload: Payload]

Empty == [k \in {} |-> Nil]

(* The sentinel that ends a stream, and a log line that a crash has cut. *)
Closed == [topic |-> "closed", initial |-> FALSE, payload |-> Empty]
Torn == [topic |-> "torn", initial |-> FALSE, payload |-> Empty]

NoView == [t \in Topic |-> Empty]

TypeOK ==
    /\ feed \in [Topic -> Payload]
    /\ connection \in {"none", "open", "closed"}
    /\ queue \in Seq(Frame \cup {Closed})
    /\ lost \in BOOLEAN
    /\ pc \in {"stopped", "connecting", "streaming", "closing", "waiting"}
    /\ stopping \in BOOLEAN
    /\ view \in [Topic -> Payload]
    /\ identity \in Session \cup {Nil}
    /\ pending \in Seq(Frame)
    /\ {logging, opened, dropped} \subseteq BOOLEAN
    /\ files \in [Session -> Seq(Frame \cup {Torn})]
    /\ at \in [Client -> {"away", "waiting", "sending"}]
    /\ backlog \in [Client -> 0..MaxBacklog]
    /\ shown \in [Client -> [Topic -> Payload]]
    /\ {changes, closes, starts, crashes, logErrors} \subseteq Nat

(* What the upstream knows of session n when its first car is timed. *)
Beginning(n, f, v) ==
    [t \in Topic |-> IF t = "SessionInfo" THEN [k \in {"Name"} |-> n]
                     ELSE [k \in {f} |-> v]]

Init ==
    /\ \E n \in Session, f \in Field, v \in Value :
        /\ \A m \in Session : n <= m
        /\ feed = Beginning(n, f, v)
    /\ connection = "none" /\ queue = <<>> /\ lost = FALSE
    /\ pc = "stopped" /\ stopping = FALSE
    /\ view = NoView /\ identity = Nil
    /\ logging = FALSE /\ pending = <<>> /\ opened = FALSE
    /\ dropped = FALSE
    /\ files = [n \in Session |-> <<>>]
    /\ at = [c \in Client |-> "away"]
    /\ backlog = [c \in Client |-> 0]
    /\ shown = [c \in Client |-> NoView]
    /\ changes = 0 /\ closes = 0 /\ starts = 0 /\ crashes = 0 /\ logErrors = 0

-----------------------------------------------------------------------------
(* Merging. *)

(* merge_delta: every field of the patch replaces the target's. *)
Merge(target, patch) ==
    [k \in DOMAIN target \cup DOMAIN patch |->
        IF k \in DOMAIN patch THEN patch[k] ELSE target[k]]

(* Mutant: a full state is merged like a delta. *)
AppliedAsDelta(v, frame) ==
    [v EXCEPT ![frame.topic] = Merge(@, frame.payload)]

(* LiveCurrentView.apply.  A delta that comes first seeds the topic, which *)
(* is what merging it into nothing does.                                   *)
Applied(v, frame) ==
    [v EXCEPT ![frame.topic] =
        IF frame.initial THEN frame.payload ELSE Merge(@, frame.payload)]

(* LiveCurrentView.apply_all. *)
AppliedAll(v, frames) ==
    LET after[i \in 0..Len(frames)] ==
            IF i = 0 THEN v ELSE Applied(after[i - 1], frames[i])
    IN  after[Len(frames)]

-----------------------------------------------------------------------------
(* The upstream, and the queue of one connection. *)

(* SignalRFeed._offer. *)
Offer(item) ==
    IF Len(queue) < QueueSize
    THEN queue' = Append(queue, item) /\ UNCHANGED lost
    ELSE lost' = TRUE /\ UNCHANGED queue

Change(f, v) ==
    /\ changes < MaxChanges
    /\ f \in DOMAIN feed["TimingData"] => feed["TimingData"][f] # v
    /\ changes' = changes + 1
    /\ LET delta == [topic |-> "TimingData", initial |-> FALSE,
                     payload |-> [k \in {f} |-> v]]
       IN  /\ feed' = Applied(feed, delta)
           /\ IF connection = "open" THEN Offer(delta)
              ELSE UNCHANGED <<queue, lost>>
    /\ UNCHANGED <<connection, pc, stopping, view, identity, recording,
                   clients, closes, starts, crashes, logErrors>>

(* The next session begins while nobody is subscribed. *)
NewSession(n, f, v) ==
    /\ changes < MaxChanges
    /\ connection # "open"
    /\ n > feed["SessionInfo"]["Name"]
    /\ changes' = changes + 1
    /\ feed' = Beginning(n, f, v)
    /\ UNCHANGED <<connection, queue, lost, pc, stopping, view, identity,
                   recording, clients, closes, starts, crashes, logErrors>>

(* on_close: the sentinel takes the same way as a frame. *)
ConnectionCloses ==
    /\ closes < MaxCloses
    /\ connection = "open"
    /\ closes' = closes + 1
    /\ connection' = "closed"
    /\ Offer(Closed)
    /\ UNCHANGED <<feed, pc, stopping, view, identity, recording, clients,
                   changes, starts, crashes, logErrors>>

(* _start_blocking succeeds, and the completion of Subscribe brings every  *)
(* topic in full.                                                          *)
Connected(order) ==
    /\ pc = "connecting"
    /\ pc' = "streaming"
    /\ connection' = "open"
    /\ queue' = [i \in 1..Len(order) |->
                    [topic |-> order[i], initial |-> TRUE,
                     payload |-> feed[order[i]]]]
    /\ lost' = FALSE
    /\ UNCHANGED <<feed, stopping, view, identity, recording, clients,
                   counters>>

ConnectFails ==
    /\ pc = "connecting"
    /\ closes < MaxCloses
    /\ closes' = closes + 1
    /\ pc' = "closing"
    /\ UNCHANGED <<upstream, stopping, view, identity, recording, clients,
                   changes, starts, crashes, logErrors>>

-----------------------------------------------------------------------------
(* The log. *)

Bytes(lines) ==
    FoldLeft(LAMBDA n, line : n + Cardinality(DOMAIN line.payload), 0, lines)

(* LiveSessionLog.append. *)
Put(lines, frame) ==
    IF Bytes(lines) + Cardinality(DOMAIN frame.payload) > MaxLogBytes
    THEN lines ELSE Append(lines, frame)

PutAll(lines, frames) ==
    LET after[i \in 0..Len(frames)] ==
            IF i = 0 THEN lines ELSE Put(after[i - 1], frames[i])
    IN  after[Len(frames)]

(* _record, with the name the frame may just have given the session. *)
RecordNowhere ==
    /\ ~logging
    /\ dropped' = TRUE
    /\ UNCHANGED <<logging, pending, opened, files>>

RecordPending(frame, name) ==
    /\ logging
    /\ name = Nil
    /\ IF Len(pending) < MaxPending
       THEN pending' = Append(pending, frame) /\ UNCHANGED dropped
       ELSE dropped' = TRUE /\ UNCHANGED pending
    /\ UNCHANGED <<logging, opened, files>>

(* Mutant: the buffered lines are forgotten when the log is opened. *)
RecordLineAlone(frame, name) ==
    /\ logging
    /\ name # Nil
    /\ LET file == Put(files[name], frame)
       IN  /\ files' = [files EXCEPT ![name] = file]
           /\ dropped' = (dropped \/ file = files[name])
    /\ pending' = <<>>
    /\ opened' = TRUE
    /\ UNCHANGED logging

(* The first line opens the log and is preceded by the buffered ones. *)
RecordLine(frame, name) ==
    /\ logging
    /\ name # Nil
    /\ LET lines == Append(pending, frame)
           file == PutAll(files[name], lines)
       IN  /\ files' = [files EXCEPT ![name] = file]
           /\ dropped' = (dropped \/ Len(file) < Len(files[name]) + Len(lines))
    /\ pending' = <<>>
    /\ opened' = TRUE
    /\ UNCHANGED logging

Record(frame, name) ==
    \/ RecordNowhere
    \/ RecordPending(frame, name)
    \/ RecordLine(frame, name)

(* The file system refuses to open the log, or fails in a write: an        *)
(* unknown number of lines has reached the file.                           *)
RecordFails(frame, name) ==
    /\ logging
    /\ name # Nil
    /\ logErrors < MaxLogErrors
    /\ logErrors' = logErrors + 1
    /\ \/ /\ ~opened
          /\ UNCHANGED <<pending, opened, files>>
       \/ /\ opened' = TRUE
          /\ pending' = <<>>
          /\ LET lines == Append(pending, frame)
             IN \E n \in 0..Len(lines) :
                 files' = [files EXCEPT ![name] =
                            PutAll(@, SubSeq(lines, 1, n))]
    /\ UNCHANGED <<logging, dropped>>

-----------------------------------------------------------------------------
(* The collector: run(), _consume and _handle. *)

Streaming ==
    /\ pc = "streaming"
    /\ queue # <<>>
    /\ queue' = Tail(queue)

(* SessionInfo names the collector once. *)
Name(frame) ==
    IF identity = Nil /\ frame.topic = "SessionInfo"
    THEN frame.payload["Name"] ELSE identity

(* Mutant: only handlers that wait on their queue are told. *)
PublishToWaiting ==
    backlog' = [c \in Client |->
        IF at[c] = "waiting" /\ backlog[c] < MaxBacklog
        THEN backlog[c] + 1 ELSE backlog[c]]

(* _publish and _offer: a full queue loses its oldest update. *)
Publish ==
    backlog' = [c \in Client |->
        IF at[c] # "away" /\ backlog[c] < MaxBacklog
        THEN backlog[c] + 1 ELSE backlog[c]]

HandleFrame ==
    /\ Streaming
    /\ ~stopping
    /\ LET frame == Head(queue)
       IN  /\ frame # Closed
           /\ Applied(view, frame) # view
           /\ view' = Applied(view, frame)
           /\ identity' = Name(frame)
           /\ Record(frame, Name(frame))
    /\ Publish
    /\ UNCHANGED <<feed, connection, lost, pc, stopping, at, shown, counters>>

(* A merge that changes nothing is counted and forgotten. *)
HandleDuplicate ==
    /\ Streaming
    /\ ~stopping
    /\ Head(queue) # Closed
    /\ Applied(view, Head(queue)) = view
    /\ UNCHANGED <<feed, connection, lost, pc, stopping, view, identity,
                   recording, clients, counters>>

(* An OSError from the log leaves _handle before the frame is published    *)
(* and is taken for a failure of the upstream.                             *)
HandleFails ==
    /\ Streaming
    /\ ~stopping
    /\ LET frame == Head(queue)
       IN  /\ frame # Closed
           /\ Applied(view, frame) # view
           /\ view' = Applied(view, frame)
           /\ identity' = Name(frame)
           /\ RecordFails(frame, Name(frame))
    /\ pc' = "closing"
    /\ UNCHANGED <<feed, connection, lost, stopping, clients, changes, closes,
                   starts, crashes>>

(* The sentinel, or the first frame after a stop request. *)
StreamEnds ==
    /\ Streaming
    /\ stopping \/ Head(queue) = Closed
    /\ pc' = "closing"
    /\ UNCHANGED <<feed, connection, lost, stopping, view, identity, recording,
                   clients, counters>>

FeedClosed ==
    /\ pc = "closing"
    /\ pc' = IF stopping THEN "stopped" ELSE "waiting"
    /\ connection' = "none"
    /\ queue' = <<>>
    /\ UNCHANGED <<feed, lost, stopping, view, identity, recording, clients,
                   counters>>

(* Mutant: reconnects draw on a budget. *)
ReconnectWithinBudget ==
    /\ pc = "waiting"
    /\ stopping \/ closes < MaxCloses
    /\ pc' = IF stopping THEN "stopped" ELSE "connecting"
    /\ UNCHANGED <<upstream, stopping, view, identity, recording, clients,
                   counters>>

(* The delay is over.  However often it fails, the collector tries again. *)
Reconnect ==
    /\ pc = "waiting"
    /\ pc' = IF stopping THEN "stopped" ELSE "connecting"
    /\ UNCHANGED <<upstream, stopping, view, identity, recording, clients,
                   counters>>

-----------------------------------------------------------------------------
(* The service starts and stops the session (see LiveService). *)

(* The state of a collector that was just made. *)
Fresh ==
    /\ stopping' = FALSE
    /\ view' = NoView
    /\ identity' = Nil
    /\ pending' = <<>>
    /\ opened' = FALSE
    /\ dropped' = FALSE
    /\ at' = [c \in Client |-> "away"]
    /\ backlog' = [c \in Client |-> 0]
    /\ shown' = [c \in Client |-> NoView]

(* A new collector knows nothing.  Handlers of the old one never hear of   *)
(* it, so their clients count as away.                                     *)
Start(room) ==
    /\ pc = "stopped"
    /\ starts < MaxStarts
    /\ starts' = starts + 1
    /\ pc' = "connecting"
    /\ logging' = room
    /\ Fresh
    /\ UNCHANGED <<upstream, files, changes, closes, crashes, logErrors>>

StopRequested ==
    /\ pc # "stopped"
    /\ ~stopping
    /\ stopping' = TRUE
    /\ UNCHANGED <<upstream, pc, view, identity, recording, clients, counters>>

(* The grace period is over: run() is cancelled at whatever it awaits. *)
Cancelled ==
    /\ pc # "stopped"
    /\ stopping
    /\ pc' = "stopped"
    /\ connection' = "none"
    /\ queue' = <<>>
    /\ UNCHANGED <<feed, lost, stopping, view, identity, recording, clients,
                   counters>>

(* The host dies.  Lines are flushed, not synced: the last may be cut. *)
Crash ==
    /\ pc # "stopped"
    /\ crashes < MaxCrashes
    /\ crashes' = crashes + 1
    /\ \/ UNCHANGED files
       \/ /\ opened
          /\ files[identity] # <<>>
          /\ files' = [files EXCEPT ![identity] = Append(Front(@), Torn)]
    /\ pc' = "stopped"
    /\ connection' = "none"
    /\ queue' = <<>>
    /\ Fresh
    /\ UNCHANGED <<feed, lost, logging, changes, closes, starts, logErrors>>

-----------------------------------------------------------------------------
(* stream_live_session, once per client. *)

(* Subscribing and building the snapshot happen without an await. *)
Join(c) ==
    /\ pc # "stopped"
    /\ ~stopping
    /\ at[c] = "away"
    /\ at' = [at EXCEPT ![c] = "sending"]
    /\ shown' = [shown EXCEPT ![c] = view]
    /\ UNCHANGED <<upstream, pc, stopping, view, identity, recording, backlog,
                   counters>>

(* The board is sent and the minimum interval is over. *)
Sent(c) ==
    /\ at[c] = "sending"
    /\ at' = [at EXCEPT ![c] = "waiting"]
    /\ UNCHANGED <<upstream, pc, stopping, view, identity, recording, backlog,
                   shown, counters>>

(* One board stands for all updates that have come. *)
Redraw(c) ==
    /\ at[c] = "waiting"
    /\ backlog[c] > 0
    /\ backlog' = [backlog EXCEPT ![c] = 0]
    /\ shown' = [shown EXCEPT ![c] = view]
    /\ at' = [at EXCEPT ![c] = "sending"]
    /\ UNCHANGED <<upstream, pc, stopping, view, identity, recording,
                   counters>>

(* Only a send notices that the client has left. *)
Leave(c) ==
    /\ at[c] = "sending"
    /\ at' = [at EXCEPT ![c] = "away"]
    /\ backlog' = [backlog EXCEPT ![c] = 0]
    /\ shown' = [shown EXCEPT ![c] = NoView]
    /\ UNCHANGED <<upstream, pc, stopping, view, identity, recording,
                   counters>>

-----------------------------------------------------------------------------
Upstream ==
    \/ \E f \in Field, v \in Value : Change(f, v)
    \/ \E n \in Session, f \in Field, v \in Value : NewSession(n, f, v)
    \/ ConnectionCloses
    \/ ConnectFails

Handle ==
    \/ HandleFrame
    \/ HandleDuplicate
    \/ HandleFails
    \/ StreamEnds

Connect == \E order \in SetToSeqs(Topic) : Connected(order)

Service ==
    \/ \E room \in BOOLEAN : Start(room)
    \/ StopRequested
    \/ Cancelled
    \/ Crash

Next ==
    \/ Upstream
    \/ Connect
    \/ Handle
    \/ FeedClosed
    \/ Reconnect
    \/ Service
    \/ \E c \in Client : Join(c) \/ Sent(c) \/ Redraw(c) \/ Leave(c)

Spec == Init /\ [][Next]_vars

(* The loop runs what is ready, and the upstream answers eventually. *)
FairSpec ==
    /\ Spec
    /\ WF_vars(Connect)
    /\ WF_vars(Handle)
    /\ WF_vars(FeedClosed)
    /\ WF_vars(Reconnect)
    /\ \A c \in Client : WF_vars(Sent(c)) /\ WF_vars(Redraw(c))

-----------------------------------------------------------------------------
(* Properties. *)

(* While frames of this connection were not dropped, the view and what is  *)
(* still queued add up to the upstream's state: no reconnect, replayed     *)
(* snapshot or delta that came before it leaves anything wrong in the      *)
(* view.                                                                   *)
CaughtUp ==
    pc = "streaming" /\ connection = "open" /\ ~lost
        => AppliedAll(view, queue) = feed

(* A client whose handler waits, with nothing announced to it, has been    *)
(* sent the current view: no update falls between snapshot and first wait, *)
(* and dropping the oldest updates of a slow client costs it nothing.      *)
NothingMissedBy(c) == at[c] = "waiting" /\ backlog[c] = 0 => shown[c] = view

NothingMissed == logErrors = 0 => \A c \in Client : NothingMissedBy(c)

(* LIVE_TIMING_DESIGN.md: an unwritable log directory degrades logging     *)
(* only, streaming continues.                                              *)
StreamingUnaffected == \A c \in Client : NothingMissedBy(c)

(* iter_frames skips a cut line, which takes the line written after it     *)
(* with it: as good as a delta without fields.                             *)
Skipped == [topic |-> "TimingData", initial |-> FALSE, payload |-> Empty]

Readable(lines) ==
    [i \in DOMAIN lines |->
        IF lines[i] = Torn \/ (i > 1 /\ lines[i - 1] = Torn)
        THEN Skipped ELSE lines[i]]

(* rebuild_from_log, and what a replay of the recording ends with. *)
Rebuilt(lines) == AppliedAll(NoView, Readable(lines))

Recorded == (IF opened THEN files[identity] ELSE <<>>) \o pending

(* As long as the collector reports no dropped frame, its log (with the    *)
(* frames still buffered) leads a replay to the view it has, although only *)
(* frames that changed something are logged, several runs share a file and *)
(* the first frames come before the file has a name.  Not so when the run  *)
(* appends to a cut line, which takes its first line with it.              *)
LogRebuilds ==
    /\ logging /\ ~dropped /\ logErrors = 0
    /\ \A n \in Session : \A i \in 1..Len(files[n]) : files[n][i] # Torn
    => \A t \in Topic : view[t] # Empty => Rebuilt(Recorded)[t] = view[t]

(* signalr_feed: the sentinel lets the collector reconnect. *)
CloseNoticed == connection = "closed" ~> connection # "closed"

(* However connections fail, a client ends up with the upstream's state    *)
(* when that is quiet, unless a frame was dropped, the log failed or the   *)
(* session was stopped.                                                    *)
CatchesUp ==
    \A c \in Client :
        <>[](at[c] = "away" \/ pc = "stopped" \/ stopping \/ lost
             \/ logErrors > 0 \/ shown[c] = feed)

=============================================================================
