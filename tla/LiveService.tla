----------------------------- MODULE LiveService -----------------------------
(***************************************************************************)
(* The live session slot (backend/app/live/service.py), the tasks that run *)
(* collectors (LiveCollector.run, reduced to where it can be stopped), and *)
(* the browser tab that follows the slot (frontend/src/live/LiveTiming).   *)
(*                                                                         *)
(* Starting is one action: the service's lock is held over code without an *)
(* await.  Stopping gives the slot away first and then waits for the task, *)
(* so other requests run meanwhile.  A refused command changes nothing.    *)
(***************************************************************************)
EXTENDS Naturals, FiniteSets

CONSTANTS
    Request,        \* stop requests of other tabs that can be under way
    Own,            \* the stop request of the tab
    NoCollector,    \* what the slot holds when it is empty
    MaxMade,        \* bound: collectors made
    Shared,         \* whether other tabs send commands, too
    Delayed         \* whether the answer to a poll can be overtaken

Collector == 1..MaxMade

Stopper == Request \cup {Own}

ASSUME ServiceAssumption ==
    /\ MaxMade \in Nat
    /\ NoCollector \notin 0..MaxMade
    /\ Own \notin Request
    /\ {Shared, Delayed} \subseteq BOOLEAN

(* The stream of a tab that the server has refused. *)
Refused == 0

VARIABLES
    slot,           \* the service's collector and task
    made,           \* collectors made so far
    task,           \* collector -> state of its task
    replay,         \* collector -> it replays a recording
    asked,          \* collector -> request_stop was called
    cancelled,      \* collector -> its task was cancelled
    stop,           \* stop request -> where it is
    target,         \* stop request -> the collector it took from the slot
    has,            \* the tab: status shows a session
    socket,         \* the tab: the collector its stream is subscribed to
    busy,           \* the tab: the command that is pending
    answer          \* the tab: status in the answer to a poll, on its way

tasks == <<task, replay, asked, cancelled>>
requests == <<stop, target>>
tab == <<has, socket, busy, answer>>
serviceVars == <<slot, made, task, replay, asked, cancelled, stop, target,
                 has, socket, busy, answer>>

ServiceTypeOK ==
    /\ slot \in Collector \cup {NoCollector}
    /\ made \in 0..MaxMade
    /\ task \in [Collector -> {"unmade", "created", "running", "closing",
                               "done"}]
    /\ replay \in [Collector -> BOOLEAN]
    /\ asked \in [Collector -> BOOLEAN]
    /\ cancelled \in [Collector -> BOOLEAN]
    /\ stop \in [Stopper -> {"idle", "grace", "cancelling"}]
    /\ target \in [Stopper -> Collector \cup {NoCollector}]
    /\ has \in BOOLEAN
    /\ socket \in Collector \cup {NoCollector, Refused}
    /\ busy \in {"no", "start", "replay", "stop"}
    /\ answer \in {"none", "session", "nothing"}
    /\ \A i \in Collector : i > made <=> task[i] = "unmade"
    /\ \A q \in Stopper : stop[q] = "idle" <=> target[q] = NoCollector

ServiceInit ==
    /\ slot = NoCollector
    /\ made = 0
    /\ task = [i \in Collector |-> "unmade"]
    /\ replay = [i \in Collector |-> FALSE]
    /\ asked = [i \in Collector |-> FALSE]
    /\ cancelled = [i \in Collector |-> FALSE]
    /\ stop = [r \in Stopper |-> "idle"]
    /\ target = [r \in Stopper |-> NoCollector]
    /\ has = FALSE
    /\ socket = NoCollector
    /\ busy = "no"
    /\ answer = "none"

Alive(i) == task[i] \in {"created", "running", "closing"}

-----------------------------------------------------------------------------
(* Commands. *)

(* Mutant: only the slot is looked at when a replay has ended. *)
OccupiedUnlessReplayed == slot # NoCollector /\ Alive(slot) /\ ~replay[slot]

Occupied == slot # NoCollector /\ Alive(slot)

(* start_session and start_replay make a collector when the slot's task is *)
(* done.  Otherwise the first returns it and the second is refused.        *)
Make(isReplay) ==
    /\ made < MaxMade
    /\ made' = made + 1
    /\ slot' = made + 1
    /\ task' = [task EXCEPT ![made + 1] = "created"]
    /\ replay' = [replay EXCEPT ![made + 1] = isReplay]
    /\ UNCHANGED <<asked, cancelled, requests>>

(* stop_session up to its first wait. *)
Stop(r) ==
    /\ stop[r] = "idle"
    /\ slot # NoCollector
    /\ target' = [target EXCEPT ![r] = slot]
    /\ asked' = [asked EXCEPT ![slot] = TRUE]
    /\ stop' = [stop EXCEPT ![r] = "grace"]
    /\ slot' = NoCollector
    /\ UNCHANGED <<made, task, replay, cancelled>>

(* Mutant: the task is left to itself after the grace period. *)
GraceEndsWaiting(r) ==
    /\ stop[r] = "grace"
    /\ Alive(target[r])
    /\ stop' = [stop EXCEPT ![r] = "cancelling"]
    /\ UNCHANGED <<slot, made, target, tasks, tab>>

(* STOP_GRACE_SECONDS are over. *)
GraceEnds(r) ==
    /\ stop[r] = "grace"
    /\ Alive(target[r])
    /\ stop' = [stop EXCEPT ![r] = "cancelling"]
    /\ cancelled' = [cancelled EXCEPT ![target[r]] = TRUE]
    /\ UNCHANGED <<slot, made, target, task, replay, asked, tab>>

StopReturns(r) ==
    /\ stop[r] # "idle"
    /\ ~Alive(target[r])
    /\ stop' = [stop EXCEPT ![r] = "idle"]
    /\ target' = [target EXCEPT ![r] = NoCollector]
    /\ UNCHANGED <<slot, made, tasks>>

-----------------------------------------------------------------------------
(* The task of a collector. *)

Begin(i) ==
    /\ task[i] = "created"
    /\ ~cancelled[i]
    /\ task' = [task EXCEPT ![i] = "running"]
    /\ UNCHANGED <<slot, made, replay, asked, cancelled, requests, tab>>

(* A recording ends, or a frame, the end of a connection or of a delay     *)
(* lets run() see the request to stop.  A live connection that ends        *)
(* otherwise is replaced, which leaves the task running.                   *)
Leaves(i) ==
    /\ task[i] = "running"
    /\ replay[i] \/ asked[i]
    /\ task' = [task EXCEPT ![i] = "closing"]
    /\ UNCHANGED <<slot, made, replay, asked, cancelled, requests, tab>>

(* Cancelling a task that has not begun ends it; one that has, closes its  *)
(* feed first.                                                             *)
CancelArrives(i) ==
    /\ cancelled[i]
    /\ \/ /\ task[i] = "created"
          /\ task' = [task EXCEPT ![i] = "done"]
       \/ /\ task[i] = "running"
          /\ task' = [task EXCEPT ![i] = "closing"]
    /\ UNCHANGED <<slot, made, replay, asked, cancelled, requests, tab>>

(* The feed's close is bounded by STOP_TIMEOUT_SECONDS. *)
Ends(i) ==
    /\ task[i] = "closing"
    /\ task' = [task EXCEPT ![i] = "done"]
    /\ UNCHANGED <<slot, made, replay, asked, cancelled, requests, tab>>

-----------------------------------------------------------------------------
(* The tab.  Its effect on hasSession opens and closes the stream. *)

(* Mutant: the stream is left alone when the session goes. *)
SeesKeepingStream(session) ==
    /\ has' = session
    /\ UNCHANGED socket

Sees(session) ==
    /\ has' = session
    /\ socket' = IF session THEN socket ELSE NoCollector

Poll ==
    /\ Sees(slot # NoCollector)
    /\ UNCHANGED <<slot, made, tasks, requests, busy, answer>>

PollAnswered ==
    /\ Delayed
    /\ answer = "none"
    /\ answer' = IF slot = NoCollector THEN "nothing" ELSE "session"
    /\ UNCHANGED <<slot, made, tasks, requests, has, socket, busy>>

PollArrives ==
    /\ answer # "none"
    /\ answer' = "none"
    /\ Sees(answer = "session")
    /\ UNCHANGED <<slot, made, tasks, requests, busy>>

(* The server accepts the stream and subscribes it to the slot, or closes  *)
(* it again.  The tab does not open another until hasSession changes.      *)
StreamOpens ==
    /\ has
    /\ socket = NoCollector
    /\ socket' = IF slot = NoCollector THEN Refused ELSE slot
    /\ UNCHANGED <<slot, made, tasks, requests, has, busy, answer>>

(* Connect and Replay are offered without a session only, Stop with one.   *)
TabClicks(command) ==
    /\ busy = "no"
    /\ ~has
    /\ busy' = command
    /\ UNCHANGED <<slot, made, tasks, requests, has, socket, answer>>

TabStarts ==
    /\ busy \in {"start", "replay"}
    /\ busy' = "no"
    /\ \/ ~Occupied /\ Make(busy = "replay") /\ Sees(TRUE)
       \/ /\ Occupied
          /\ Sees(has \/ busy = "start")
          /\ UNCHANGED <<slot, made, tasks, requests>>
    /\ UNCHANGED answer

TabStops ==
    /\ busy = "no"
    /\ has
    /\ Stop(Own)
    /\ busy' = "stop"
    /\ UNCHANGED <<has, socket, answer>>

TabStopped ==
    /\ StopReturns(Own)
    /\ busy' = "no"
    /\ Sees(slot # NoCollector)
    /\ UNCHANGED answer

OtherStarts(isReplay) ==
    /\ Shared
    /\ ~Occupied
    /\ Make(isReplay)
    /\ UNCHANGED tab

OtherStops(r) ==
    /\ Shared
    /\ Stop(r)
    /\ UNCHANGED tab

OtherStopped(r) ==
    /\ StopReturns(r)
    /\ UNCHANGED tab

-----------------------------------------------------------------------------
Task(i) == Begin(i) \/ CancelArrives(i) \/ Ends(i)

ServiceNext ==
    \/ \E i \in Collector : Task(i) \/ Leaves(i)
    \/ \E r \in Stopper : GraceEnds(r)
    \/ \E r \in Request : OtherStops(r) \/ OtherStopped(r)
    \/ \E isReplay \in BOOLEAN : OtherStarts(isReplay)
    \/ \E command \in {"start", "replay"} : TabClicks(command)
    \/ TabStarts
    \/ TabStops
    \/ TabStopped
    \/ Poll
    \/ PollAnswered
    \/ PollArrives
    \/ StreamOpens

ServiceSpec == ServiceInit /\ [][ServiceNext]_serviceVars

(* Tasks run when they can, the grace period ends, and the tab polls and   *)
(* gets its answers.                                                       *)
(* Nothing says that a feed ever delivers another frame.                   *)
FairServiceSpec ==
    /\ ServiceSpec
    /\ \A i \in Collector : WF_serviceVars(Task(i))
    /\ \A r \in Stopper : WF_serviceVars(GraceEnds(r))
    /\ \A r \in Request : WF_serviceVars(OtherStopped(r))
    /\ WF_serviceVars(TabStarts)
    /\ WF_serviceVars(TabStopped)
    /\ WF_serviceVars(Poll)
    /\ WF_serviceVars(PollArrives)
    /\ WF_serviceVars(StreamOpens)

-----------------------------------------------------------------------------
(* Properties. *)

(* Every collector that may still take frames is the one in the slot, so   *)
(* the next stop reaches it: starts, replays and overlapping stops leave   *)
(* none running unseen, and no two write to one log or write to the        *)
(* recording another replays.                                              *)
NoneUnseen == \A i \in Collector : Alive(i) /\ ~asked[i] => slot = i

(* A stop ends, also when the feed never says another word, and the task   *)
(* it was meant for has ended by then.                                     *)
StopEnds ==
    \A r \in Stopper : \A i \in Collector :
        target[r] = i ~> target[r] # i /\ task[i] = "done"

(* However the commands and answers of several tabs interleave, a tab ends *)
(* up with the session's presence: without one its stream is closed, and   *)
(* with one it has asked for a stream.                                     *)
StreamSettles == <>[](slot = NoCollector <=> socket = NoCollector)

=============================================================================
