---------------------------- MODULE SessionReader ----------------------------
(***************************************************************************)
(* One reader of one session while the archive replaces it: the read       *)
(* services of session_data.py, each in one REPEATABLE READ transaction,   *)
(* and the session workspace of the dashboard, SessionExplorer.tsx, which  *)
(* asks for the detail, the results and then laps page by page.            *)
(*                                                                         *)
(* Between two requests the archive may have committed another version.    *)
(* The workspace compares completed_at, the only version mark it sees.     *)
(*                                                                         *)
(* A request is aborted when what it was for is replaced, and its answer   *)
(* is then never looked at, so at most one request matters at a time.      *)
(***************************************************************************)
EXTENDS ArchiveReplacement

CONSTANTS
    PageSize,       \* LAP_PAGE_SIZE
    Slots,          \* comparisonSlots: participants in the comparison
    MaxFailures     \* bound: requests that fail

ASSUME ReaderAssumption ==
    /\ PageSize \in Nat \ {0} /\ Slots \in Nat \ {0}
    /\ MaxFailures \in Nat

VARIABLES
    open,           \* whether the workspace is open
    detail,         \* snapshot.completed_at of the detail, or None
    results,        \* ids of the entries listed, or None
    entry,          \* selectedEntry
    laps,           \* items of the laps loaded, has_more and next_after_lap
    cursor,         \* lapCursor
    lapSnapshot,    \* lapSnapshotRef
    selections,     \* analysisSelections: entry, snapshot and laps of each
    request,        \* the request under way
    failures

workspace == <<detail, results, entry, laps, cursor, lapSnapshot, selections>>
reader == <<open, workspace, request, failures>>
vars == <<archive, reader>>

NoRequest == [kind |-> "none", view |-> 0]

NoLaps == [items |-> << >>, more |-> FALSE, next |-> None]

ReaderInit ==
    /\ open = FALSE
    /\ detail = None /\ results = None /\ entry = None /\ laps = None
    /\ cursor = None /\ lapSnapshot = None /\ selections = {}
    /\ request = NoRequest
    /\ failures = 0

-----------------------------------------------------------------------------
(* The read services.  A request has view 0 until its transaction begins;  *)
(* from its first statement on it reads that version.                      *)

View == history[request.view]

Send(kind) == request' = [kind |-> kind, view |-> 0]

(* _begin_read_only and _session_context *)
BeginRead ==
    /\ request.kind # "none" /\ request.view = 0
    /\ request' = [request EXCEPT !.view = Version]
    /\ UNCHANGED <<archive, open, workspace, failures>>

Available == View.completed # 0

LapsOf(rows, id) == {l \in rows.laps : l.entry = id}

(* ORDER BY lap_number: the sequence in which each lap comes after as many *)
(* as have a smaller number.                                               *)
InOrder(S) ==
    [i \in 1 .. Cardinality(S) |->
        CHOOSE l \in S : Cardinality({m \in S : m.lap < l.lap}) = i - 1]

(* read_session_laps: the laps after the cursor, one page and whether more *)
(* follow.                                                                 *)
LapsAfter(rows, id, after) ==
    InOrder({l \in LapsOf(rows, id) : after # None => l.lap > after})

LapPage(rows, id, after) ==
    LET all == LapsAfter(rows, id, after)
        more == Len(all) > PageSize
    IN  [items |-> SubSeq(all, 1, IF more THEN PageSize ELSE Len(all)),
         more |-> more,
         next |-> IF more THEN all[PageSize].lap ELSE None]

-----------------------------------------------------------------------------
(* The workspace. *)

(* Opening or closing the view: the state is reset and requests aborted.   *)
Reset ==
    /\ detail' = None /\ results' = None /\ entry' = None /\ laps' = None
    /\ cursor' = None /\ lapSnapshot' = None /\ selections' = {}

Open ==
    /\ ~open
    /\ open' = TRUE
    /\ Reset
    /\ Send("detail")
    /\ UNCHANGED <<archive, failures>>

Close ==
    /\ open
    /\ open' = FALSE
    /\ Reset
    /\ request' = NoRequest
    /\ UNCHANGED <<archive, failures>>

Answered(kind) == request.kind = kind /\ request.view # 0

DetailArrives ==
    /\ Answered("detail")
    /\ detail' = View.completed
    /\ IF Available THEN Send("results") ELSE request' = NoRequest
    /\ UNCHANGED <<archive, open, results, entry, laps, cursor, lapSnapshot,
                   selections, failures>>

ResultsArrive ==
    /\ Answered("results")
    /\ results' = {e.id : e \in View.entries}
    /\ request' = NoRequest
    /\ UNCHANGED <<archive, open, detail, entry, laps, cursor, lapSnapshot,
                   selections, failures>>

(* handleEntrySelection; the effect of the change aborts the old request   *)
(* and asks for the first page.                                            *)
SelectEntry(id) ==
    /\ results # None /\ id \in results /\ id # entry
    /\ entry' = id
    /\ laps' = None /\ cursor' = None /\ lapSnapshot' = None
    /\ Send("laps")
    /\ UNCHANGED <<archive, open, detail, results, selections, failures>>

(* The button below the laps, disabled while a page is under way: the      *)
(* effect runs only if the cursor changes.                                 *)
LoadMore ==
    /\ laps # None /\ laps.more /\ request = NoRequest
    /\ cursor # laps.next
    /\ cursor' = laps.next
    /\ Send("laps")
    /\ UNCHANGED <<archive, open, detail, results, entry, laps, lapSnapshot,
                   selections, failures>>

(* Mutant: selections survive whatever arrives.                            *)
CompatibleAlways(completed) == UNCHANGED selections

(* Selections of another snapshot are dropped when a page arrives.         *)
Compatible(completed) ==
    selections' = IF \E s \in selections : s.snapshot # completed
                  THEN {} ELSE selections

(* Mutant: a later page is appended whatever it is a page of.              *)
RestartedNever(completed) == FALSE

(* A later page of another snapshot: pagination restarts.                  *)
Restarted(completed) == cursor # None /\ lapSnapshot # completed

(* The page is appended, or is the first.                                  *)
ShowPage(page, completed) ==
    /\ lapSnapshot' = completed
    /\ laps' = IF cursor = None \/ laps = None THEN page
               ELSE [page EXCEPT !.items = laps.items \o @]
    /\ request' = NoRequest
    /\ UNCHANGED cursor

RestartPages ==
    /\ laps' = None /\ cursor' = None /\ lapSnapshot' = None
    /\ Send("laps")

LapsArrive ==
    /\ Answered("laps")
    /\ entry \in {e.id : e \in View.entries}
    /\ Compatible(View.completed)
    /\ IF Restarted(View.completed)
       THEN RestartPages
       ELSE ShowPage(LapPage(View, entry, cursor), View.completed)
    /\ UNCHANGED <<archive, open, detail, results, entry, failures>>

(* The entry is gone: 404, the workspace keeps what it shows.              *)
EntryGone ==
    /\ Answered("laps")
    /\ entry \notin {e.id : e \in View.entries}
    /\ request' = NoRequest
    /\ UNCHANGED <<archive, open, workspace, failures>>

RequestFails ==
    /\ request # NoRequest /\ failures < MaxFailures
    /\ request' = NoRequest
    /\ failures' = failures + 1
    /\ UNCHANGED <<archive, open, workspace>>

(* handleLapSelection: toggles one lap of the selected entry.  A selection *)
(* keeps the snapshot it was started from.                                 *)
SelectionOf(id) == {s \in selections : s.entry = id}

Toggled(selection, lap) ==
    [entry |-> selection.entry, snapshot |-> selection.snapshot,
     laps |-> IF lap \in selection.laps THEN selection.laps \ {lap}
                                        ELSE selection.laps \cup {lap}]

ToggleLap(lap) ==
    /\ laps # None /\ lapSnapshot # None
    /\ lap \in Range(laps.items)
    /\ SelectionOf(entry) # {} \/ Cardinality(selections) < Slots
    /\ LET existing == IF SelectionOf(entry) # {}
                       THEN CHOOSE s \in SelectionOf(entry) : TRUE
                       ELSE [entry |-> entry, snapshot |-> lapSnapshot, laps |-> {}]
           next == Toggled(existing, lap)
       IN  selections' = (selections \ {existing})
                         \cup (IF next.laps = {} THEN {} ELSE {next})
    /\ UNCHANGED <<archive, open, detail, results, entry, laps, cursor,
                   lapSnapshot, request, failures>>

(* handleClearSelection *)
ClearSelection(s) ==
    /\ selections' = selections \ {s}
    /\ UNCHANGED <<archive, open, detail, results, entry, laps, cursor,
                   lapSnapshot, request, failures>>

ReaderNext ==
    \/ Open \/ Close \/ BeginRead
    \/ DetailArrives \/ ResultsArrive \/ LapsArrive \/ EntryGone \/ RequestFails
    \/ \E id \in 1 .. lastId : SelectEntry(id)
    \/ LoadMore
    \/ laps # None /\ \E lap \in Range(laps.items) : ToggleLap(lap)
    \/ \E s \in selections : ClearSelection(s)

Init == ArchiveInit /\ ReaderInit

Next ==
    \/ ArchiveNext /\ UNCHANGED reader
    \/ ReaderNext

Spec == Init /\ [][Next]_vars

-----------------------------------------------------------------------------
(* Properties. *)

(* The version of the rows with a given completion time.                   *)
VersionAt(completed) == history[completed + 1]

(* The laps on screen are the first laps of the selected entry in one      *)
(* version of the archive, none missing and none twice, however many       *)
(* versions were committed between the pages; when the workspace says that *)
(* no more follow, they are all of them.  The laps selected for comparison *)
(* are what their snapshot has for their entry.                            *)
LapsOfOneSnapshot ==
    /\ laps # None =>
           LET all == LapsAfter(VersionAt(lapSnapshot), entry, None)
           IN  /\ laps.items = SubSeq(all, 1, Len(laps.items))
               /\ laps.more <=> Len(laps.items) < Len(all)
    /\ \A s \in selections :
           s.laps \subseteq LapsOf(VersionAt(s.snapshot), s.entry)

(* Laps selected for comparison, of whichever participants, are laps of    *)
(* one and the same snapshot, and of the one on screen: "laps chosen       *)
(* against one archive snapshot are not comparable with laps from          *)
(* another" (lapAnalysis.ts).                                              *)
SelectionsComparable ==
    /\ \A r, s \in selections : r.snapshot = s.snapshot
    /\ lapSnapshot # None => \A s \in selections : s.snapshot = lapSnapshot

=============================================================================
