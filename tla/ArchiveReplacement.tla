------------------------- MODULE ArchiveReplacement -------------------------
(***************************************************************************)
(* replace_archive_session (archive_persistence.py), statement by          *)
(* statement: one transaction of PostgreSQL that replaces the sporting     *)
(* rows of one session, under the constraints of app/db/models.            *)
(*                                                                         *)
(* The transaction works on its own copy of the rows; other sessions see   *)
(* `history`, the versions committed so far.  Constraints are checked by   *)
(* every statement, unique indexes row by row: two entries that exchange   *)
(* their car numbers meet in the middle of one upsert.  A failed statement *)
(* rolls back.  Who may start the transaction, and whether its claim still *)
(* counts, is ArchiveLeases'; here it may be refused or die at any point.  *)
(***************************************************************************)
EXTENDS SportingSnapshot, Functions

CONSTANTS
    Feed,           \* what FastF1 may return for this session
    RaceLike,       \* whether it is a race or a sprint
    BatchSize,      \* LAP_UPSERT_BATCH_SIZE
    MaxVersions,    \* bound: versions of the session, the empty one included
    MaxAborts       \* bound: transactions that die or are refused

ASSUME FeedAssumption ==
    \A f \in Feed : f \in [rows: Seq(FeedRow), laps: Seq(FeedLap)]

ASSUME ReplacementAssumption ==
    /\ RaceLike \in BOOLEAN
    /\ BatchSize \in Nat \ {0}
    /\ MaxVersions \in Nat /\ MaxAborts \in Nat

VARIABLES
    history,        \* committed versions of the rows, oldest first
    txn,            \* the transaction: statement, snapshot, rows, ids, batch
    lastId,         \* the identity sequence of session_entries
    aborts

archive == <<history, txn, lastId, aborts>>

NoRows == [drivers |-> {}, entries |-> {}, results |-> {}, laps |-> {},
           completed |-> 0]

NoTxn == [at |-> "idle", snapshot |-> None, rows |-> None, batch |-> 0,
          outcome |-> "none"]

ArchiveInit ==
    /\ history = <<NoRows>>
    /\ txn = NoTxn
    /\ lastId = 0
    /\ aborts = 0

Version == Len(history)
Committed == history[Version]

-----------------------------------------------------------------------------
(* The constraints of session_entries, session_results and laps. *)

Unique(rows, Value(_)) ==
    \A r, q \in rows : r # q /\ Value(r) # None => Value(r) # Value(q)

(* The unique indexes of entries: key, and, where not null, car number and *)
(* driver.                                                                 *)
EntriesUnique(entries) ==
    /\ \A e, f \in entries : e # f => e.id # f.id /\ e.key # f.key
    /\ Unique(entries, LAMBDA e : e.number)
    /\ Unique(entries, LAMBDA e : e.driver)

References(rows) ==
    /\ {e.driver : e \in rows.entries} \ {None} \subseteq rows.drivers
    /\ {r.entry : r \in rows.results} \subseteq {e.id : e \in rows.entries}
    /\ {l.entry : l \in rows.laps} \subseteq {e.id : e \in rows.entries}

(* The CHECK constraints; instants have none.                              *)
Checked(rows) ==
    /\ \A r \in rows.results :
           /\ AtLeast(1, r.result.position)
           /\ AtLeast(0, r.result.elapsed) /\ AtLeast(0, r.result.gap)
           /\ AtLeast(0, r.result.behind)
    /\ \A l \in rows.laps : l.lap >= 1 /\ AtLeast(0, l.time)

Sound(rows) ==
    /\ Checked(rows)
    /\ EntriesUnique(rows.entries)
    /\ References(rows)
    /\ \A r, q \in rows.results : r.entry = q.entry => r = q
    /\ \A l, m \in rows.laps : l.entry = m.entry /\ l.lap = m.lap => l = m

-----------------------------------------------------------------------------
(* The statements: the rows after each. *)

IdOf(rows, key) == (CHOOSE e \in rows.entries : e.key = key).id
Incoming(rows, s) == {IdOf(rows, k) : k \in Keys(s.entries)}

UpsertDrivers(rows, s) == [rows EXCEPT !.drivers = @ \cup s.drivers]

(* Mutant: car numbers and drivers stay until they are overwritten.        *)
ClearNothing(rows, s) == rows

(* _clear_entry_unique_values *)
ClearUniqueValues(rows, s) ==
    [rows EXCEPT !.entries =
        {[id |-> e.id, key |-> e.key, driver |-> None, number |-> None] : e \in @}]

(* The first n rows of the upsert of entries: an entry whose key is there  *)
(* keeps its id, a new one takes the next.                                 *)
NewKeys(rows, s, n) ==
    {i \in 1 .. n : s.entries[i].key \notin {e.key : e \in rows.entries}}

UpsertedEntries(rows, s, n) ==
    LET Id(i) == IF i \in NewKeys(rows, s, n)
                 THEN lastId + Cardinality(NewKeys(rows, s, i))
                 ELSE IdOf(rows, s.entries[i].key)
    IN  {e \in rows.entries : \A i \in 1 .. n : e.key # s.entries[i].key}
        \cup {[id |-> Id(i), key |-> s.entries[i].key,
               driver |-> s.entries[i].driver,
               number |-> s.entries[i].number] : i \in 1 .. n}

UpsertEntries(rows, s) ==
    [rows EXCEPT !.entries = UpsertedEntries(rows, s, Len(s.entries))]

EntriesAccepted(rows, s) ==
    \A n \in DOMAIN s.entries : EntriesUnique(UpsertedEntries(rows, s, n))

UpsertResults(rows, s) ==
    LET new == {[entry |-> IdOf(rows, s.results[i].key), result |-> s.results[i]] :
                    i \in DOMAIN s.results}
    IN  [rows EXCEPT !.results =
            {r \in @ : \A q \in new : q.entry # r.entry} \cup new]

Batches(s) == (Len(s.laps) + BatchSize - 1) \div BatchSize

(* The b-th statement of _upsert_laps *)
UpsertLaps(rows, s, b) ==
    LET in == {j \in DOMAIN s.laps : (j - 1) \div BatchSize = b - 1}
        new == {[entry |-> IdOf(rows, s.laps[j].key), lap |-> s.laps[j].lap,
                 time |-> s.laps[j].time, start |-> s.laps[j].start] : j \in in}
    IN  [rows EXCEPT !.laps =
            {l \in @ : \A m \in new : m.entry # l.entry \/ m.lap # l.lap} \cup new]

(* Mutant: laps that the new snapshot lacks stay.                          *)
KeepStaleLaps(rows, s) ==
    [rows EXCEPT !.laps = {l \in @ : l.entry \in Incoming(rows, s)}]

DeleteStaleLaps(rows, s) ==
    [rows EXCEPT !.laps =
        {l \in @ : \E j \in DOMAIN s.laps :
            l.entry = IdOf(rows, s.laps[j].key) /\ l.lap = s.laps[j].lap}]

DeleteStaleResults(rows, s) ==
    [rows EXCEPT !.results = {r \in @ : r.entry \in Incoming(rows, s)}]

DeleteStaleEntries(rows, s) ==
    [rows EXCEPT !.entries = {e \in @ : e.id \in Incoming(rows, s)}]

-----------------------------------------------------------------------------
(* The transaction. *)

(* _load_target, the load and the normalisation, outside the transaction.  *)
Load(f) ==
    /\ txn.at = "idle" /\ Version < MaxVersions
    /\ IF Normalisable(f, RaceLike)
       THEN txn' = [NoTxn EXCEPT !.at = "loaded",
                                 !.snapshot = Normalised(f, RaceLike)]
       ELSE txn' = [NoTxn EXCEPT !.outcome = "not normalisable"]
    /\ UNCHANGED <<history, lastId, aborts>>

(* _validate_snapshot, then the locks: no other writer from here on.       *)
Begin ==
    /\ txn.at = "loaded"
    /\ txn' = IF ValidSnapshot(txn.snapshot)
              THEN [txn EXCEPT !.at = "drivers", !.rows = Committed]
              ELSE [NoTxn EXCEPT !.outcome = "refused"]
    /\ UNCHANGED <<history, lastId, aborts>>

(* One statement leads to the next, or violates a constraint.              *)
Execute(rows, accepted, next) ==
    txn' = IF accepted /\ Sound(rows)
           THEN [txn EXCEPT !.at = next, !.rows = rows]
           ELSE [NoTxn EXCEPT !.outcome = "refused"]

Drivers ==
    /\ txn.at = "drivers"
    /\ Execute(UpsertDrivers(txn.rows, txn.snapshot), TRUE, "clear")
    /\ UNCHANGED <<history, lastId, aborts>>

Clear ==
    /\ txn.at = "clear"
    /\ Execute(ClearUniqueValues(txn.rows, txn.snapshot), TRUE, "entries")
    /\ UNCHANGED <<history, lastId, aborts>>

(* The sequence is not rolled back: an id is never given twice.            *)
PutEntries ==
    /\ txn.at = "entries"
    /\ Execute(UpsertEntries(txn.rows, txn.snapshot),
               EntriesAccepted(txn.rows, txn.snapshot), "results")
    /\ lastId' = lastId + Cardinality(NewKeys(txn.rows, txn.snapshot,
                                              Len(txn.snapshot.entries)))
    /\ UNCHANGED <<history, aborts>>

PutResults ==
    /\ txn.at = "results"
    /\ Execute(UpsertResults(txn.rows, txn.snapshot), TRUE, "laps")
    /\ UNCHANGED <<history, lastId, aborts>>

PutLaps ==
    /\ txn.at = "laps" /\ txn.batch < Batches(txn.snapshot)
    /\ txn' = LET rows == UpsertLaps(txn.rows, txn.snapshot, txn.batch + 1)
              IN  IF Sound(rows)
                  THEN [txn EXCEPT !.batch = @ + 1, !.rows = rows]
                  ELSE [NoTxn EXCEPT !.outcome = "refused"]
    /\ UNCHANGED <<history, lastId, aborts>>

DropLaps ==
    /\ txn.at = "laps" /\ txn.batch = Batches(txn.snapshot)
    /\ Execute(DeleteStaleLaps(txn.rows, txn.snapshot), TRUE, "stale results")
    /\ UNCHANGED <<history, lastId, aborts>>

DropResults ==
    /\ txn.at = "stale results"
    /\ Execute(DeleteStaleResults(txn.rows, txn.snapshot), TRUE, "stale entries")
    /\ UNCHANGED <<history, lastId, aborts>>

DropEntries ==
    /\ txn.at = "stale entries"
    /\ Execute(DeleteStaleEntries(txn.rows, txn.snapshot), TRUE, "complete")
    /\ UNCHANGED <<history, lastId, aborts>>

(* _mark_ingestion_completed and the commit.  Completion times are read    *)
(* under the session's lock: they grow with the versions.                  *)
Commit ==
    /\ txn.at = "complete"
    /\ history' = Append(history, [txn.rows EXCEPT !.completed = Version])
    /\ txn' = [NoTxn EXCEPT !.outcome = "completed"]
    /\ UNCHANGED <<lastId, aborts>>

(* The claim is lost, the session's identity changed, the worker dies or   *)
(* the connection breaks.                                                  *)
Abort ==
    /\ txn.at # "idle" /\ aborts < MaxAborts
    /\ txn' = [NoTxn EXCEPT !.outcome = "aborted"]
    /\ aborts' = aborts + 1
    /\ UNCHANGED <<history, lastId>>

ArchiveNext ==
    \/ \E f \in Feed : Load(f)
    \/ Begin \/ Drivers \/ Clear \/ PutEntries \/ PutResults \/ PutLaps
    \/ DropLaps \/ DropResults \/ DropEntries \/ Commit \/ Abort

-----------------------------------------------------------------------------
(* Properties. *)

(* A feed that passes the normalisation is stored: neither the contract    *)
(* nor a constraint of the database refuses it, whatever is stored already *)
(* and however the entries' keys, car numbers and drivers moved between    *)
(* the two (a refusal would repeat on every retry of the session).         *)
NeverRefused == txn.outcome # "refused"

(* Rows by entry key instead of by id. *)
KeyOf(rows, entry) == (CHOOSE e \in rows.entries : e.id = entry).key

ContentOf(rows) ==
    [entries |-> {[key |-> e.key, driver |-> e.driver, number |-> e.number] :
                     e \in rows.entries},
     results |-> {r.result : r \in rows.results},
     laps |-> {[key |-> KeyOf(rows, l.entry), lap |-> l.lap, time |-> l.time,
               start |-> l.start] : l \in rows.laps}]

SnapshotContent(s) ==
    [entries |-> Range(s.entries), results |-> Range(s.results),
     laps |-> Range(s.laps)]

EntryIds(rows) ==
    [k \in {e.key : e \in rows.entries} |-> IdOf(rows, k)]

Contents == {SnapshotContent(Normalised(f, RaceLike)) :
                f \in {g \in Feed : Normalisable(g, RaceLike)}}

Store == INSTANCE SessionStore
    WITH Content <- Contents,
         Empty <- ContentOf(NoRows),
         content <- ContentOf(Committed),
         completed <- Committed.completed,
         id <- EntryIds(Committed)

(* The ten statements act as the one step of SessionStore: what is         *)
(* committed is always exactly one normalised snapshot, with no row left   *)
(* of the one before, and entries that stay keep their ids, which laps,    *)
(* results and readers refer to.  (That it is newer follows from the clock *)
(* it is stamped with.)                                                    *)
Replaces == Store!Spec
=============================================================================
