---------------------------- MODULE SessionStore ----------------------------
(***************************************************************************)
(* What replace_archive_session promises ("Atomically replace one          *)
(* session's FastF1 archive-owned sporting snapshot."): a reader sees one  *)
(* whole snapshot, replaced in one step by another that is newer, and an   *)
(* entry that stays keeps its id.                                          *)
(***************************************************************************)
EXTENDS Integers

CONSTANTS Content,      \* the snapshots that may be stored
          Empty         \* nothing is stored yet

VARIABLES content,      \* the sporting data of the session
          completed,    \* when it was completed
          id            \* entry key -> database id

vars == <<completed, content, id>>

Init == content = Empty /\ completed = 0 /\ id = << >>

Replace ==
    /\ completed' > completed
    /\ content' \in Content
    /\ \A k \in DOMAIN id \cap DOMAIN id' : id'[k] = id[k]
    /\ \A k \in DOMAIN id' \ DOMAIN id, j \in DOMAIN id : id'[k] # id[j]

Spec == Init /\ [][Replace]_vars
=============================================================================
