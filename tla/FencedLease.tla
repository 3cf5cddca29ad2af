---------------------------- MODULE FencedLease ----------------------------
(***************************************************************************)
(* What a lease protected by a fencing token promises, one lease per key.  *)
(* Every acquisition draws a token that was never used before; a lease is  *)
(* released or expires; and only the attempt that holds the lease may      *)
(* publish a result, which ends the lease in the same step.                *)
(*                                                                         *)
(* The archive workers implement this specification for every race session *)
(* (ArchiveLeases): a lease is a running session_ingestions row, its token *)
(* the row's attempt_count, a publication the replacement of the session's *)
(* sporting snapshot.                                                      *)
(***************************************************************************)
EXTENDS Naturals

CONSTANT Key

VARIABLES
    highest,    \* highest[k]: the last token drawn for k, 0 when none was
    held,       \* held[k]: the token that holds the lease of k, 0 when free
    published   \* published[k]: the token whose result is stored, 0 when none

vars == <<highest, held, published>>

TypeOK ==
    /\ highest \in [Key -> Nat]
    /\ held \in [Key -> Nat]
    /\ published \in [Key -> Nat]

Init ==
    /\ highest = [k \in Key |-> 0]
    /\ held = [k \in Key |-> 0]
    /\ published = [k \in Key |-> 0]

(* A free lease is taken under a fresh token. *)
Acquire(k) ==
    /\ held[k] = 0
    /\ highest' = [highest EXCEPT ![k] = @ + 1]
    /\ held' = [held EXCEPT ![k] = highest[k] + 1]
    /\ UNCHANGED published

(* The leases of a set of keys end without a result: released or expired. *)
Drop(K) ==
    /\ \A k \in K : held[k] # 0
    /\ held' = [k \in Key |-> IF k \in K THEN 0 ELSE held[k]]
    /\ UNCHANGED <<highest, published>>

(* The holder stores its result and gives the lease back. *)
Publish(k) ==
    /\ held[k] # 0
    /\ published' = [published EXCEPT ![k] = held[k]]
    /\ held' = [held EXCEPT ![k] = 0]
    /\ UNCHANGED highest

Next ==
    \/ \E k \in Key : Acquire(k) \/ Publish(k)
    \/ \E K \in SUBSET Key : Drop(K)

Spec == Init /\ [][Next]_vars

=============================================================================
