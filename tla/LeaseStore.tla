------------------------------ MODULE LeaseStore ------------------------------
(***************************************************************************)
(* The persistence contract of internal/lease/store.go: one record per     *)
(* key, read by Get, written only by a compare-and-swap on the record's    *)
(* version, never deleted.  memstore.go implements it with a mutex, the    *)
(* SQL store with a conditional UPDATE in a transaction.                   *)
(***************************************************************************)
EXTENDS Integers

CONSTANTS
  Key,        \* lease keys (namespace, name)
  Holder,     \* non-empty holder identities
  NoHolder    \* the empty holder, which marks a tombstone

ASSUME HolderAssumption == NoHolder \notin Holder

VARIABLE store   \* the record of every key; version 0 stands for "no record"

Record == [holder : Holder \cup {NoHolder}, ttl : Nat, acquiredAt : Int,
           renewedAt : Int, token : Nat, version : Nat]

NoRecord == [holder |-> NoHolder, ttl |-> 0, acquiredAt |-> 0,
             renewedAt |-> 0, token |-> 0, version |-> 0]

ExpiresAt(r) == r.renewedAt + r.ttl

\* Mutant: the instant of expiry counts as expired.
ExpiredAtDeadline(r, now) == now >= ExpiresAt(r)

Expired(r, now) == now > ExpiresAt(r)

Tombstone(r) == r.holder = NoHolder

\* Get answers ErrNotFound exactly for a record that Exists denies.
Exists(r) == r.version # 0

-----------------------------------------------------------------------------
\* Mutant: only creates are conditional.
PutAcceptsBlindly(k, expected) == Exists(store[k]) <=> expected # 0

\* The predicate of Put.  A create expects version 0, which only an absent
\* record has.
PutAccepts(k, expected) == store[k].version = expected

\* The record after a successful Put: the caller's version is ignored.
Stored(r, expected) == [r EXCEPT !.version = expected + 1]

\* The effect of a Put whose predicate held.
PutWrites(k, expected, r) ==
  /\ PutAccepts(k, expected)
  /\ store' = [store EXCEPT ![k] = Stored(r, expected)]

-----------------------------------------------------------------------------
StoreTypeOK == store \in [Key -> Record]

StoreInit == store = [k \in Key |-> NoRecord]

StoreNext ==
  \E k \in Key :
    /\ store' = [store EXCEPT ![k] = store'[k]]
    /\ store'[k] \in Record
    /\ store'[k].version = store[k].version + 1

\* What every backend promises: each change of the stored records is one
\* accepted Put of one key.
StoreSpec == StoreInit /\ [][StoreNext]_store
=============================================================================
