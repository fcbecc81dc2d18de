---------------------------- MODULE SqlLeaseStore ----------------------------
(***************************************************************************)
(* The SQL store (internal/lease/sqlstore): replicas open the database and *)
(* bring its schema up to date, then run the Store's operations as         *)
(* transactions over a pool of connections.  The compare-and-swap of Put   *)
(* is a statement's own condition, and the count of affected rows is its   *)
(* outcome.  The database locks the rows a transaction has written until   *)
(* it ends, and lets a statement see committed rows only.                  *)
(***************************************************************************)
EXTENDS Integers, FiniteSets

CONSTANTS
  Key, Holder, NoHolder,
  Replica, Call,
  None,         \* no call, no row
  Milli,        \* time.Millisecond in the model's unit of time
  Resolution,   \* what timeValue truncates to: a microsecond, or 1 for SQLite
  Locs,         \* offsets from UTC of the loc parameter in a DSN
  Pool,         \* connections of a replica: 1 for SQLite
  MaxCalls, MaxStarts   \* bounds of the model

ASSUME SqlAssumption ==
  /\ NoHolder \notin Holder /\ None \notin Call
  /\ Milli \in Nat \ {0} /\ Resolution \in Nat \ {0}
  /\ Locs \subseteq Int /\ Pool \in Nat \ {0}
  /\ MaxCalls \in Nat /\ MaxStarts \in Nat

VARIABLES
  columns,  \* the table: "none", "legacy" (without the version column), "current"
  row,      \* the committed row of each key
  lock,     \* the call whose open transaction has written each key
  replica,  \* state of each process
  call,     \* state of each operation
  calls, starts

vars == <<columns, row, lock, replica, call, calls, starts>>

-----------------------------------------------------------------------------
NoRow == [version |-> 0]

\* A zoneless column holds the local time of the DSN's loc.
timeValue(t, loc) == (t \div Resolution) * Resolution + loc

\* The values of the insert, which stores version 1, and of the update, which
\* increments the version.
recordArgs(r, loc, version) ==
  [holder |-> r.holder, ttlMS |-> r.ttl \div Milli,
   acquiredAt |-> timeValue(r.acquiredAt, loc), renewedAt |-> timeValue(r.renewedAt, loc),
   token |-> r.token, version |-> version]

NoRecord == [holder |-> NoHolder, ttl |-> 0, acquiredAt |-> 0,
             renewedAt |-> 0, token |-> 0, version |-> 0]

\* What a replica in UTC reads back; NoRecord stands for ErrNotFound.
scanRecord(w) ==
  IF w = NoRow THEN NoRecord
  ELSE [holder |-> w.holder, ttl |-> w.ttlMS * Milli, acquiredAt |-> w.acquiredAt,
        renewedAt |-> w.renewedAt, token |-> w.token, version |-> w.version]

-----------------------------------------------------------------------------
(* New: a process opens the database.  An error of any step, like the end   *)
(* of the process, is Crash below.                                         *)

Down == [pc |-> "down", loc |-> 0]
Goto(p, pc) == replica' = [replica EXCEPT ![p].pc = pc]
SameData == UNCHANGED <<row, lock, call, calls>>

\* Mutant: any loc will do.
normalizeAny(loc) == TRUE

\* normalizeMySQLDSN
normalizeMySQLDSN(loc) == loc = 0

Start(p) ==
  /\ replica[p].pc = "down" /\ starts < MaxStarts
  /\ starts' = starts + 1
  /\ \E loc \in Locs, migrate \in BOOLEAN :
       replica' = [replica EXCEPT ![p] =
         IF ~normalizeMySQLDSN(loc) THEN Down
         ELSE [pc |-> IF migrate THEN "schema" ELSE "verify", loc |-> loc]]
  /\ SameData /\ UNCHANGED columns

\* The transaction of migrate: CREATE TABLE IF NOT EXISTS.
Migrate(p) ==
  /\ replica[p].pc = "schema"
  /\ columns' = IF columns = "none" THEN "current" ELSE columns
  /\ Goto(p, "alter")
  /\ SameData /\ UNCHANGED starts

\* Mutant: the alterations run while the transaction is still open.
AlterInside(p) ==
  /\ replica[p].pc = "alter"
  /\ Pool > 1
  /\ \A k \in Key : lock[k] = None
  /\ columns' = "current"
  /\ Goto(p, "serve")
  /\ SameData /\ UNCHANGED starts

\* The alterations follow outside of that transaction, once no other one holds
\* a lock; a column that exists already is no error.
Alter(p) ==
  /\ replica[p].pc = "alter"
  /\ \A k \in Key : lock[k] = None
  /\ columns' = "current"
  /\ Goto(p, "serve")
  /\ SameData /\ UNCHANGED starts

verifySchema(p) ==
  /\ replica[p].pc = "verify"
  /\ IF columns = "current" THEN Goto(p, "serve") ELSE replica' = [replica EXCEPT ![p] = Down]
  /\ SameData /\ UNCHANGED <<columns, starts>>

-----------------------------------------------------------------------------
(* Get, List and Put as transactions                                       *)

Resting(res) == [pc |-> "idle", res |-> res]
Of(p) == {c \in Call : call[c].pc # "idle" /\ call[c].at = p}
Open(p) == {c \in Of(p) : call[c].pc # "begin"}
Locked(c) == {k \in Key : lock[k] = c}

Begin(c, p) ==
  /\ replica[p].pc = "serve" /\ call[c].pc = "idle" /\ calls < MaxCalls
  /\ calls' = calls + 1
  /\ \E k \in Key, expected \in -1 .. 2, h \in Holder \cup {NoHolder} :
       /\ expected <= scanRecord(row[k]).version
       /\ call' = [call EXCEPT ![c] =
            [pc |-> "begin", at |-> p, key |-> k, expected |-> expected,
             rec |-> [holder |-> h, ttl |-> Milli, acquiredAt |-> 0,
                      renewedAt |-> (calls + 1) * Resolution + Resolution - 1,
                      token |-> 1, version |-> 0]]]
  /\ UNCHANGED <<columns, row, lock, replica, starts>>

\* Mutant: a transaction needs a second connection.
BeginTxReserved(c) ==
  /\ call[c].pc = "begin"
  /\ Cardinality(Open(call[c].at)) + 1 < Pool
  /\ call' = [call EXCEPT ![c].pc = IF call[c].expected = -1 THEN "read" ELSE "exec"]
  /\ UNCHANGED <<columns, row, lock, replica, calls, starts>>

\* BeginTx takes a connection of the pool; a read has no expected version.
BeginTx(c) ==
  /\ call[c].pc = "begin"
  /\ Cardinality(Open(call[c].at)) < Pool
  /\ call' = [call EXCEPT ![c].pc = IF call[c].expected = -1 THEN "read" ELSE "exec"]
  /\ UNCHANGED <<columns, row, lock, replica, calls, starts>>

\* Mutant: a transaction is left open.
EndWithoutRollback(c, res) ==
  /\ call' = [call EXCEPT ![c] = Resting(res)]
  /\ UNCHANGED <<lock, columns, replica, calls, starts>>

\* The transaction ends and its locks and connection are free again.
End(c, res) ==
  /\ call' = [call EXCEPT ![c] = Resting(res)]
  /\ lock' = [k \in Key |-> IF lock[k] = c THEN None ELSE lock[k]]
  /\ UNCHANGED <<columns, replica, calls, starts>>

Read(c) == call[c].pc = "read" /\ End(c, "nil") /\ UNCHANGED row

\* Mutant: the insert replaces a row that exists.
AffectsUpsert(c) ==
  LET w == row[call[c].key]
  IN call[c].expected = 0 \/ (w # NoRow /\ w.version = call[c].expected)

\* The insert finds no row, the update a row of the expected version.
Affects(c) ==
  LET w == row[call[c].key]
  IN IF call[c].expected = 0 THEN w = NoRow ELSE w # NoRow /\ w.version = call[c].expected

\* ExecContext waits for a transaction that has written the row.  Nothing
\* affected, a duplicate key included, is ErrConflict and rolls back.
Exec(c) ==
  /\ call[c].pc = "exec" /\ lock[call[c].key] = None
  /\ \/ /\ Affects(c)
        /\ lock' = [lock EXCEPT ![call[c].key] = c]
        /\ call' = [call EXCEPT ![c].pc = "commit"]
        /\ UNCHANGED <<columns, replica, calls, starts>>
     \/ ~Affects(c) /\ End(c, "conflict")
  /\ UNCHANGED row

\* The commit may take effect and its answer be lost.
Commit(c) ==
  /\ call[c].pc = "commit"
  /\ row' = [row EXCEPT ![call[c].key] =
       recordArgs(call[c].rec, replica[call[c].at].loc,
                  IF call[c].expected = 0 THEN 1 ELSE @.version + 1)]
  /\ \E res \in {"nil", "error"} : End(c, res)

\* An error before the commit, or a canceled context: the transaction is
\* rolled back.
Rollback(c) == call[c].pc # "idle" /\ End(c, "error") /\ UNCHANGED row

\* A process dies at any time; the database ends its transactions.
Crash(p) ==
  /\ replica[p].pc # "down"
  /\ replica' = [replica EXCEPT ![p] = Down]
  /\ call' = [c \in Call |-> IF c \in Of(p) THEN Resting("error") ELSE call[c]]
  /\ lock' = [k \in Key |-> IF lock[k] \in Of(p) THEN None ELSE lock[k]]
  /\ UNCHANGED <<columns, row, calls, starts>>

Quiet ==
  /\ \A p \in Replica : replica[p].pc \in {"down", "serve"}
  /\ \A c \in Call : call[c].pc = "idle"
  /\ UNCHANGED vars

-----------------------------------------------------------------------------
\* A row from before the version column reads as the default of its ALTER.
LegacyRow(h) == [holder |-> h, ttlMS |-> 1, acquiredAt |-> 0, renewedAt |-> 0,
                 token |-> 1, version |-> 1]

Init ==
  /\ \/ columns \in {"none", "current"} /\ row = [k \in Key |-> NoRow]
     \/ columns = "legacy" /\ \E h \in Holder : row = [k \in Key |-> LegacyRow(h)]
  /\ lock = [k \in Key |-> None]
  /\ replica = [p \in Replica |-> Down]
  /\ call = [c \in Call |-> Resting("none")]
  /\ calls = 0 /\ starts = 0

StartStep(p) == Migrate(p) \/ Alter(p) \/ verifySchema(p)
Step(c) == BeginTx(c) \/ Read(c) \/ Exec(c) \/ Commit(c) \/ Rollback(c)

Next ==
  \/ \E p \in Replica : Start(p) \/ StartStep(p) \/ Crash(p)
  \/ \E c \in Call : Step(c) \/ \E p \in Replica : Begin(c, p)
  \/ Quiet

Spec == Init /\ [][Next]_vars

\* A goroutine is scheduled and the driver's call returns, if only in error.
FairSpec ==
  /\ Spec
  /\ \A c \in Call : WF_vars(BeginTx(c) \/ Read(c) \/ Exec(c) \/ Commit(c))
  /\ \A p \in Replica : WF_vars(StartStep(p))

-----------------------------------------------------------------------------
Contract == INSTANCE LeaseStore WITH store <- [k \in Key |-> scanRecord(row[k])]

\* The table has its types, and whoever serves finds every column.
TypeOK ==
  /\ columns \in {"none", "legacy", "current"}
  /\ \A k \in Key : scanRecord(row[k]) \in Contract!Record
  /\ lock \in [Key -> Call \cup {None}]
  /\ \A p \in Replica : replica[p].pc = "serve" => columns = "current"

\* Store's contract: what Get shows changes one record at a time and one
\* version up, whatever transactions overlap, roll back or lose their answer,
\* and whoever migrates the table meanwhile.
ImplementsStore ==
  [][Contract!StoreNext]_[k \in Key |-> scanRecord(row[k])]

\* Put answers nil only when its own record has just been stored, to be read
\* back with the granted TTL and an expiry that is not later; and ErrConflict
\* only when the record had another version than expected.
PutAnswersExactly ==
  [][\A c \in Call :
       (call[c].pc \in {"exec", "commit"} /\ call'[c].pc = "idle") =>
         LET r == scanRecord(row'[call[c].key])
             w == call[c].rec
         IN /\ call'[c].res = "nil" =>
                 /\ r.renewedAt \in w.renewedAt - Resolution + 1 .. w.renewedAt
                 /\ r.holder = w.holder /\ r.ttl = w.ttl /\ r.token = w.token
                 /\ r.version = call[c].expected + 1
            /\ call'[c].res = "conflict" =>
                 /\ r.version # call[c].expected
                 /\ row' = row]_vars

\* Every operation returns: waiting for a connection or for another
\* transaction's row lock never lasts for ever.
EveryCallReturns == \A c \in Call : (call[c].pc # "idle") ~> (call[c].pc = "idle")

\* Every start ends in service or in an error, with a single connection too.
EveryStartEnds ==
  \A p \in Replica : (replica[p].pc \in {"schema", "alter", "verify"})
                       ~> (replica[p].pc \in {"down", "serve"})
=============================================================================
