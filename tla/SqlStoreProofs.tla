---------------------------- MODULE SqlStoreProofs ----------------------------
(***************************************************************************)
(* The SQL store implements the Store contract, for any number of keys,    *)
(* replicas, calls and connections.  The invariant says why a commit is    *)
(* safe: the row lock taken by the statement keeps the statement's         *)
(* condition true until the transaction ends.                              *)
(***************************************************************************)
EXTENDS SqlLeaseStore, TLAPS

Row == [holder : Holder \cup {NoHolder}, ttlMS : Nat, acquiredAt : Int,
        renewedAt : Int, token : Nat, version : Nat \ {0}]

Idle == [pc : {"idle"}, res : {"none", "nil", "conflict", "error"}]

Busy == [pc : {"begin", "read", "exec", "commit"}, at : Replica, key : Key,
         expected : Int, rec : Contract!Record]

Types ==
  /\ columns \in {"none", "legacy", "current"}
  /\ row \in [Key -> {NoRow} \cup Row]
  /\ lock \in [Key -> Call \cup {None}]
  /\ replica \in [Replica -> [pc : {"down", "schema", "alter", "verify", "serve"}, loc : {0}]]
  /\ call \in [Call -> Idle \cup Busy]
  /\ calls \in Nat

Serving == \A p \in Replica : replica[p].pc = "serve" => columns = "current"

\* A write that waits for its commit has locked a row that still meets its
\* condition ...
WritesLocked ==
  \A c \in Call : call[c].pc = "commit" => lock[call[c].key] = c /\ Affects(c)

\* ... and nothing else has locked one.
LocksUsed ==
  \A k \in Key : lock[k] # None => call[lock[k]].pc = "commit" /\ call[lock[k]].key = k

\* What Put was given.
Given ==
  \A c \in Call : call[c].pc # "idle" =>
    /\ call[c].expected >= -1 /\ call[c].rec.ttl = Milli
    /\ call[c].pc \in {"exec", "commit"} => call[c].expected # -1

IInv == Types /\ Serving /\ WritesLocked /\ LocksUsed /\ Given

-----------------------------------------------------------------------------
\* The conditional statement's values form a row one version up.
LEMMA RowWritten ==
  ASSUME NEW r \in Contract!Record, NEW loc \in Int, NEW v \in Nat \ {0}
  PROVE  recordArgs(r, loc, v) \in Row
<1>1. \A t \in Int : timeValue(t, loc) \in Int
  BY SqlAssumption DEF timeValue
<1>2. r.ttl \div Milli \in Nat
  BY SqlAssumption DEF Contract!Record
<1> QED BY <1>1, <1>2, Zenon DEF recordArgs, Row, Contract!Record

\* What scanRecord answers for a row is a record of the contract.
LEMMA ScanTyped ==
  ASSUME NEW w \in {NoRow} \cup Row
  PROVE  scanRecord(w) \in Contract!Record
<1>1. CASE w = NoRow
  BY <1>1 DEF scanRecord, NoRecord, Contract!Record
<1>2. CASE w # NoRow
  <2>1. w.ttlMS * Milli \in Nat
    BY <1>2, SqlAssumption DEF Row
  <2> QED BY <1>2, <2>1, Zenon DEF scanRecord, Contract!Record, Row
<1> QED BY <1>1, <1>2, Zenon

\* The table's first state meets the invariant.
LEMMA InitInv == Init => IInv
<1> SUFFICES ASSUME Init PROVE IInv
  OBVIOUS
<1>1. Types
  BY DEF Init, Types, Row, Idle, Down, Resting, LegacyRow, NoRow
<1>2. Serving /\ WritesLocked /\ LocksUsed
  BY Zenon DEF Init, Serving, WritesLocked, LocksUsed, Down, Resting
<1>3. Given
  BY Zenon DEF Init, Given, Resting
<1> QED BY <1>1, <1>2, <1>3, Zenon DEF IInv

\* The end of a transaction frees its own locks and leaves the others.
LEMMA EndInv ==
  ASSUME IInv, NEW c \in Call, NEW res \in {"nil", "conflict", "error"}, End(c, res),
         row' \in [Key -> {NoRow} \cup Row],
         \A k \in Key : lock[k] # c => row'[k] = row[k]
  PROVE  IInv'
<1> USE DEF IInv
<1>1. Types'
  BY Zenon DEF Types, End, Resting, Idle
<1>2. Serving'
  BY Zenon DEF Serving, End
<1>3. WritesLocked'
  <2> SUFFICES ASSUME NEW d \in Call, call'[d].pc = "commit"
               PROVE  lock'[call'[d].key] = d /\ Affects(d)'
    BY Zenon DEF WritesLocked
  <2>1. d # c /\ call'[d] = call[d]
    BY Zenon DEF End, Resting, Types
  <2>2. call[d].key \in Key /\ lock[call[d].key] = d /\ Affects(d)
    BY <2>1, Zenon DEF WritesLocked, Types, Idle, Busy
  <2> QED BY <2>1, <2>2, Zenon DEF End, Affects, Types
<1>4. LocksUsed'
  BY SqlAssumption DEF LocksUsed, End, Types
<1>5. Given'
  BY Zenon DEF Given, End, Resting, Types
<1> QED BY <1>1, <1>2, <1>3, <1>4, <1>5, Zenon

\* A committed row is the next version of the one its statement found.
LEMMA CommitRow ==
  ASSUME IInv, NEW c \in Call, Commit(c)
  PROVE  LET k == call[c].key
         IN /\ k \in Key /\ lock[k] = c
            /\ row'[k] \in Row /\ row' = [row EXCEPT ![k] = row'[k]]
            /\ row'[k].version = call[c].expected + 1
            /\ scanRecord(row[k]).version = call[c].expected
            /\ row'[k] = recordArgs(call[c].rec, 0, call[c].expected + 1)
<1> DEFINE k == call[c].key
<1> DEFINE v == IF call[c].expected = 0 THEN 1 ELSE row[k].version + 1
<1>1. call[c] \in Busy /\ call[c].pc = "commit"
  BY Zenon DEF IInv, Types, Commit, Idle
<1>2. k \in Key /\ lock[k] = c /\ Affects(c) /\ row[k] \in {NoRow} \cup Row
  BY <1>1, Zenon DEF IInv, WritesLocked, Types, Busy
<1>3. v = call[c].expected + 1 /\ v \in Nat \ {0} /\ scanRecord(row[k]).version = call[c].expected
  <2>1. CASE call[c].expected = 0
    BY <1>2, <2>1 DEF Affects, scanRecord, NoRecord
  <2>2. CASE call[c].expected # 0
    <3>1. row[k] # NoRow /\ row[k] \in Row /\ row[k].version = call[c].expected
      BY <1>2, <2>2, Zenon DEF Affects
    <3>2. row[k].version \in Nat \ {0}
      BY <3>1, Zenon DEF Row
    <3> QED BY <2>2, <3>1, <3>2 DEF scanRecord
  <2> QED BY <2>1, <2>2, Zenon
<1>4. replica[call[c].at].loc = 0
  BY <1>1, Zenon DEF IInv, Types, Busy
<1>5. row' = [row EXCEPT ![k] = recordArgs(call[c].rec, 0, v)]
  BY <1>4, <1>2, Zenon DEF Commit
<1>6. recordArgs(call[c].rec, 0, v) \in Row
  <2>1. call[c].rec \in Contract!Record
    BY <1>1, Zenon DEF Busy
  <2> HIDE DEF v
  <2> QED BY <1>3, <2>1, RowWritten
<1>7. row'[k] = recordArgs(call[c].rec, 0, v) /\ row'[k].version = v
  BY <1>2, <1>5, Zenon DEF IInv, Types, recordArgs
<1> QED BY <1>2, <1>3, <1>5, <1>6, <1>7, Zenon

\* Every step of a call keeps the invariant.
LEMMA StepInv ==
  ASSUME IInv, NEW c \in Call, Step(c)
  PROVE  IInv'
<1>1. CASE BeginTx(c)
  <2>1. call[c] \in Busy /\ call[c].pc = "begin"
    BY <1>1, Zenon DEF BeginTx, IInv, Types, Idle
  <2>2. \A d \in Call : d # c => call'[d] = call[d]
    BY <1>1, Zenon DEF BeginTx, IInv, Types
  <2>3. call' \in [Call -> Idle \cup Busy] /\ call'[c].pc \in {"read", "exec"}
        /\ call'[c].expected = call[c].expected /\ call'[c].rec = call[c].rec
        /\ (call'[c].pc = "exec" => call[c].expected # -1)
    BY <1>1, <2>1, Zenon DEF BeginTx, IInv, Types, Busy
  <2>4. Types' /\ Serving'
    BY <1>1, <2>3, Zenon DEF BeginTx, IInv, Types, Serving
  <2>5. WritesLocked'
    BY <1>1, <2>2, <2>3, Zenon DEF BeginTx, IInv, WritesLocked, Affects
  <2>6. LocksUsed'
    BY <1>1, <2>1, <2>2, <2>3 DEF BeginTx, IInv, LocksUsed, Types
  <2>7. Given'
    BY <2>1, <2>2, <2>3, Zenon DEF IInv, Given
  <2> QED BY <2>4, <2>5, <2>6, <2>7, Zenon DEF IInv
<1>2. CASE Read(c) \/ Rollback(c)
  <2>1. \E res \in {"nil", "error"} : End(c, res) /\ row' = row
    BY <1>2, Zenon DEF Read, Rollback
  <2> QED BY <2>1, EndInv, Zenon DEF IInv, Types
<1>3. CASE Exec(c)
  <2>1. CASE ~Affects(c) /\ End(c, "conflict") /\ row' = row
    BY <2>1, EndInv, Zenon DEF IInv, Types
  <2>2. CASE /\ Affects(c)
             /\ lock' = [lock EXCEPT ![call[c].key] = c]
             /\ call' = [call EXCEPT ![c].pc = "commit"]
             /\ UNCHANGED <<columns, replica, calls, starts, row>>
    <3>1. call[c] \in Busy /\ call[c].pc = "exec" /\ call[c].key \in Key
          /\ lock[call[c].key] = None
      BY <1>3, Zenon DEF Exec, IInv, Types, Idle, Busy
    <3>2. \A d \in Call : d # c => call'[d] = call[d]
      BY <2>2, Zenon DEF IInv, Types
    <3>3. call' \in [Call -> Idle \cup Busy] /\ call'[c].pc = "commit"
          /\ call'[c].key = call[c].key /\ call'[c].expected = call[c].expected
          /\ call'[c].rec = call[c].rec
      BY <2>2, <3>1, Zenon DEF IInv, Types, Busy
    <3>4. Types' /\ Serving'
      BY <2>2, <3>1, <3>3, Zenon DEF IInv, Types, Serving
    <3>5. WritesLocked'
      BY <2>2, <3>1, <3>2, <3>3, SqlAssumption DEF IInv, WritesLocked, Affects, Types, Busy, Idle
    <3>6. LocksUsed'
      BY <2>2, <3>1, <3>2, <3>3 DEF IInv, LocksUsed, Types
    <3>7. Given'
      BY <3>1, <3>2, <3>3, Zenon DEF IInv, Given
    <3> QED BY <3>4, <3>5, <3>6, <3>7, Zenon DEF IInv
  <2> QED BY <1>3, <2>1, <2>2, Zenon DEF Exec
<1>4. CASE Commit(c)
  <2>1. row' \in [Key -> {NoRow} \cup Row] /\ \A k \in Key : lock[k] # c => row'[k] = row[k]
    BY <1>4, CommitRow DEF IInv, Types
  <2>2. PICK res \in {"nil", "error"} : End(c, res)
    BY <1>4, Zenon DEF Commit
  <2> QED BY <2>1, <2>2, EndInv, Zenon
<1> QED BY <1>1, <1>2, <1>3, <1>4, Zenon DEF Step

\* A new call changes nothing that others rely on.
LEMMA BeginInv ==
  ASSUME IInv, NEW c \in Call, NEW p \in Replica, Begin(c, p)
  PROVE  IInv'
<1> PICK k \in Key, expected \in -1 .. 2, h \in Holder \cup {NoHolder} :
       call' = [call EXCEPT ![c] =
         [pc |-> "begin", at |-> p, key |-> k, expected |-> expected,
          rec |-> [holder |-> h, ttl |-> Milli, acquiredAt |-> 0,
                   renewedAt |-> (calls + 1) * Resolution + Resolution - 1,
                   token |-> 1, version |-> 0]]]
  BY Zenon DEF Begin
<1>1. (calls + 1) * Resolution + Resolution - 1 \in Int
  BY SqlAssumption DEF IInv, Types
<1>2. call'[c] \in Busy /\ call'[c].pc = "begin" /\ call'[c].expected >= -1
      /\ call'[c].rec.ttl = Milli
  BY <1>1, SqlAssumption DEF IInv, Types, Busy, Contract!Record
<1>3. \A d \in Call : d # c => call'[d] = call[d]
  BY Zenon DEF IInv, Types
<1>4. Types' /\ Serving'
  BY <1>2 DEF Begin, IInv, Types, Serving
<1>5. WritesLocked'
  BY <1>2, <1>3 DEF Begin, IInv, WritesLocked, Affects
<1>6. LocksUsed'
  BY <1>3 DEF Begin, IInv, LocksUsed, Types
<1>7. Given'
  BY <1>2, <1>3, Zenon DEF IInv, Given
<1> QED BY <1>4, <1>5, <1>6, <1>7, Zenon DEF IInv

\* Processes open the database and die without touching a row or another's
\* transaction.
LEMMA ReplicaInv ==
  ASSUME IInv, NEW p \in Replica, Start(p) \/ StartStep(p) \/ Crash(p)
  PROVE  IInv'
<1>1. CASE Start(p) \/ StartStep(p)
  <2>1. UNCHANGED <<row, lock, call, calls>>
    BY <1>1, Zenon DEF Start, StartStep, Migrate, Alter, verifySchema, SameData
  <2>2. Types' /\ Serving'
    <3>1. CASE Start(p)
      BY <3>1, <2>1 DEF Start, IInv, Types, Serving, Down, normalizeMySQLDSN
    <3>2. CASE Migrate(p)
      BY <3>2, <2>1, Zenon DEF Migrate, IInv, Types, Serving, Goto
    <3>3. CASE Alter(p)
      BY <3>3, <2>1, Zenon DEF Alter, IInv, Types, Serving, Goto
    <3>4. CASE verifySchema(p)
      BY <3>4, <2>1 DEF verifySchema, IInv, Types, Serving, Goto, Down
    <3> QED BY <1>1, <3>1, <3>2, <3>3, <3>4, Zenon DEF StartStep
  <2> QED BY <2>1, <2>2, Zenon DEF IInv, WritesLocked, LocksUsed, Given, Affects
<1>2. CASE Crash(p)
  <2>1. \A c \in Call : call'[c] = (IF c \in Of(p) THEN Resting("error") ELSE call[c])
    BY <1>2, Zenon DEF Crash
  <2>2. Types' /\ Serving'
    BY <1>2, Zenon DEF Crash, IInv, Types, Serving, Down, Resting, Idle
  <2>3. WritesLocked'
    BY <1>2, <2>1 DEF Crash, IInv, WritesLocked, Affects, Resting, Types, Idle, Busy
  <2>4. LocksUsed'
    BY <1>2, <2>1, SqlAssumption DEF Crash, IInv, LocksUsed, Types
  <2>5. Given'
    BY <2>1 DEF IInv, Given, Resting
  <2> QED BY <2>2, <2>3, <2>4, <2>5, Zenon DEF IInv
<1> QED BY <1>1, <1>2, Zenon

\* The invariant holds in every reachable state.
THEOREM Invariance == Spec => []IInv
<1>1. IInv /\ [Next]_vars => IInv'
  <2> SUFFICES ASSUME IInv, [Next]_vars PROVE IInv'
    OBVIOUS
  <2>1. CASE UNCHANGED vars
    BY <2>1, Zenon DEF vars, IInv, Types, Serving, WritesLocked, LocksUsed, Given, Affects
  <2>2. CASE Next
    BY <2>1, <2>2, StepInv, BeginInv, ReplicaInv, Zenon DEF Next, Quiet
  <2> QED BY <2>1, <2>2, Zenon
<1> QED BY <1>1, InitInv, PTL DEF Spec

\* The table always has its types, and a replica that serves has its columns
\* (migrate, verifySchema).
THEOREM TypeCorrect == Spec => []TypeOK
<1>1. IInv => TypeOK
  BY ScanTyped, Zenon DEF IInv, Types, Serving, TypeOK
<1> QED BY <1>1, Invariance, PTL

\* A committed transaction of Put is one accepted Put of the Store contract,
\* and nothing else that a replica does shows in the records: the SQL store
\* implements LeaseStore.
THEOREM StoreRefinement == Spec => ImplementsStore
<1> DEFINE shown == [k \in Key |-> scanRecord(row[k])]
<1>1. IInv /\ [Next]_vars => [Contract!StoreNext]_shown
  <2> SUFFICES ASSUME IInv, [Next]_vars, row' # row
               PROVE  Contract!StoreNext
    BY Zenon DEF shown
  <2>1. PICK c \in Call : Commit(c)
    BY Zenon DEF Next, vars, Quiet, Step, BeginTx, Read, Exec, Rollback, Begin,
           Start, StartStep, Migrate, Alter, verifySchema, SameData, Crash
  <2> DEFINE k == call[c].key
  <2>2. /\ k \in Key /\ row'[k] \in Row /\ row' = [row EXCEPT ![k] = row'[k]]
        /\ row'[k].version = scanRecord(row[k]).version + 1
    BY <2>1, CommitRow, Zenon
  <2>3. shown' = [shown EXCEPT ![k] = shown'[k]]
    BY <2>2, Zenon DEF IInv, Types
  <2>4. shown'[k] \in Contract!Record
    BY <2>2, ScanTyped, Zenon
  <2>5. shown'[k].version = shown[k].version + 1
    BY <2>2 DEF scanRecord, Row, NoRow
  <2> QED BY <2>2, <2>3, <2>4, <2>5, Zenon DEF Contract!StoreNext
<1> QED BY <1>1, Invariance, PTL DEF Spec, ImplementsStore

\* timeValue and the whole milliseconds of a TTL lose less than a unit.
LEMMA Rounding ==
  ASSUME NEW t \in Int
  PROVE  /\ timeValue(t, 0) \in t - Resolution + 1 .. t
         /\ (Milli \div Milli) * Milli = Milli
<1>1. \A n \in Int, d \in Nat \ {0} : (n \div d) * d \in n - d + 1 .. n
  OBVIOUS
<1>2. timeValue(t, 0) \in t - Resolution + 1 .. t
  BY <1>1, SqlAssumption DEF timeValue
<1>3. Milli \div Milli = 1
  BY SqlAssumption
<1> QED BY <1>2, <1>3, SqlAssumption

\* Put's answers are exact: nil for a record that has just been stored and reads
\* back as granted, ErrConflict for a version that was not the expected one.
THEOREM ExactAnswers == Spec => PutAnswersExactly
<1> DEFINE
      exact(c) ==
        LET r == scanRecord(row'[call[c].key])
            w == call[c].rec
        IN /\ call'[c].res = "nil" =>
                /\ r.renewedAt \in w.renewedAt - Resolution + 1 .. w.renewedAt
                /\ r.holder = w.holder /\ r.ttl = w.ttl /\ r.token = w.token
                /\ r.version = call[c].expected + 1
           /\ call'[c].res = "conflict" =>
                /\ r.version # call[c].expected
                /\ row' = row
<1>1. IInv /\ [Next]_vars =>
        [\A c \in Call :
           (call[c].pc \in {"exec", "commit"} /\ call'[c].pc = "idle") => exact(c)]_vars
  <2> SUFFICES ASSUME IInv, Next, NEW c \in Call,
                      call[c].pc \in {"exec", "commit"}, call'[c].pc = "idle"
               PROVE  exact(c)
    OBVIOUS
  <2>1. call[c] \in Busy /\ call[c].key \in Key /\ call[c].rec.ttl = Milli
    BY Zenon DEF IInv, Types, Idle, Busy, Given
  <2>2. (\E res \in {"error"} : call'[c] = Resting(res)) \/ Exec(c) \/ Commit(c)
    <3>1. CASE \E p \in Replica : Start(p) \/ StartStep(p) \/ Crash(p)
      BY <3>1, Zenon DEF Start, StartStep, Migrate, Alter, verifySchema, SameData, Crash
    <3>2. CASE \E d \in Call : d # c /\ (Step(d) \/ \E p \in Replica : Begin(d, p))
      BY <3>2 DEF Step, BeginTx, Read, Exec, Commit, Rollback, End, Begin, IInv, Types
    <3>3. CASE Step(c) \/ \E p \in Replica : Begin(c, p)
      BY <3>3, Zenon DEF Step, BeginTx, Read, Rollback, End, Begin, IInv, Types
    <3>4. CASE Quiet
      BY <3>4, Zenon DEF Quiet, vars
    <3> QED BY <3>1, <3>2, <3>3, <3>4, Zenon DEF Next
  <2>3. CASE call'[c] = Resting("error")
    BY <2>3 DEF Resting
  <2>4. CASE Exec(c)
    <3>1. ~Affects(c) /\ call'[c] = Resting("conflict") /\ row' = row
      BY <2>1, <2>4 DEF Exec, End, IInv, Types, Busy
    <3>2. row[call[c].key] \in {NoRow} \cup Row
      BY <2>1, Zenon DEF IInv, Types
    <3>3. scanRecord(row[call[c].key]).version # call[c].expected
      BY <3>1, <3>2, Zenon DEF Affects, scanRecord, NoRecord, Row, NoRow
    <3> QED BY <3>1, <3>3 DEF Resting
  <2>5. CASE Commit(c)
    <3> DEFINE v == call[c].expected + 1
    <3>1. row'[call[c].key] = recordArgs(call[c].rec, 0, v) /\ v \in Nat \ {0}
      BY <2>5, CommitRow, Zenon DEF Row
    <3>2. call'[c] = Resting("nil") \/ call'[c] = Resting("error")
      BY <2>5, Zenon DEF Commit, End, IInv, Types
    <3>3. row'[call[c].key] # NoRow
      BY <3>1 DEF recordArgs, NoRow
    <3>4. call[c].rec.renewedAt \in Int
      BY <2>1, Zenon DEF Busy, Contract!Record
    <3>5. timeValue(call[c].rec.renewedAt, 0)
            \in call[c].rec.renewedAt - Resolution + 1 .. call[c].rec.renewedAt
      BY <3>4, Rounding, Zenon
    <3>6. (call[c].rec.ttl \div Milli) * Milli = call[c].rec.ttl
      BY <2>1, Rounding, <3>4, Zenon
    <3> QED BY <3>1, <3>2, <3>3, <3>5, <3>6, SMTT(60) DEF scanRecord, recordArgs, Resting
  <2> QED BY <2>2, <2>3, <2>4, <2>5, Zenon
<1> QED BY <1>1, Invariance, PTL DEF Spec, PutAnswersExactly
=============================================================================
