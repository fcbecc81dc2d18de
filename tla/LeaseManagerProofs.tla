-------------------------- MODULE LeaseManagerProofs --------------------------
(***************************************************************************)
(* Proofs that the lease manager keeps its safety properties for any       *)
(* number of keys, holders, requests and sweepers, any TTLs, grace window, *)
(* clock skew and token ceiling.                                           *)
(*                                                                         *)
(* The argument: whatever a step does, it leaves the record and history of *)
(* a key alone, or it appends one write that the stored record justifies   *)
(* (KeyStep).  The first half shows that every action is such a step,      *)
(* which needs CallInv and SweepInv; the second that such steps preserve   *)
(* the invariants of a key.                                                *)
(***************************************************************************)
EXTENDS LeaseManager, TLAPS

Kept(k) ==
  /\ store'[k] = store[k]
  /\ issued'[k] = issued[k]
  /\ retired'[k] = retired[k]

Appended(k) ==
  /\ store'[k] \in Record
  /\ store'[k].version = store[k].version + 1
  /\ store'[k].token <= MaxToken
  /\ InTime(store'[k])

Granted(k) ==
  /\ Appended(k)
  /\ Extension(store[k], store'[k]) \/ Takeover(store[k], store'[k])
  /\ issued'[k] = issued[k] \cup {GrantOf(store'[k])}
  /\ retired'[k] = retired[k]

Buried(k, by) ==
  /\ Appended(k)
  /\ Burial(store[k], store'[k])
  /\ by = "sweep" => ExpiresAt(store[k]) + Grace <= clock + Skew
  /\ issued'[k] = issued[k]
  /\ retired'[k] = retired[k] \cup {RetirementOf(store'[k], by)}

KeyStep(k) == Kept(k) \/ Granted(k) \/ Buried(k, "release") \/ Buried(k, "sweep")

\* A step as the keys see it: at most one of them is written, and time passes
\* forwards and between writes.
KeySteps ==
  /\ \A k \in Key : KeyStep(k)
  /\ \A j, k \in Key : j # k => Kept(j) \/ Kept(k)
  /\ clock' \in Int
  /\ clock <= clock'
  /\ clock' = clock \/ (clock' = clock + 1 /\ \A k \in Key : Kept(k))

\* What was read before a step is still a version of the record after it.
LEMMA ReadOfStable ==
  ASSUME TypeOK, NEW k \in Key, KeyStep(k), NEW r \in Record, ReadOf(r, k)
  PROVE  ReadOf(r, k)'
<1>1. store[k] \in Record
  BY Zenon DEF TypeOK, StoreTypeOK
<1>2. CASE Kept(k)
  BY <1>2, Zenon DEF Kept, ReadOf
<1>3. CASE store'[k].version = store[k].version + 1
  BY <1>1, <1>3 DEF ReadOf, Record
<1> QED
  BY <1>2, <1>3, Zenon DEF KeyStep, Granted, Buried, Appended

\* A justified write, or none, keeps the stored record the newest of its
\* key's history.
LEMMA LedgerStable ==
  ASSUME HolderAssumption, TypeOK, NEW k \in Key, LedgerInv(k), KeyStep(k)
  PROVE  LedgerInv(k)'
<1>1. /\ store[k] \in Record
      /\ issued[k] \subseteq Grant
      /\ retired[k] \subseteq Retirement
  BY Zenon DEF TypeOK, StoreTypeOK
<1>2. CASE Kept(k)
  BY <1>2, Zenon DEF Kept, LedgerInv
<1>3. CASE Granted(k)
  <2>1. store'[k] \in Record /\ store'[k].version = store[k].version + 1
    BY <1>3, Zenon DEF Granted, Appended
  <2>2. store'[k].holder \in Holder
    BY <1>1, <1>3, Zenon DEF Granted, Extension, Takeover, Record
  <2>3. store'[k].holder # NoHolder /\ store'[k].version # 0
    BY <1>1, <2>1, <2>2 DEF HolderAssumption, Record
  <2>4. store[k].token <= store'[k].token
    BY <1>1, <1>3 DEF Granted, Extension, Takeover, Record
  <2>5. ASSUME NEW g \in issued'[k]
        PROVE  /\ g.version <= store'[k].version
               /\ g.token <= store'[k].token
               /\ g.version = store'[k].version => g = GrantOf(store'[k])
    BY <1>1, <1>3, <2>1, <2>4 DEF Granted, LedgerInv, GrantOf, Grant, Record
  <2>6. ASSUME NEW t \in retired'[k]
        PROVE  t.version <= store'[k].version /\ t.token <= store'[k].token
    BY <1>1, <1>3, <2>1, <2>4 DEF Granted, LedgerInv, Retirement, Record
  <2>7. ASSUME NEW g \in issued'[k], g.token = store'[k].token
        PROVE  g.holder = store'[k].holder
    BY <1>1, <1>3, <2>1, <2>7
       DEF Granted, Extension, Takeover, LedgerInv, GrantOf, Grant, Record
  <2>8. ASSUME NEW t \in retired'[k]
        PROVE  t.token < store'[k].token
    BY <1>1, <1>3, <2>1
       DEF Granted, Extension, Takeover, LedgerInv, Retirement, Record
  <2>9. GrantOf(store'[k]) \in issued'[k]
    BY <1>3, Zenon DEF Granted
  <2> QED
    BY <2>3, <2>5, <2>6, <2>7, <2>8, <2>9, Zenon DEF LedgerInv, GrantOf, ExpiresAt
<1>4. ASSUME NEW by, Buried(k, by)
      PROVE  LedgerInv(k)'
  <2>1. /\ store'[k] \in Record
        /\ store'[k].version = store[k].version + 1
        /\ store'[k].token = store[k].token
        /\ store'[k].holder = NoHolder
        /\ issued'[k] = issued[k]
        /\ retired'[k] = retired[k] \cup {RetirementOf(store'[k], by)}
    BY <1>4, Zenon DEF Buried, Appended, Burial
  <2>2. ASSUME NEW g \in issued'[k]
        PROVE  /\ g.version < store'[k].version
               /\ g.token <= store'[k].token
    BY <1>1, <2>1 DEF LedgerInv, Grant, Record
  <2>3. ASSUME NEW t \in retired'[k]
        PROVE  t.version <= store'[k].version /\ t.token <= store'[k].token
    BY <1>1, <2>1 DEF LedgerInv, Retirement, RetirementOf, Record
  <2>4. \A g \in issued'[k] : /\ g.version <= store'[k].version
                              /\ g.version # store'[k].version
    BY <1>1, <2>1, <2>2 DEF Grant, Record
  <2> QED
    BY <2>1, <2>2, <2>3, <2>4, Zenon DEF LedgerInv, GrantOf, ExpiresAt
<1> QED
  BY <1>2, <1>3, <1>4, Zenon DEF KeyStep

\* One durable write per version, across a justified write.
LEMMA VersionsStable ==
  ASSUME TypeOK, \A k \in Key : LedgerInv(k), VersionGatesOneWrite, KeySteps
  PROVE  VersionGatesOneWrite'
<1> SUFFICES ASSUME NEW k \in Key
             PROVE  /\ \A g, h \in issued'[k] : g.version = h.version => g = h
                    /\ \A t, u \in retired'[k] : t.version = u.version => t = u
                    /\ \A g \in issued'[k], t \in retired'[k] : g.version # t.version
  BY Zenon DEF VersionGatesOneWrite
<1>1. /\ store[k] \in Record
      /\ issued[k] \subseteq Grant
      /\ retired[k] \subseteq Retirement
  BY Zenon DEF TypeOK, StoreTypeOK
<1>2. /\ \A g \in issued[k] : g.version < store[k].version + 1
      /\ \A t \in retired[k] : t.version < store[k].version + 1
  BY <1>1 DEF LedgerInv, Grant, Retirement, Record
<1>3. KeyStep(k)
  BY Zenon DEF KeySteps
<1>4. CASE Kept(k)
  BY <1>4, Zenon DEF Kept, VersionGatesOneWrite
<1>5. CASE Granted(k)
  BY <1>1, <1>2, <1>5
     DEF Granted, Appended, GrantOf, VersionGatesOneWrite, Grant, Retirement, Record
<1>6. ASSUME NEW by, Buried(k, by)
      PROVE  /\ \A g, h \in issued'[k] : g.version = h.version => g = h
             /\ \A t, u \in retired'[k] : t.version = u.version => t = u
             /\ \A g \in issued'[k], t \in retired'[k] : g.version # t.version
  BY <1>1, <1>2, <1>6
     DEF Buried, Appended, RetirementOf, VersionGatesOneWrite, Grant, Retirement, Record
<1> QED
  BY <1>3, <1>4, <1>5, <1>6, Zenon DEF KeyStep

\* Fencing tokens stay ordered across a justified write.
LEMMA FencingStable ==
  ASSUME TypeOK, \A k \in Key : LedgerInv(k), FencingMonotone, KeySteps
  PROVE  FencingMonotone'
<1> SUFFICES ASSUME NEW k \in Key
             PROVE  /\ \A g, h \in issued'[k] : g.version < h.version =>
                          /\ g.token <= h.token
                          /\ g.token = h.token => g.holder = h.holder
                    /\ \A t \in retired'[k], g \in issued'[k] :
                          t.version < g.version => t.token < g.token
  BY Zenon DEF FencingMonotone
<1>1. /\ store[k] \in Record
      /\ issued[k] \subseteq Grant
      /\ retired[k] \subseteq Retirement
  BY Zenon DEF TypeOK, StoreTypeOK
<1>2. LedgerInv(k) /\ KeyStep(k)
  BY Zenon DEF KeySteps
<1>3. CASE Kept(k)
  BY <1>3, Zenon DEF Kept, FencingMonotone
<1>4. CASE Granted(k)
  <2>1. store'[k] \in Record /\ store'[k].version = store[k].version + 1
    BY <1>4, Zenon DEF Granted, Appended
  <2>2. ASSUME NEW g \in issued[k]
        PROVE  /\ g.version < store'[k].version
               /\ g.token <= store'[k].token
               /\ g.token = store'[k].token => g.holder = store'[k].holder
    BY <1>1, <1>2, <1>4, <2>1
       DEF Granted, Extension, Takeover, LedgerInv, Grant, Record
  <2>3. ASSUME NEW t \in retired[k]
        PROVE  t.token < store'[k].token
    BY <1>1, <1>2, <1>4, <2>1
       DEF Granted, Extension, Takeover, LedgerInv, Retirement, Record
  <2> QED
    BY <1>1, <1>4, <2>1, <2>2, <2>3
       DEF Granted, GrantOf, FencingMonotone, Grant, Record
<1>5. ASSUME NEW by, Buried(k, by)
      PROVE  \A t \in retired'[k], g \in issued'[k] :
               t.version < g.version => t.token < g.token
  BY <1>1, <1>2, <1>5
     DEF Buried, Appended, RetirementOf, LedgerInv, FencingMonotone, Grant, Record
<1>6. ASSUME NEW by, Buried(k, by)
      PROVE  issued'[k] = issued[k]
  BY <1>6, Zenon DEF Buried
<1> QED
  BY <1>2, <1>3, <1>4, <1>5, <1>6, Zenon DEF KeyStep, FencingMonotone

\* A tenure stays without a gap across a justified write.
LEMMA ContinuityStable ==
  ASSUME TypeOK, \A k \in Key : LedgerInv(k), TenureContinuous, KeySteps
  PROVE  TenureContinuous'
<1> SUFFICES ASSUME NEW k \in Key, NEW g \in issued'[k], NEW h \in issued'[k],
                    g.token = h.token, h.version = g.version + 1
             PROVE  h.at <= g.expires
  BY Zenon DEF TenureContinuous
<1>1. store[k] \in Record /\ issued[k] \subseteq Grant
  BY Zenon DEF TypeOK, StoreTypeOK
<1>2. LedgerInv(k) /\ KeyStep(k)
  BY Zenon DEF KeySteps
<1>3. CASE issued'[k] = issued[k]
  BY <1>3, Zenon DEF TenureContinuous
<1>4. CASE Granted(k)
  <2>1. store'[k] \in Record /\ store'[k].version = store[k].version + 1
    BY <1>4, Zenon DEF Granted, Appended
  <2>2. CASE g \in issued[k] /\ h \in issued[k]
    BY <2>2, Zenon DEF TenureContinuous
  <2>3. CASE g = GrantOf(store'[k])
    BY <1>1, <1>2, <1>4, <2>1, <2>3 DEF Granted, GrantOf, LedgerInv, Grant, Record
  <2>4. CASE g \in issued[k] /\ h = GrantOf(store'[k])
    <3>1. g.version = store[k].version
      BY <1>1, <2>1, <2>4 DEF GrantOf, Grant, Record
    <3>2. g = GrantOf(store[k])
      BY <1>2, <2>4, <3>1, Zenon DEF LedgerInv
    <3>3. store[k].token = store'[k].token
      BY <2>4, <3>2, Zenon DEF GrantOf
    <3>4. Extension(store[k], store'[k])
      BY <1>1, <1>4, <3>3 DEF Granted, Takeover, Record
    <3> QED
      BY <2>4, <3>2, <3>4, Zenon DEF Extension, GrantOf
  <2> QED
    BY <1>4, <2>2, <2>3, <2>4, Zenon DEF Granted
<1> QED
  BY <1>2, <1>3, <1>4, Zenon DEF KeyStep, Kept, Buried

\* A grant nobody can see as expired is not taken away by a justified write.
LEMMA ExclusionStable ==
  ASSUME HolderAssumption, ManagerAssumption, TypeOK,
         \A k \in Key : LedgerInv(k), ExclusiveTenure, KeySteps
  PROVE  ExclusiveTenure'
<1> SUFFICES ASSUME NEW k \in Key, NEW g \in issued'[k],
                    LastOfTenure(k, g)', g.expires >= clock' + Skew
             PROVE  \/ GrantOf(store'[k]) = g
                    \/ \E t \in retired'[k] : t.token = g.token /\ t.by = "release"
  BY Zenon DEF ExclusiveTenure, GrantOf, ExpiresAt
<1>1. /\ store[k] \in Record
      /\ issued[k] \subseteq Grant
      /\ clock \in Int /\ clock' \in Int /\ clock <= clock'
      /\ Skew \in Int /\ Grace \in Int /\ Grace > 0
  BY DEF TypeOK, StoreTypeOK, KeySteps, ManagerAssumption
<1>2. LedgerInv(k) /\ KeyStep(k)
  BY Zenon DEF KeySteps
<1>3. issued[k] \subseteq issued'[k] /\ retired[k] \subseteq retired'[k]
  BY <1>2, Zenon DEF KeyStep, Kept, Granted, Buried
<1>4. CASE g = GrantOf(store'[k])
  BY <1>4, Zenon
<1>5. CASE g \in issued[k] /\ g # GrantOf(store'[k])
  <2>1. LastOfTenure(k, g) /\ g.expires >= clock + Skew
    BY <1>1, <1>3, <1>5 DEF LastOfTenure, Grant
  <2>2. CASE \E t \in retired[k] : t.token = g.token /\ t.by = "release"
    BY <1>3, <2>2, Zenon
  <2>3. CASE GrantOf(store[k]) = g
    <3>1. /\ ExpiresAt(store[k]) = g.expires
          /\ store[k].token = g.token
          /\ store[k].version = g.version
          /\ store[k].holder # NoHolder
      BY <1>1, <1>5, <2>3, Zenon DEF GrantOf, Grant, HolderAssumption
    <3>2. g.expires \in Int
      BY <1>1, <1>5, Zenon DEF Grant
    <3>3. ~Kept(k)
      BY <1>5, <2>3, Zenon DEF Kept
    <3>4. ~Takeover(store[k], store'[k])
      BY <1>1, <2>1, <3>1, <3>2 DEF Takeover
    <3>5. ~Buried(k, "sweep")
      BY <1>1, <2>1, <3>1, <3>2 DEF Buried
    <3>6. ASSUME Granted(k), Extension(store[k], store'[k]) PROVE FALSE
      <4> DEFINE n == GrantOf(store'[k])
      <4>1. n \in issued'[k]
        BY <3>6, Zenon DEF Granted
      <4>2. n.token = g.token /\ n.version = g.version + 1
        BY <3>1, <3>6, Zenon DEF Granted, Appended, Extension, GrantOf
      <4>3. n.version <= g.version
        BY <4>1, <4>2, Zenon DEF LastOfTenure
      <4>4. g.version \in Int
        BY <1>1, <1>5 DEF Grant
      <4> HIDE DEF n
      <4> QED
        BY <4>2, <4>3, <4>4
    <3>7. CASE Buried(k, "release")
      <4> DEFINE t == RetirementOf(store'[k], "release")
      <4>1. t \in retired'[k]
        BY <3>7, Zenon DEF Buried
      <4>2. t.token = g.token /\ t.by = "release"
        BY <3>1, <3>7, Zenon DEF Buried, Burial, RetirementOf
      <4> HIDE DEF t
      <4> QED
        BY <4>1, <4>2, Zenon
    <3> QED
      BY <1>2, <3>3, <3>4, <3>5, <3>6, <3>7, Zenon DEF KeyStep, Granted
  <2> QED
    BY <1>5, <2>1, <2>2, <2>3, Zenon DEF ExclusiveTenure
<1> QED
  BY <1>2, <1>4, <1>5, Zenon DEF KeyStep, Kept, Granted, Buried

-----------------------------------------------------------------------------
\* A call or a sweep that does not move keeps its reading of the store valid
\* while others write and time passes.
LEMMA CallStable ==
  ASSUME ManagerAssumption, TypeOK, KeySteps, NEW p \in Proc, CallInv(p),
         call'[p] = call[p]
  PROVE  CallInv(p)'
<1>1. CASE call[p].pc \in {"decide", "put"}
  <2>1. call[p] \in Active
    BY <1>1 DEF TypeOK, Idle
  <2>2. /\ call[p].cur \in Record /\ call[p].next \in Record
        /\ call[p].req.key \in Key
        /\ clock \in Int /\ clock' \in Int /\ clock <= clock' /\ Skew \in Int
    BY <2>1 DEF Active, Request, TypeOK, KeySteps, ManagerAssumption
  <2>3. ReadOf(call[p].cur, call[p].req.key)'
    BY <1>1, <2>2, ReadOfStable, Zenon DEF CallInv, KeySteps
  <2>4. ExpiresAt(call[p].cur) \in Int
    BY <2>2 DEF ExpiresAt, Record
  <2>5. Takeover(call[p].cur, call[p].next) => Takeover(call[p].cur, call[p].next)'
    BY <2>2, <2>4 DEF Takeover, ExpiresAt
  <2>6. InTime(call[p].next) => InTime(call[p].next)'
    BY <2>2 DEF InTime, Record
  <2> QED
    BY <1>1, <2>3, <2>5, <2>6, Zenon DEF CallInv, Extension, Burial, ExpiresAt
<1>2. CASE call[p].pc \notin {"decide", "put"}
  BY <1>2, Zenon DEF CallInv
<1> QED
  BY <1>1, <1>2, Zenon

\* What a sweep in progress relies on survives the writes of the others:
\* collect's snapshot only ages.
LEMMA SweepStable ==
  ASSUME ManagerAssumption, TypeOK, KeySteps, NEW s \in Sweeper, SweepInv(s),
         sweep'[s] = sweep[s]
  PROVE  SweepInv(s)'
<1>1. CASE sweep[s].pc # "idle"
  <2>1. sweep[s] \in Scanned \cup Putting
    BY <1>1 DEF TypeOK, Resting
  <2>2. \A k \in Key : sweep[s].snap[k] \in Record
    BY <2>1, Zenon DEF Scanned, Putting
  <2>3. \A k \in Key : ReadOf(sweep[s].snap[k], k)'
    BY <1>1, <2>2, ReadOfStable, Zenon DEF SweepInv, KeySteps
  <2>4. ASSUME sweep[s].pc = "putting", NEW k \in sweep[s].todo
        PROVE  ExpiresAt(sweep[s].snap[k]) + Grace <= clock' + Skew
    <3>1. k \in Key
      BY <2>1, <2>4, Zenon DEF Scanned, Putting
    <3>2. ExpiresAt(sweep[s].snap[k]) \in Int
      BY <2>2, <3>1 DEF ExpiresAt, Record
    <3>3. ExpiresAt(sweep[s].snap[k]) + Grace <= clock + Skew
      BY <2>4, Zenon DEF SweepInv
    <3> QED
      BY <3>2, <3>3 DEF TypeOK, KeySteps, ManagerAssumption
  <2>5. ASSUME sweep[s].pc = "putting"
        PROVE  sweep[s].now <= clock' + Skew
    <3>1. sweep[s].now \in Int /\ sweep[s].now <= clock + Skew
      BY <2>1, <2>5, Zenon DEF SweepInv, Scanned, Putting
    <3> QED
      BY <3>1 DEF TypeOK, KeySteps, ManagerAssumption
  <2> QED
    BY <1>1, <2>3, <2>4, <2>5, Zenon DEF SweepInv, ExpiresAt
<1>2. CASE sweep[s].pc = "idle"
  BY <1>2, Zenon DEF SweepInv
<1> QED
  BY <1>1, <1>2, Zenon

\* A step without a write keeps every key.
LEMMA NoWriteKeeps ==
  ASSUME TypeOK, NoWrite, clock' = clock
  PROVE  KeySteps
BY DEF TypeOK, NoWrite, KeySteps, KeyStep, Kept

CallState == Active \cup {Idle(res) : res \in Reply}

\* What a step of request p has to establish.
StepGoal(p) ==
  /\ TypeOK'
  /\ KeySteps
  /\ CallInv(p)'
  /\ \A q \in Proc \ {p} : call'[q] = call[q]
  /\ sweep' = sweep

\* A step that writes nothing and leaves p in a well-formed state whose
\* reading is valid.
LEMMA QuietStep ==
  ASSUME TypeOK, NoWrite, UNCHANGED <<clock, sweep, calls>>,
         NEW p \in Proc, NEW c \in CallState, call' = [call EXCEPT ![p] = c],
         CallInv(p)'
  PROVE  StepGoal(p)
<1>1. TypeOK'
  BY Zenon DEF TypeOK, StoreTypeOK, NoWrite, CallState
<1>2. \A q \in Proc \ {p} : call'[q] = call[q]
  BY Zenon DEF TypeOK
<1> QED
  BY <1>1, <1>2, NoWriteKeeps, Zenon DEF StepGoal

\* Ending a call is such a step.
LEMMA FinishStep ==
  ASSUME TypeOK, NoWrite, UNCHANGED <<clock, sweep, calls>>,
         NEW p \in Proc, NEW res \in Reply, Finish(p, res)
  PROVE  StepGoal(p)
<1>1. Idle(res) \in CallState
  BY Zenon DEF CallState
<1>2. call'[p] = Idle(res)
  BY Zenon DEF TypeOK, Finish
<1>3. CallInv(p)'
  BY <1>2 DEF CallInv, Idle
<1> QED
  BY <1>1, <1>3, QuietStep, Zenon DEF Finish

\* A request in flight has the fields of one.
LEMMA ActiveCall ==
  ASSUME TypeOK, NEW p \in Proc, call[p].pc # "idle"
  PROVE  /\ call[p] \in Active
         /\ call[p].req \in Request /\ call[p].req.key \in Key
         /\ call[p].req.holder \in Holder /\ call[p].req.ttl \in TTLs
         /\ call[p].cur \in Record /\ call[p].next \in Record
<1>1. call[p] \in Active
  BY DEF TypeOK, Idle
<1> QED
  BY <1>1, Zenon DEF Active, Request

-----------------------------------------------------------------------------
\* A request that reaches the manager has read nothing yet.
LEMMA BeginStep ==
  ASSUME ManagerAssumption, IInv, NEW p \in Proc, NEW req \in Requests, Begin(p, req)
  PROVE  TypeOK' /\ KeySteps /\ CallInv(p)' /\ sweep' = sweep
         /\ \A q \in Proc \ {p} : call'[q] = call[q]
<1> DEFINE c == [pc |-> "get", req |-> req, cur |-> NoRecord,
                 next |-> NoRecord, attempt |-> 1]
<1>1. c \in Active
  BY DEF Active, Requests, NoRecord, Record, ManagerAssumption
<1>2. TypeOK /\ call' = [call EXCEPT ![p] = c] /\ calls' \in 0 .. MaxCalls
  BY DEF IInv, Begin, TypeOK, ManagerAssumption
<1>3. call'[p] = c
  BY <1>2, Zenon DEF TypeOK
<1>4. c.pc = "get"
  OBVIOUS
<1> HIDE DEF c
<1>5. TypeOK'
  BY <1>1, <1>2, Zenon DEF Begin, NoWrite, TypeOK, StoreTypeOK
<1>6. KeySteps
  BY <1>2, NoWriteKeeps, Zenon DEF Begin
<1>7. CallInv(p)'
  BY <1>3, <1>4, Zenon DEF CallInv
<1> QED
  BY <1>2, <1>5, <1>6, <1>7, Zenon DEF Begin, TypeOK

\* store.Get: what the call has read is the stored record.
LEMMA GetStep ==
  ASSUME IInv, NEW p \in Proc, Get(p)
  PROVE  StepGoal(p)
<1> DEFINE k == call[p].req.key
           c == [call[p] EXCEPT !.pc = "decide", !.cur = store[k]]
<1>1. TypeOK /\ call[p].pc # "idle"
  BY Zenon DEF IInv, Get
<1>2. call[p] \in Active /\ k \in Key /\ store[k] \in Record
  BY <1>1, ActiveCall, Zenon DEF TypeOK, StoreTypeOK
<1>3. c \in CallState
  BY <1>2, Zenon DEF CallState, Active
<1>4. call' = [call EXCEPT ![p] = c]
  BY <1>1, Zenon DEF Get, TypeOK
<1>5. c.pc = "decide" /\ c.cur = store[k] /\ c.req = call[p].req
  BY <1>2, Zenon DEF Active
<1>6. call'[p] = c
  BY <1>1, <1>4, Zenon DEF TypeOK
<1>7. store' = store
  BY Zenon DEF Get, NoWrite
<1>8. store[k].token <= MaxToken /\ (store[k].version = 0 => store[k].holder = NoHolder)
  BY <1>1, <1>2, Zenon DEF TypeOK, IInv, LedgerInv
<1>9. ReadOf(store[k], k)
  BY <1>2, <1>8 DEF ReadOf, Record
<1>10. CallInv(p)'
  BY <1>5, <1>6, <1>7, <1>9, Zenon DEF CallInv, ReadOf
<1> QED
  BY <1>1, <1>3, <1>4, <1>10, QuietStep, Zenon DEF Get

\* A call that decides to write is left with a write its reading justifies.
LEMMA AwaitStep ==
  ASSUME IInv, NEW p \in Proc, call[p].pc = "decide",
         NoWrite, UNCHANGED <<clock, sweep, calls>>,
         NEW r \in Record, AwaitPut(p, r), r.token <= MaxToken, InTime(r),
         IF call[p].req.op = "release" THEN Burial(call[p].cur, r)
         ELSE Extension(call[p].cur, r) \/ Takeover(call[p].cur, r)
  PROVE  StepGoal(p)
<1> DEFINE c == [call[p] EXCEPT !.pc = "put", !.next = r]
<1>1. TypeOK /\ call[p].pc # "idle"
  BY Zenon DEF IInv
<1>2. call[p] \in Active
  BY <1>1, ActiveCall, Zenon
<1>3. c \in CallState
  BY <1>2, Zenon DEF CallState, Active
<1>4. call' = [call EXCEPT ![p] = c]
  BY <1>1, Zenon DEF AwaitPut, TypeOK
<1>5. c.pc = "put" /\ c.next = r /\ c.cur = call[p].cur /\ c.req = call[p].req
  BY <1>2, Zenon DEF Active
<1>6. call'[p] = c
  BY <1>1, <1>4, Zenon DEF TypeOK
<1>7. ReadOf(call[p].cur, call[p].req.key)
  BY Zenon DEF IInv, CallInv
<1>8. store' = store /\ clock' = clock
  BY Zenon DEF NoWrite
<1> HIDE DEF c
<1>9. CallInv(p)'
  BY <1>5, <1>6, <1>7, <1>8, Zenon DEF CallInv, ReadOf, InTime, Burial, Extension, Takeover, ExpiresAt
<1> QED
  BY <1>1, <1>3, <1>4, <1>9, QuietStep, Zenon

\* The decisions of Acquire, Renew and Release: a call goes on to its Put only
\* with a record its own reading justifies.
LEMMA DecideStep ==
  ASSUME HolderAssumption, ManagerAssumption, IInv, NEW p \in Proc, Decide(p)
  PROVE  StepGoal(p)
<1> DEFINE cur == call[p].cur
           req == call[p].req
<1>1. PICK now \in Now : AcquireDecide(p, now) \/ RenewDecide(p, now) \/ ReleaseDecide(p, now)
  BY Zenon DEF Decide
<1>2. TypeOK /\ call[p].pc = "decide" /\ NoWrite /\ UNCHANGED <<clock, sweep, calls>>
  BY Zenon DEF IInv, Decide
<1>3. /\ cur \in Record /\ req.holder \in Holder /\ req.ttl \in Nat /\ req.ttl \in TTLs
      /\ now \in Int /\ now <= clock + Skew
      /\ clock \in Int /\ Skew \in Int /\ MaxToken \in Nat
  <2>1. clock \in Int /\ Skew \in Int /\ MaxToken \in Nat /\ TTLs \subseteq Nat
    BY <1>2 DEF ManagerAssumption, TypeOK
  <2>2. now \in Int /\ now <= clock + Skew
    BY <2>1 DEF Now
  <2>3. call[p].pc # "idle"
    BY <1>2, Zenon
  <2>4. cur \in Record /\ req.holder \in Holder /\ req.ttl \in TTLs
    BY <1>2, <2>3, ActiveCall, Zenon
  <2> QED
    BY <2>1, <2>2, <2>4, Zenon
<1>4. cur.token <= MaxToken /\ (cur.version = 0 => cur.holder = NoHolder)
  BY <1>2, Zenon DEF IInv, CallInv, ReadOf
<1>5. \A res \in Reply : Finish(p, res) => StepGoal(p)
  BY <1>2, FinishStep, Zenon
<1>6. "denied" \in Reply /\ "error" \in Reply /\ "nil" \in Reply /\ "conflict" \in Reply
  BY Zenon DEF Reply
<1>7. ASSUME req.op # "release", cur.holder = req.holder, ~Expired(cur, now),
             AwaitPut(p, Extended(cur, req, now))
      PROVE  StepGoal(p)
  <2>1. Extended(cur, req, now) \in Record
    BY <1>3, Zenon DEF Extended, Record
  <2>2. /\ Extended(cur, req, now).token = cur.token
        /\ Extended(cur, req, now).holder = cur.holder
        /\ Extended(cur, req, now).renewedAt = now
    BY <1>3, Zenon DEF Extended, Record
  <2>3. now <= ExpiresAt(cur)
    BY <1>3, <1>7 DEF Expired, ExpiresAt, Record
  <2>4. Extension(cur, Extended(cur, req, now))
    BY <1>3, <1>7, <2>2, <2>3, Zenon DEF Extension, HolderAssumption
  <2>5. InTime(Extended(cur, req, now))
    BY <1>3, <2>2, Zenon DEF InTime, Extended, Record
  <2> QED
    BY <1>2, <1>4, <1>7, <2>1, <2>2, <2>4, <2>5, AwaitStep, Zenon
<1>8. CASE AcquireDecide(p, now)
  <2>1. ASSUME ~Exists(cur) \/ Tombstone(cur) \/ Expired(cur, now),
               cur.token # MaxToken, AwaitPut(p, Claimed(cur, req, now))
        PROVE  StepGoal(p)
    <3>1. Claimed(cur, req, now) \in Record
      BY <1>3 DEF Claimed, Record
    <3>2. /\ Claimed(cur, req, now).token = cur.token + 1
          /\ Claimed(cur, req, now).holder = req.holder
      BY Zenon DEF Claimed
    <3>3. cur.token + 1 <= MaxToken
      BY <1>3, <1>4, <2>1 DEF Record
    <3>4. cur.holder = NoHolder \/ ExpiresAt(cur) < clock + Skew
      BY <1>3, <1>4, <2>1 DEF Exists, Tombstone, Expired, ExpiresAt, Record
    <3>5. Takeover(cur, Claimed(cur, req, now))
      BY <1>3, <3>2, <3>4, Zenon DEF Takeover
    <3>6. InTime(Claimed(cur, req, now))
      BY <1>3, Zenon DEF InTime, Claimed
    <3> QED
      BY <1>2, <1>8, <2>1, <3>1, <3>2, <3>3, <3>5, <3>6, AwaitStep, Zenon DEF AcquireDecide
  <2> QED
    BY <1>5, <1>6, <1>7, <1>8, <2>1, Zenon DEF AcquireDecide
<1>9. CASE RenewDecide(p, now)
  BY <1>5, <1>6, <1>7, <1>9, Zenon DEF RenewDecide
<1>10. CASE ReleaseDecide(p, now)
  <2>1. ASSUME ~Tombstone(cur), AwaitPut(p, tombstoneFrom(cur, now))
        PROVE  StepGoal(p)
    <3>1. tombstoneFrom(cur, now) \in Record
      BY <1>3, Zenon DEF tombstoneFrom, Record
    <3>2. /\ tombstoneFrom(cur, now).token = cur.token
          /\ tombstoneFrom(cur, now).holder = NoHolder
      BY <1>3, Zenon DEF tombstoneFrom, Record
    <3>3. Burial(cur, tombstoneFrom(cur, now))
      BY <2>1, <3>2, Zenon DEF Burial, Tombstone
    <3>4. InTime(tombstoneFrom(cur, now))
      BY <1>3, Zenon DEF InTime, tombstoneFrom, Record
    <3> QED
      BY <1>2, <1>4, <1>10, <2>1, <3>1, <3>2, <3>3, <3>4, AwaitStep, Zenon DEF ReleaseDecide
  <2> QED
    BY <1>5, <1>6, <1>10, <2>1, Zenon DEF ReleaseDecide
<1> QED
  BY <1>1, <1>8, <1>9, <1>10, Zenon

-----------------------------------------------------------------------------
\* An accepted Put found the record it was decided on, and appends to it.
LEMMA AcceptedPut ==
  ASSUME TypeOK, NEW k \in Key, NEW cur \in Record, ReadOf(cur, k),
         NEW next \in Record, next.token <= MaxToken, InTime(next), PutWrites(k, cur.version, next)
  PROVE  /\ cur = store[k]
         /\ store' = [store EXCEPT ![k] = Stored(next, cur.version)]
         /\ store'[k] = Stored(next, cur.version)
         /\ Appended(k)
         /\ store'[k].holder = next.holder /\ store'[k].token = next.token
         /\ store'[k].renewedAt = next.renewedAt
         /\ \A j \in Key \ {k} : store'[j] = store[j]
         /\ StoreTypeOK'
         /\ \A j \in Key : store'[j].token <= MaxToken
<1>1. store[k].version = cur.version
  BY Zenon DEF PutWrites, PutAccepts
<1>2. cur = store[k]
  BY <1>1, Zenon DEF ReadOf
<1>3. store' = [store EXCEPT ![k] = Stored(next, cur.version)]
  BY Zenon DEF PutWrites
<1>4. /\ Stored(next, cur.version) \in Record
      /\ Stored(next, cur.version).version = cur.version + 1
      /\ Stored(next, cur.version).holder = next.holder
      /\ Stored(next, cur.version).token = next.token
      /\ Stored(next, cur.version).renewedAt = next.renewedAt
      /\ Stored(next, cur.version).ttl = next.ttl
  BY DEF Stored, Record
<1>5. /\ store'[k] = Stored(next, cur.version)
      /\ \A j \in Key \ {k} : store'[j] = store[j]
      /\ StoreTypeOK'
  BY <1>3, <1>4, Zenon DEF TypeOK, StoreTypeOK
<1>6. \A j \in Key : store'[j].token <= MaxToken
  BY <1>4, <1>5, Zenon DEF TypeOK
<1> QED
  BY <1>1, <1>2, <1>3, <1>4, <1>5, <1>6, Zenon DEF Appended, InTime

\* The history entry of a record with a holder is a grant.
LEMMA GrantTyped ==
  ASSUME NEW r \in Record, r.holder \in Holder
  PROVE  GrantOf(r) \in Grant
<1>1. ExpiresAt(r) \in Int
  BY DEF ExpiresAt, Record
<1> QED
  BY <1>1, Zenon DEF GrantOf, Grant, Record

\* The history entry of a tombstone Release or the sweep wrote.
LEMMA RetirementTyped ==
  ASSUME NEW r \in Record, NEW by \in {"release", "sweep"}
  PROVE  RetirementOf(r, by) \in Retirement
BY Zenon DEF RetirementOf, Retirement, Record

\* The durable write of a request, whether or not it is reported.
LEMMA WriteStep ==
  ASSUME HolderAssumption, IInv, NEW p \in Proc, call[p].pc = "put", Write(p),
         NEW res \in Reply, Finish(p, res), UNCHANGED <<clock, sweep, calls>>
  PROVE  StepGoal(p)
<1> DEFINE k == call[p].req.key
           cur == call[p].cur
           next == call[p].next
           r == Stored(next, cur.version)
<1>1. TypeOK /\ k \in Key /\ cur \in Record /\ next \in Record
  BY ActiveCall, Zenon DEF IInv
<1>2. /\ ReadOf(cur, k)
      /\ next.token <= MaxToken /\ InTime(next)
      /\ call[p].req.op = "release" => Burial(cur, next)
      /\ call[p].req.op # "release" => Extension(cur, next) \/ Takeover(cur, next)
  BY Zenon DEF IInv, CallInv
<1>3. PutWrites(k, cur.version, next)
  BY Zenon DEF Write
<1>4. /\ cur = store[k]
      /\ store'[k] = r
      /\ Appended(k)
      /\ store'[k].holder = next.holder /\ store'[k].token = next.token
      /\ store'[k].renewedAt = next.renewedAt
      /\ \A j \in Key \ {k} : store'[j] = store[j]
      /\ StoreTypeOK'
      /\ \A j \in Key : store'[j].token <= MaxToken
  BY <1>1, <1>2, <1>3, AcceptedPut
<1>5. r \in Record
  BY <1>4, Zenon DEF Appended
<1>6. call' = [call EXCEPT ![p] = Idle(res)] /\ call' \in [Proc -> CallState]
  BY <1>1, Zenon DEF Finish, TypeOK, CallState
<1>7. call'[p] = Idle(res) /\ \A q \in Proc \ {p} : call'[q] = call[q]
  BY <1>1, <1>6, Zenon DEF TypeOK
<1>8. CallInv(p)'
  BY <1>7 DEF CallInv, Idle
<1>9. CASE call[p].req.op = "release"
  <2>1. /\ retired' = [retired EXCEPT ![k] = @ \cup {RetirementOf(r, "release")}]
        /\ issued' = issued
    BY <1>9, Zenon DEF Write
  <2>2. RetirementOf(r, "release") \in Retirement
    BY <1>5, RetirementTyped, Zenon
  <2> HIDE DEF k, cur, next, r
  <2>3. TypeOK'
    BY <1>1, <1>4, <1>6, <2>1, <2>2, Zenon DEF TypeOK, CallState
  <2>4. Burial(store[k], store'[k])
    BY <1>2, <1>4, <1>9, Zenon DEF Burial
  <2>5. Buried(k, "release")
    BY <1>1, <1>4, <2>1, <2>4, Zenon DEF Buried, TypeOK
  <2>6. \A j \in Key \ {k} : Kept(j)
    BY <1>1, <1>4, <2>1, Zenon DEF Kept, TypeOK
  <2>7. KeySteps
    BY <1>1, <2>5, <2>6 DEF KeySteps, KeyStep, TypeOK
  <2> QED
    BY <1>7, <1>8, <2>3, <2>7, Zenon DEF StepGoal
<1>10. CASE call[p].req.op # "release"
  <2>1. /\ issued' = [issued EXCEPT ![k] = @ \cup {GrantOf(r)}]
        /\ retired' = retired
    BY <1>10, Zenon DEF Write
  <2>2. r.holder \in Holder
    BY <1>1, <1>2, <1>4, <1>10, Zenon DEF Extension, Takeover, Record
  <2>3. GrantOf(r) \in Grant
    BY <1>5, <2>2, GrantTyped, Zenon
  <2> HIDE DEF k, cur, next, r
  <2>4. TypeOK'
    BY <1>1, <1>4, <1>6, <2>1, <2>3, Zenon DEF TypeOK, CallState
  <2>5. Extension(store[k], store'[k]) \/ Takeover(store[k], store'[k])
    BY <1>2, <1>4, <1>10, Zenon DEF Extension, Takeover
  <2>6. Granted(k)
    BY <1>1, <1>4, <2>1, <2>5, Zenon DEF Granted, TypeOK
  <2>7. \A j \in Key \ {k} : Kept(j)
    BY <1>1, <1>4, <2>1, Zenon DEF Kept, TypeOK
  <2>8. KeySteps
    BY <1>1, <2>6, <2>7 DEF KeySteps, KeyStep, TypeOK
  <2> QED
    BY <1>7, <1>8, <2>4, <2>8, Zenon DEF StepGoal
<1> QED
  BY <1>9, <1>10, Zenon

\* ErrConflict from Put: the call starts over, re-reads or returns, and forgets
\* the record it was about to write.
LEMMA ConflictStep ==
  ASSUME ManagerAssumption, IInv, NEW p \in Proc, PutConflicts(p)
  PROVE  StepGoal(p)
<1> DEFINE c == call[p]
<1>1. TypeOK /\ c.pc = "put" /\ NoWrite /\ UNCHANGED <<clock, sweep, calls>>
  BY Zenon DEF IInv, PutConflicts
<1>2. c \in Active
  BY <1>1, ActiveCall, Zenon
<1>3. ASSUME NEW d \in Active, d.pc \notin {"decide", "put"},
             call' = [call EXCEPT ![p] = d]
      PROVE  StepGoal(p)
  <2>1. call'[p] = d
    BY <1>1, <1>3, Zenon DEF TypeOK
  <2>2. CallInv(p)'
    BY <1>3, <2>1, Zenon DEF CallInv
  <2> QED
    BY <1>1, <1>3, <2>2, QuietStep, Zenon DEF CallState
<1>4. CASE c.attempt < MaxAttempts /\
           call' = [call EXCEPT ![p] = [c EXCEPT !.pc = "get", !.cur = NoRecord,
                                        !.next = NoRecord, !.attempt = c.attempt + 1]]
  <2> DEFINE d == [c EXCEPT !.pc = "get", !.cur = NoRecord,
                            !.next = NoRecord, !.attempt = c.attempt + 1]
  <2>1. NoRecord \in Record
    BY DEF NoRecord, Record
  <2>2. c.attempt + 1 \in 1 .. MaxAttempts
    BY <1>2, <1>4 DEF Active, ManagerAssumption
  <2>3. d \in Active /\ d.pc = "get"
    BY <1>2, <2>1, <2>2, Zenon DEF Active
  <2> QED
    BY <1>3, <1>4, <2>3, Zenon
<1>5. CASE call' = [call EXCEPT ![p].pc = "lost"]
  <2> DEFINE d == [c EXCEPT !.pc = "lost"]
  <2>1. d \in Active /\ d.pc = "lost"
    BY <1>2, Zenon DEF Active
  <2>2. call' = [call EXCEPT ![p] = d]
    BY <1>1, <1>5, Zenon DEF TypeOK
  <2> QED
    BY <1>3, <2>1, <2>2, Zenon
<1>6. CASE Finish(p, "error") \/ Finish(p, "nil")
  BY <1>1, <1>6, FinishStep, Zenon DEF Reply
<1> QED
  BY <1>4, <1>5, <1>6, Zenon DEF PutConflicts, OnConflict

\* Every step of a request, from its read to its reply.
LEMMA RequestStep ==
  ASSUME HolderAssumption, ManagerAssumption, IInv, NEW p \in Proc, Step(p)
  PROVE  StepGoal(p)
<1>1. CASE Get(p)
  BY <1>1, GetStep, Zenon
<1>2. CASE Decide(p)
  BY <1>2, DecideStep, Zenon
<1>3. CASE PutSucceeds(p)
  <2>1. Success(call[p].req.op) \in Reply
    BY Zenon DEF Success, Reply
  <2> QED
    BY <1>3, <2>1, WriteStep, Zenon DEF PutSucceeds
<1>4. CASE PutUnreported(p)
  BY <1>4, WriteStep, Zenon DEF PutUnreported, Reply
<1>5. CASE PutConflicts(p)
  BY <1>5, ConflictStep, Zenon
<1>6. CASE RenewalLost(p)
  BY <1>6, FinishStep, Zenon DEF RenewalLost, Reply, IInv
<1>7. CASE Fail(p)
  BY <1>7, FinishStep, Zenon DEF Fail, Reply, IInv
<1> QED
  BY <1>1, <1>2, <1>3, <1>4, <1>5, <1>6, <1>7, Zenon DEF Step

-----------------------------------------------------------------------------
\* What a step of sweeper s has to establish.
SweepGoal(s) ==
  /\ TypeOK'
  /\ KeySteps
  /\ SweepInv(s)'
  /\ \A z \in Sweeper \ {s} : sweep'[z] = sweep[z]
  /\ call' = call

\* A sweep's step that writes nothing.
LEMMA QuietSweep ==
  ASSUME TypeOK, NoWrite, UNCHANGED <<clock, call, calls>>, NEW s \in Sweeper,
         NEW w \in {Resting} \cup Scanned \cup Putting,
         sweep' = [sweep EXCEPT ![s] = w], SweepInv(s)'
  PROVE  SweepGoal(s)
<1>1. TypeOK'
  BY Zenon DEF TypeOK, StoreTypeOK, NoWrite
<1>2. \A z \in Sweeper \ {s} : sweep'[z] = sweep[z]
  BY Zenon DEF TypeOK
<1> QED
  BY <1>1, <1>2, NoWriteKeeps, Zenon DEF SweepGoal

\* collect's List: the snapshot is the store.
LEMMA ListStep ==
  ASSUME IInv, NEW s \in Sweeper, SweepList(s)
  PROVE  SweepGoal(s)
<1> DEFINE w == [pc |-> "listed", snap |-> store]
<1>1. TypeOK /\ store' = store /\ sweep' = [sweep EXCEPT ![s] = w]
  BY Zenon DEF IInv, SweepList, NoWrite
<1>2. w \in Scanned
  BY <1>1, Zenon DEF Scanned, TypeOK, StoreTypeOK
<1>3. sweep'[s] = w
  BY <1>1, Zenon DEF TypeOK
<1>4. \A k \in Key : ReadOf(store[k], k)
  BY <1>1 DEF ReadOf, TypeOK, StoreTypeOK, Record, IInv, LedgerInv
<1>5. SweepInv(s)'
  BY <1>1, <1>3, <1>4 DEF SweepInv, ReadOf
<1> QED
  BY <1>1, <1>2, <1>5, QuietSweep, Zenon DEF SweepList

\* collect's filter: what is left to do was expired for the grace window.
LEMMA PickStep ==
  ASSUME ManagerAssumption, IInv, NEW s \in Sweeper, SweepPick(s)
  PROVE  SweepGoal(s)
<1>1. TypeOK /\ store' = store /\ clock' = clock /\ sweep[s].pc = "listed"
  BY Zenon DEF IInv, SweepPick, NoWrite
<1>2. PICK now \in Now :
        sweep' = [sweep EXCEPT ![s] =
                    [pc |-> "putting", snap |-> sweep[s].snap, now |-> now,
                     todo |-> {k \in Key : Collectable(sweep[s].snap[k], now)}]]
  BY Zenon DEF SweepPick
<1> DEFINE w == [pc |-> "putting", snap |-> sweep[s].snap, now |-> now,
                 todo |-> {k \in Key : Collectable(sweep[s].snap[k], now)}]
<1>3. /\ now \in Int /\ now <= clock + Skew
      /\ clock \in Int /\ Skew \in Int /\ Grace \in Int
  BY <1>1 DEF TypeOK, ManagerAssumption, Now
<1>4. sweep[s] \in Scanned
  BY <1>1 DEF TypeOK, Resting, Scanned, Putting
<1>5. sweep[s].snap \in [Key -> Record]
  BY <1>4, Zenon DEF Scanned
<1>6. w \in Putting
  BY <1>3, <1>5, Zenon DEF Putting
<1>7. sweep'[s] = w
  BY <1>1, <1>2, Zenon DEF TypeOK
<1>8. ASSUME NEW k \in w.todo
      PROVE  /\ sweep[s].snap[k].holder # NoHolder
             /\ ExpiresAt(sweep[s].snap[k]) + Grace <= clock + Skew
  <2>1. k \in Key /\ Collectable(sweep[s].snap[k], now)
    BY <1>8, Zenon
  <2>2. ExpiresAt(sweep[s].snap[k]) \in Int
    BY <1>5, <2>1 DEF ExpiresAt, Record
  <2> QED
    BY <1>3, <2>1, <2>2 DEF Collectable, Tombstone
<1>9. \A k \in Key : ReadOf(w.snap[k], k)
  BY <1>1, Zenon DEF IInv, SweepInv
<1>10. w.snap = sweep[s].snap /\ w.now = now
  OBVIOUS
<1> HIDE DEF w
<1>11. SweepInv(s)'
  BY <1>1, <1>3, <1>7, <1>8, <1>9, <1>10, Zenon DEF SweepInv, ReadOf, ExpiresAt
<1>12. sweep' = [sweep EXCEPT ![s] = w]
  BY <1>2, Zenon DEF w
<1> QED
  BY <1>1, <1>6, <1>11, <1>12, QuietSweep, Zenon DEF SweepPick

\* A sweep in its write phase, as SweepPut and SweepSkip find and leave it.
LEMMA PuttingSweep ==
  ASSUME TypeOK, NEW s \in Sweeper, sweep[s].pc = "putting",
         NEW k \in sweep[s].todo, Swept(s, k)
  PROVE  /\ k \in Key /\ sweep[s].snap[k] \in Record /\ sweep[s].now \in Int
         /\ sweep[s].snap \in [Key -> Record]
         /\ [sweep[s] EXCEPT !.todo = @ \ {k}] \in Putting
         /\ sweep' = [sweep EXCEPT ![s] = [sweep[s] EXCEPT !.todo = @ \ {k}]]
         /\ sweep'[s].pc = "putting"
         /\ sweep'[s].snap = sweep[s].snap
         /\ sweep'[s].now = sweep[s].now
         /\ sweep'[s].todo \subseteq sweep[s].todo
<1>1. sweep[s] \in Putting
  BY DEF TypeOK, Resting, Scanned
<1>2. sweep' = [sweep EXCEPT ![s] = [sweep[s] EXCEPT !.todo = @ \ {k}]]
  BY Zenon DEF Swept, TypeOK
<1>3. sweep'[s] = [sweep[s] EXCEPT !.todo = @ \ {k}]
  BY <1>2, Zenon DEF TypeOK
<1> QED
  BY <1>1, <1>2, <1>3 DEF Putting

\* With the records still validly read, the rest of the sweep is justified.
LEMMA SweptStable ==
  ASSUME ManagerAssumption, IInv, KeySteps, clock' = clock,
         NEW s \in Sweeper, sweep[s].pc = "putting",
         NEW k \in sweep[s].todo, Swept(s, k)
  PROVE  SweepInv(s)'
<1>1. TypeOK /\ SweepInv(s)
  BY Zenon DEF IInv
<1>2. /\ sweep'[s].pc = "putting"
      /\ sweep'[s].snap = sweep[s].snap
      /\ sweep'[s].now = sweep[s].now
      /\ sweep'[s].todo \subseteq sweep[s].todo
      /\ sweep[s].snap \in [Key -> Record]
  BY <1>1, PuttingSweep, Zenon
<1>3. \A j \in Key : ReadOf(sweep[s].snap[j], j)
  BY <1>1, Zenon DEF SweepInv
<1>4. \A r \in Record, j \in Key : ReadOf(r, j) => ReadOf(r, j)'
  BY <1>1, ReadOfStable, Zenon DEF KeySteps
<1>5. \A j \in Key : ReadOf(sweep[s].snap[j], j)'
  BY <1>2, <1>3, <1>4 DEF ReadOf
<1> QED
  BY <1>1, <1>2, <1>5, Zenon DEF SweepInv, ExpiresAt

\* collect's Put: an accepted one buries the very record of the snapshot.
LEMMA SweepPutStep ==
  ASSUME HolderAssumption, ManagerAssumption, IInv, NEW s \in Sweeper,
         NEW k \in Key, SweepPut(s, k)
  PROVE  SweepGoal(s) /\ Buried(k, "sweep") /\ store[k] = sweep[s].snap[k]
<1> DEFINE cur == sweep[s].snap[k]
           tomb == tombstoneFrom(cur, sweep[s].now)
           r == Stored(tomb, cur.version)
<1>1. TypeOK /\ sweep[s].pc = "putting" /\ k \in sweep[s].todo /\ Swept(s, k)
      /\ clock' = clock /\ call' = call /\ calls' = calls /\ issued' = issued
  BY Zenon DEF IInv, SweepPut
<1>2. cur \in Record /\ sweep[s].now \in Int
  BY <1>1, PuttingSweep, Zenon
<1>3. /\ ReadOf(cur, k) /\ cur.holder # NoHolder
      /\ ExpiresAt(cur) + Grace <= clock + Skew /\ sweep[s].now <= clock + Skew
  BY <1>1, Zenon DEF IInv, SweepInv
<1>4. /\ tomb \in Record /\ tomb.token = cur.token /\ tomb.holder = NoHolder
      /\ tomb.renewedAt = sweep[s].now /\ tomb.ttl = 0
  BY <1>2, Zenon DEF tombstoneFrom, Record
<1>5. tomb.token <= MaxToken /\ InTime(tomb)
  BY <1>3, <1>4, Zenon DEF ReadOf, InTime
<1>6. PutWrites(k, cur.version, tomb)
  BY Zenon DEF SweepPut
<1>7. retired' = [retired EXCEPT ![k] = @ \cup {RetirementOf(r, "sweep")}]
  BY Zenon DEF SweepPut
<1> HIDE DEF tomb, cur
<1>8. /\ cur = store[k]
      /\ store'[k] = r
      /\ Appended(k)
      /\ store'[k].holder = tomb.holder /\ store'[k].token = tomb.token
      /\ \A j \in Key \ {k} : store'[j] = store[j]
      /\ StoreTypeOK'
      /\ \A j \in Key : store'[j].token <= MaxToken
  BY <1>1, <1>2, <1>3, <1>4, <1>5, <1>6, AcceptedPut
<1>9. RetirementOf(r, "sweep") \in Retirement
  BY <1>8, RetirementTyped, Zenon DEF Appended
<1> HIDE DEF r
<1>10. sweep' \in [Sweeper -> {Resting} \cup Scanned \cup Putting]
       /\ \A z \in Sweeper \ {s} : sweep'[z] = sweep[z]
  BY <1>1, PuttingSweep, Zenon DEF TypeOK
<1>11. TypeOK'
  BY <1>1, <1>7, <1>8, <1>9, <1>10, Zenon DEF TypeOK
<1>12. Buried(k, "sweep")
  BY <1>1, <1>3, <1>4, <1>7, <1>8, Zenon DEF Buried, Burial, TypeOK
<1>13. \A j \in Key \ {k} : Kept(j)
  BY <1>1, <1>7, <1>8, Zenon DEF Kept, TypeOK
<1>14. KeySteps
  BY <1>1, <1>12, <1>13 DEF KeySteps, KeyStep, TypeOK
<1>15. SweepInv(s)'
  BY <1>1, <1>14, SweptStable, Zenon
<1> QED
  BY <1>1, <1>8, <1>10, <1>11, <1>12, <1>14, <1>15, Zenon DEF SweepGoal, cur

\* Every step of a sweep.
LEMMA SweepStep ==
  ASSUME HolderAssumption, ManagerAssumption, IInv, NEW s \in Sweeper, Sweep(s)
  PROVE  SweepGoal(s)
<1>1. TypeOK
  BY Zenon DEF IInv
<1>2. CASE SweepList(s)
  BY <1>2, ListStep, Zenon
<1>3. CASE SweepPick(s)
  BY <1>3, PickStep, Zenon
<1>4. CASE SweepEnd(s)
  <2>1. sweep'[s] = Resting
    BY <1>1, <1>4, Zenon DEF SweepEnd, TypeOK
  <2>2. SweepInv(s)'
    BY <2>1 DEF SweepInv, Resting
  <2> QED
    BY <1>1, <1>4, <2>2, QuietSweep, Zenon DEF SweepEnd
<1>5. ASSUME NEW k \in Key, SweepPut(s, k) PROVE SweepGoal(s)
  BY <1>5, SweepPutStep, Zenon
<1>6. ASSUME NEW k \in Key, SweepSkip(s, k) PROVE SweepGoal(s)
  <2>1. KeySteps /\ clock' = clock
    BY <1>1, <1>6, NoWriteKeeps, Zenon DEF SweepSkip
  <2>2. SweepInv(s)'
    BY <1>6, <2>1, SweptStable, Zenon DEF SweepSkip
  <2>3. /\ [sweep[s] EXCEPT !.todo = @ \ {k}] \in Putting
        /\ sweep' = [sweep EXCEPT ![s] = [sweep[s] EXCEPT !.todo = @ \ {k}]]
    BY <1>1, <1>6, PuttingSweep, Zenon DEF SweepSkip
  <2> QED
    BY <1>1, <1>6, <2>2, <2>3, QuietSweep, Zenon DEF SweepSkip
<1> QED
  BY <1>2, <1>3, <1>4, <1>5, <1>6, Zenon DEF Sweep

\* What earlier replicas left is a record that nobody holds.
LEMMA LeftRecord ==
  ASSUME NEW r \in {NoRecord} \cup LeftBehind
  PROVE  r \in Record /\ r.token <= MaxToken /\ r.holder = NoHolder /\ ExpiresAt(r) = 0
<1>1. CASE r = NoRecord
  BY <1>1, ManagerAssumption DEF NoRecord, Record, ExpiresAt
<1>2. CASE r \in LeftBehind
  <2>1. PICK t \in Token : r = [NoRecord EXCEPT !.token = t, !.version = 2 * t]
    BY <1>2, Zenon DEF LeftBehind
  <2>2. t \in Nat /\ 2 * t \in Nat /\ t <= MaxToken
    BY ManagerAssumption DEF Token
  <2>3. r = [holder |-> NoHolder, ttl |-> 0, acquiredAt |-> 0, renewedAt |-> 0,
             token |-> t, version |-> 2 * t]
    BY <2>1, Zenon DEF NoRecord
  <2> QED BY <2>2, <2>3 DEF Record, ExpiresAt
<1> QED BY <1>1, <1>2, Zenon

-----------------------------------------------------------------------------
\* A store without tenures and idle replicas satisfy the inductive invariant.
LEMMA InitInvariant ==
  ASSUME ManagerAssumption, Init
  PROVE  IInv
<1>1. \A k \in Key : /\ store[k] \in Record /\ store[k].token <= MaxToken
                      /\ store[k].holder = NoHolder
  BY LeftRecord, Zenon DEF Init
<1>2. TypeOK
  <2>1. StoreTypeOK /\ \A k \in Key : store[k].token <= MaxToken
    BY <1>1, Zenon DEF Init, StoreTypeOK
  <2> QED BY <2>1 DEF Init, TypeOK, Reply, ManagerAssumption
<1>3. \A p \in Proc : CallInv(p)
  BY Zenon DEF Init, CallInv, Idle
<1>4. \A s \in Sweeper : SweepInv(s)
  BY Zenon DEF Init, SweepInv, Resting
<1>5. \A k \in Key : LedgerInv(k)
  BY <1>1, Zenon DEF Init, LedgerInv
<1> QED
  BY <1>2, <1>3, <1>4, <1>5, Zenon
     DEF IInv, Init, VersionGatesOneWrite, FencingMonotone, ExclusiveTenure, TenureContinuous

\* What every step of the system comes to.
StepEffect ==
  /\ TypeOK'
  /\ KeySteps
  /\ \A p \in Proc : CallInv(p)'
  /\ \A s \in Sweeper : SweepInv(s)'

\* Every step of the system leaves each key alone or makes one justified write,
\* and leaves every call and sweep with what it relies on.
LEMMA NextEffect ==
  ASSUME HolderAssumption, ManagerAssumption, IInv, [Next]_vars
  PROVE  StepEffect
<1>1. TypeOK /\ (\A p \in Proc : CallInv(p)) /\ (\A s \in Sweeper : SweepInv(s))
  BY Zenon DEF IInv
<1>2. ASSUME TypeOK', KeySteps, NEW p \in Proc, CallInv(p)', sweep' = sweep,
             \A q \in Proc \ {p} : call'[q] = call[q]
      PROVE  StepEffect
  <2>1. \A q \in Proc : CallInv(q)'
    BY <1>1, <1>2, CallStable, Zenon
  <2>2. \A s \in Sweeper : SweepInv(s)'
    BY <1>1, <1>2, SweepStable, Zenon
  <2> QED
    BY <1>2, <2>1, <2>2, Zenon DEF StepEffect
<1>3. ASSUME NEW p \in Proc, Step(p) PROVE StepEffect
  BY <1>2, <1>3, RequestStep, Zenon DEF StepGoal
<1>4. ASSUME NEW p \in Proc, NEW req \in Requests, Begin(p, req) PROVE StepEffect
  BY <1>2, <1>4, BeginStep, Zenon
<1>5. ASSUME NEW s \in Sweeper, Sweep(s) PROVE StepEffect
  <2>1. SweepGoal(s)
    BY <1>5, SweepStep, Zenon
  <2>2. \A q \in Proc : CallInv(q)'
    BY <1>1, <2>1, CallStable, Zenon DEF SweepGoal
  <2>3. \A z \in Sweeper : SweepInv(z)'
    BY <1>1, <2>1, SweepStable, Zenon DEF SweepGoal
  <2> QED
    BY <2>1, <2>2, <2>3, Zenon DEF StepEffect, SweepGoal
<1>6. ASSUME NoWrite, UNCHANGED <<call, sweep, calls>>,
             clock' \in 0 .. MaxClock, clock' = clock \/ clock' = clock + 1
      PROVE  StepEffect
  <2>1. TypeOK'
    BY <1>1, <1>6, Zenon DEF TypeOK, StoreTypeOK, NoWrite
  <2>2. KeySteps
    BY <1>1, <1>6 DEF TypeOK, NoWrite, KeySteps, KeyStep, Kept
  <2>3. (\A p \in Proc : CallInv(p)') /\ (\A s \in Sweeper : SweepInv(s)')
    BY <1>1, <1>6, <2>2, CallStable, SweepStable, Zenon
  <2> QED
    BY <2>1, <2>2, <2>3, Zenon DEF StepEffect
<1>7. CASE Tick
  <2>1. clock' \in 0 .. MaxClock /\ clock' = clock + 1
    BY <1>1, <1>7 DEF Tick, TypeOK, ManagerAssumption
  <2> QED
    BY <1>6, <1>7, <2>1, Zenon DEF Tick
<1>8. CASE UNCHANGED vars
  <2>1. clock' \in 0 .. MaxClock /\ clock' = clock
    BY <1>1, <1>8, Zenon DEF vars, TypeOK
  <2> QED
    BY <1>6, <1>8, <2>1, Zenon DEF vars, NoWrite
<1> QED
  BY <1>3, <1>4, <1>5, <1>7, <1>8, Zenon DEF Next, Quiet

\* The inductive invariant is preserved by every step of the system.
LEMMA StepInvariant ==
  ASSUME HolderAssumption, ManagerAssumption, IInv, [Next]_vars
  PROVE  IInv'
<1>1. StepEffect
  BY NextEffect, Zenon
<1>2. \A k \in Key : LedgerInv(k)'
  BY <1>1, LedgerStable, Zenon DEF IInv, StepEffect, KeySteps
<1>3. VersionGatesOneWrite' /\ FencingMonotone' /\ TenureContinuous' /\ ExclusiveTenure'
  BY <1>1, VersionsStable, FencingStable, ContinuityStable, ExclusionStable, Zenon
     DEF IInv, StepEffect
<1> QED
  BY <1>1, <1>2, <1>3, Zenon DEF IInv, StepEffect

\* Manager and TTLEnforcer together keep the inductive invariant: no call or
\* sweep ever holds a write that its reading of the record does not justify.
THEOREM Invariance == Spec => []IInv
<1>1. Init => IInv
  BY InitInvariant, ManagerAssumption, Zenon
<1>2. IInv /\ [Next]_vars => IInv'
  BY StepInvariant, HolderAssumption, ManagerAssumption, Zenon
<1> QED
  BY <1>1, <1>2, PTL DEF Spec

\* Records, calls and sweeps keep their types, and Acquire's ceiling check
\* keeps every stored token within int32.
THEOREM TypeCorrect == Spec => []TypeOK
<1>1. IInv => TypeOK
  BY Zenon DEF IInv
<1> QED
  BY <1>1, Invariance, PTL

\* The fencing tokens Acquire issues for a key only grow, never name two
\* holders, and never return once Release or the sweep has retired them.
THEOREM TokensFence == Spec => []FencingMonotone
<1>1. IInv => FencingMonotone
  BY Zenon DEF IInv
<1> QED
  BY <1>1, Invariance, PTL

\* The version Store.Put checks gates at most one durable write per key.
THEOREM OneWritePerVersion == Spec => []VersionGatesOneWrite
<1>1. IInv => VersionGatesOneWrite
  BY Zenon DEF IInv
<1> QED
  BY <1>1, Invariance, PTL

\* No interleaving of Acquire, Renew, Release and sweeps takes a lease from
\* its holder while no replica's clock can have passed its expiry.
THEOREM Exclusion == Spec => []ExclusiveTenure
<1>1. IInv => ExclusiveTenure
  BY Zenon DEF IInv
<1> QED
  BY <1>1, Invariance, PTL

\* Renew and the renewing case of Acquire never bridge a lapse.
THEOREM NoLapseBridged == Spec => []TenureContinuous
<1>1. IInv => TenureContinuous
  BY Zenon DEF IInv
<1> QED
  BY <1>1, Invariance, PTL

-----------------------------------------------------------------------------
\* TTLEnforcer.collect only ever tombstones a record that is still the one it
\* scanned, and that had expired for the grace window.
THEOREM SweepSpares == Spec => SweepSparesLiveLeases
<1> DEFINE A == \A s \in Sweeper, k \in Key :
                  (sweep'[s] # sweep[s] /\ store'[k] # store[k]) =>
                    /\ store[k] = sweep[s].snap[k]
                    /\ ExpiresAt(store[k]) + Grace <= clock + Skew
<1>1. IInv /\ [Next]_vars => A
  <2> SUFFICES ASSUME IInv, [Next]_vars, NEW s \in Sweeper, NEW k \in Key,
                      sweep'[s] # sweep[s], store'[k] # store[k]
               PROVE  /\ store[k] = sweep[s].snap[k]
                      /\ ExpiresAt(store[k]) + Grace <= clock + Skew
    OBVIOUS
  <2>1. PICK z \in Sweeper : Sweep(z)
    <3>1. ASSUME NEW p \in Proc, Step(p) PROVE FALSE
      BY <3>1, RequestStep, HolderAssumption, ManagerAssumption, Zenon DEF StepGoal
    <3>2. ASSUME NEW p \in Proc, NEW req \in Requests, Begin(p, req) PROVE FALSE
      BY <3>2, Zenon DEF Begin
    <3> QED
      BY <3>1, <3>2, Zenon DEF Next, Tick, Quiet, vars
  <2>2. s = z
    BY <2>1, SweepStep, HolderAssumption, ManagerAssumption, Zenon DEF SweepGoal
  <2>3. PICK j \in Key : SweepPut(s, j)
    BY <2>1, <2>2, Zenon DEF Sweep, SweepList, SweepPick, SweepSkip, SweepEnd, NoWrite
  <2>4. Buried(j, "sweep") /\ store[j] = sweep[s].snap[j]
    BY <2>3, SweepPutStep, HolderAssumption, ManagerAssumption, Zenon
  <2>5. j = k
    BY <2>3, Zenon DEF SweepPut, PutWrites, IInv, TypeOK, StoreTypeOK
  <2> QED
    BY <2>4, <2>5, Zenon DEF Buried
<1> QED
  BY <1>1, Invariance, PTL DEF Spec, SweepSparesLiveLeases

\* What the manager does to one key is a claim, an extension or a vacation of
\* the atomic service.
LEMMA KeyRefines ==
  ASSUME HolderAssumption, ManagerAssumption, TypeOK, TypeOK', KeySteps,
         NEW k \in Key, ~Kept(k)
  PROVE  Service!LeaseStep
<1> DEFINE holder == [j \in Key |-> store[j].holder]
           token == [j \in Key |-> store[j].token]
           expires == [j \in Key |-> ExpiresAt(store[j])]
<1>1. /\ store \in [Key -> Record] /\ store' \in [Key -> Record]
      /\ clock' = clock /\ clock \in Int /\ Skew \in Int
      /\ TTLs \subseteq Nat /\ KeyStep(k)
      /\ \A j \in Key \ {k} : store'[j] = store[j]
  BY DEF TypeOK, StoreTypeOK, KeySteps, ManagerAssumption, Kept
<1>2. Appended(k)
  BY <1>1, Zenon DEF KeyStep, Granted, Buried
<1>3. /\ holder' = [holder EXCEPT ![k] = store'[k].holder]
      /\ token' = [token EXCEPT ![k] = store'[k].token]
      /\ expires' = [expires EXCEPT ![k] = ExpiresAt(store[k])']
  BY <1>1, Zenon DEF ExpiresAt
<1>4. /\ holder[k] = store[k].holder /\ token[k] = store[k].token
      /\ expires[k] = ExpiresAt(store[k]) /\ expires'[k] = ExpiresAt(store[k])'
  OBVIOUS
<1>5. Service!Redeadline(k)
  <2>1. ExpiresAt(store[k])' \in Int
    BY <1>1 DEF ExpiresAt, Record
  <2>2. PICK ttl \in TTLs \cup {0} : ttl = store'[k].ttl
    BY <1>2, Zenon DEF Appended, InTime
  <2>3. ExpiresAt(store[k])' <= clock + Skew + ttl
    BY <1>1, <1>2, <2>2 DEF Appended, InTime, ExpiresAt, Record
  <2> QED
    BY <1>3, <1>4, <2>1, <2>3, Zenon DEF Service!Redeadline
<1>6. CASE Takeover(store[k], store'[k])
  <2>1. PICK h \in Holder : h = store'[k].holder
    BY <1>6, Zenon DEF Takeover
  <2>2. store'[k].token = store[k].token + 1
    BY <1>6, Zenon DEF Takeover
  <2>3. Service!Claim(k, h)
    BY <1>3, <1>4, <1>5, <1>6, <2>1, <2>2, Zenon DEF Takeover, Service!Claim, Service!Lapsed
  <2> QED
    BY <1>1, <2>3, Zenon DEF Service!LeaseStep
<1>7. CASE Extension(store[k], store'[k])
  <2>1. holder' = holder /\ token' = token
    BY <1>3, <1>7, Zenon DEF Extension
  <2>2. Service!Extend(k)
    BY <1>4, <1>5, <1>7, <2>1, Zenon DEF Extension, Service!Extend
  <2> QED
    BY <1>1, <2>2, Zenon DEF Service!LeaseStep
<1>8. CASE Burial(store[k], store'[k])
  <2>1. token' = token /\ holder' = [holder EXCEPT ![k] = NoHolder]
    BY <1>3, <1>8, Zenon DEF Burial
  <2>2. Service!Vacate(k)
    BY <1>4, <1>5, <1>8, <2>1, Zenon DEF Burial, Service!Vacate
  <2> QED
    BY <1>1, <2>2, Zenon DEF Service!LeaseStep
<1> QED
  BY <1>1, <1>6, <1>7, <1>8, Zenon DEF KeyStep, Granted, Buried

\* Acquire, Renew, Release and the sweep, with all their interleavings, retries
\* and unreported writes, implement the atomic lease service.
THEOREM Refinement == Spec => ImplementsService
<1>1. Init => Service!Unclaimed
  <2> SUFFICES ASSUME Init PROVE Service!Unclaimed
    OBVIOUS
  <2>1. ASSUME NEW k \in Key
        PROVE  store[k].holder = NoHolder /\ store[k].token \in Nat /\ ExpiresAt(store[k]) = 0
    <3>1. store[k] \in {NoRecord} \cup LeftBehind
      BY Zenon DEF Init
    <3> QED BY <3>1, LeftRecord, Zenon DEF Record
  <2> QED BY <2>1, Zenon DEF Init, Service!Unclaimed
<1>2. IInv /\ IInv' /\ [Next]_vars =>
        [Service!LeaseStep \/ Service!Advance]_<<Service!leaseVars, clock>>
  <2> SUFFICES ASSUME IInv, IInv', [Next]_vars
               PROVE  [Service!LeaseStep \/ Service!Advance]_<<Service!leaseVars, clock>>
    OBVIOUS
  <2>1. TypeOK /\ TypeOK' /\ KeySteps
    BY NextEffect, HolderAssumption, ManagerAssumption, Zenon DEF IInv, StepEffect
  <2>2. CASE \E k \in Key : ~Kept(k)
    BY <2>1, <2>2, KeyRefines, HolderAssumption, ManagerAssumption, Zenon
  <2>3. CASE \A k \in Key : Kept(k)
    <3>1. store' = store
      BY <2>1, <2>3 DEF Kept, TypeOK, StoreTypeOK
    <3>2. UNCHANGED Service!leaseVars
      BY <3>1, Zenon DEF Service!leaseVars, ExpiresAt
    <3> QED
      BY <2>1, <3>2, Zenon DEF KeySteps, Service!Advance
  <2> QED
    BY <2>2, <2>3, Zenon
<1> QED
  BY <1>1, <1>2, Invariance, PTL DEF Spec, ImplementsService, Service!LeaseSpec
=============================================================================
