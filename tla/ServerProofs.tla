---------------------------- MODULE ServerProofs ----------------------------
(***************************************************************************)
(* The readiness gate's promises, for any number of requests, any cache    *)
(* window and any probe timeout.  What the checks of the lease routes      *)
(* promise, for any tenants, keys, holders and requests.                   *)
(***************************************************************************)
EXTENDS Readiness, ApiServer, TLAPS

Types ==
  /\ gate \in [primed : BOOLEAN, checkedAt : Nat, ok : BOOLEAN]
  /\ mu \in Caller \cup {None} /\ began \in Nat /\ seen \subseteq BOOLEAN
  /\ caller \in [Caller -> {"idle", "wait", "probe"}] /\ since \in [Caller -> Nat]
  /\ backend \in {"up", "down", "hung"} /\ was \in [BOOLEAN -> Nat]
  /\ answer \in {0, 200, 503} /\ probes \in Nat /\ now \in Nat /\ changes \in Nat

\* Nothing is dated in the future; the store's present state is dated now.
PastInv ==
  /\ gate.checkedAt <= now /\ was[Up] = now
  /\ \A b \in BOOLEAN : was[b] <= now
  /\ \A r \in Caller : since[r] <= now

\* A running probe is not overdue, has met the store since it began, and is the
\* one that everybody waits for.
ProbeInv ==
  mu # None =>
    /\ began <= now /\ now <= began + Timeout
    /\ \A b \in seen : began <= was[b]
    /\ \A r \in Caller : caller[r] # "idle" => began <= since[r]
    /\ probes * CacheTTL <= began + CacheTTL

\* Between probes, a request that waits has just arrived or will be answered
\* from a result of this very moment.
CacheInv ==
  mu = None =>
    /\ \A r \in Caller : caller[r] # "idle" =>
         \/ since[r] = now
         \/ gate.primed /\ gate.checkedAt = now /\ now <= since[r] + Timeout
    /\ probes * CacheTTL <= IF gate.primed THEN gate.checkedAt + CacheTTL ELSE 0

\* The result kept was true when its probe began or later.
ResultInv == gate.primed => gate.checkedAt <= was[gate.ok] + Timeout

\* Only the request that holds the mutex probes.
OwnerInv == \A r \in Caller : (caller[r] = "probe") = (mu = r)

IInv ==
  Types /\ PastInv /\ ProbeInv /\ CacheInv /\ ResultInv /\ OwnerInv /\ AnswersAreRecent

-----------------------------------------------------------------------------
\* One more probe is one more window.
LEMMA Window == \A n \in Nat : (n + 1) * CacheTTL = n * CacheTTL + CacheTTL /\ n * CacheTTL \in Nat /\ 0 * CacheTTL = 0
BY ReadinessAssumption

\* The initial state meets the invariant.
LEMMA InitInv == ReadyInit => IInv
<1> SUFFICES ASSUME ReadyInit PROVE IInv
  OBVIOUS
<1>1. Types /\ PastInv /\ ProbeInv /\ ResultInv /\ OwnerInv /\ AnswersAreRecent
  BY ReadinessAssumption
  DEF ReadyInit, Types, PastInv, ProbeInv, ResultInv, OwnerInv, AnswersAreRecent, Up
<1>2. CacheInv
  BY Window DEF ReadyInit, CacheInv
<1> QED BY <1>1, <1>2, Zenon DEF IInv

\* A request arrives.
LEMMA ArriveInv == ASSUME IInv, NEW r \in Caller, Arrive(r) PROVE IInv'
<1> USE ReadinessAssumption
<1>1. Types' /\ PastInv' /\ ResultInv' /\ AnswersAreRecent'
  BY DEF IInv, Arrive, storeVars, Types, PastInv, ResultInv, AnswersAreRecent, Up
<1>2. ProbeInv' /\ CacheInv' /\ OwnerInv'
  BY DEF IInv, Arrive, storeVars, Types, ProbeInv, CacheInv, OwnerInv
<1> QED BY <1>1, <1>2, Zenon DEF IInv

\* An answer from the cache.
LEMMA CachedInv == ASSUME IInv, NEW r \in Caller, Cached(r) PROVE IInv'
<1> USE ReadinessAssumption
<1>1. Types' /\ PastInv' /\ ResultInv'
  BY DEF IInv, Cached, Answers, storeVars, Types, PastInv, ResultInv, Up
<1>2. ProbeInv' /\ CacheInv' /\ OwnerInv'
  BY DEF IInv, Cached, Answers, storeVars, Types, ProbeInv, CacheInv, OwnerInv
<1>3. AnswersAreRecent'
  <2>1. /\ gate.ok \in BOOLEAN /\ gate.checkedAt \in Nat /\ now \in Nat /\ was[gate.ok] \in Nat
        /\ gate.checkedAt <= was[gate.ok] + Timeout /\ now - gate.checkedAt < CacheTTL
        /\ was' = was /\ now' = now /\ answer' = (IF gate.ok THEN 200 ELSE 503)
    BY DEF IInv, Cached, Fresh, Answers, storeVars, Types, ResultInv
  <2>2. now - was[gate.ok] < Timeout + CacheTTL
    BY <2>1
  <2>3. CASE gate.ok = TRUE
    <3>1. answer' = 200
      BY <2>1, <2>3, Zenon
    <3>a. answer' # 503
      BY <3>1
    <3>2. now' - was'[TRUE] < Timeout + CacheTTL
      BY <2>1, <2>2, <2>3, Zenon
    <3> QED BY <3>a, <3>2, Zenon DEF AnswersAreRecent
  <2>4. CASE gate.ok = FALSE
    <3>1. answer' = 503
      BY <2>1, <2>4, Zenon
    <3>a. answer' # 200
      BY <3>1
    <3>2. now' - was'[FALSE] < Timeout + CacheTTL
      BY <2>1, <2>2, <2>4, Zenon
    <3> QED BY <3>a, <3>2, Zenon DEF AnswersAreRecent
  <2> QED BY <2>1, <2>3, <2>4, Zenon
<1> QED BY <1>1, <1>2, <1>3, Zenon DEF IInv

\* A probe begins: whoever waits has arrived at this moment.
LEMMA BeginInv == ASSUME IInv, NEW r \in Caller, Probe(r) PROVE IInv'
<1> USE ReadinessAssumption
<1>1. Types' /\ PastInv' /\ ResultInv' /\ AnswersAreRecent'
  BY DEF IInv, Probe, storeVars, Types, PastInv, ResultInv, AnswersAreRecent, Up
<1>2. OwnerInv' /\ mu' # None
  BY DEF IInv, Probe, Types, OwnerInv
<1>3. ASSUME NEW q \in Caller, caller'[q] # "idle" PROVE now <= since[q]
  BY <1>3 DEF IInv, Probe, Types, CacheInv, Fresh
<1>4. (probes + 1) * CacheTTL <= now + CacheTTL
  <2>1. probes \in Nat /\ now \in Nat /\ gate.checkedAt \in Nat /\ gate.primed \in BOOLEAN
        /\ probes * CacheTTL <= (IF gate.primed THEN gate.checkedAt + CacheTTL ELSE 0)
        /\ (gate.primed => ~(now - gate.checkedAt < CacheTTL))
    BY DEF IInv, Probe, Types, CacheInv, Fresh
  <2>2. probes * CacheTTL \in Nat /\ (probes + 1) * CacheTTL = probes * CacheTTL + CacheTTL
    BY <2>1, Window, Zenon
  <2> DEFINE x == probes * CacheTTL
             y == (probes + 1) * CacheTTL
  <2>3. x \in Nat /\ y = x + CacheTTL /\ x <= (IF gate.primed THEN gate.checkedAt + CacheTTL ELSE 0)
    BY <2>1, <2>2, Zenon
  <2> HIDE DEF x, y
  <2>4. x <= now
    BY <2>1, <2>3
  <2>5. y <= now + CacheTTL
    BY <2>1, <2>3, <2>4
  <2> QED BY <2>5, Zenon DEF y
<1>5. ProbeInv'
  BY <1>3, <1>4 DEF IInv, Probe, storeVars, Types, PastInv, ProbeInv, Up
<1>6. CacheInv'
  BY <1>2, Zenon DEF CacheInv
<1> QED BY <1>1, <1>2, <1>5, <1>6, Zenon DEF IInv

\* A probe ends, with an answer or at its timeout.
LEMMA EndInv == ASSUME IInv, NEW r \in Caller, Returns(r) \/ TimesOut(r) PROVE IInv'
<1> USE ReadinessAssumption
<1>1. PICK ok \in seen : Probed(r, ok) /\ Answers(r, ok) /\ UNCHANGED <<probes, storeVars>>
  BY Zenon DEF Returns, TimesOut
<1>2. ok \in BOOLEAN /\ mu = r /\ mu # None /\ now \in Nat /\ began \in Nat /\ was[ok] \in Nat
      /\ began <= was[ok] /\ now <= began + Timeout
  <2>1. seen \subseteq BOOLEAN /\ mu = r /\ mu # None /\ now \in Nat /\ began \in Nat
        /\ was \in [BOOLEAN -> Nat]
    <3>1. mu = r /\ mu # None
      BY Zenon DEF Returns, TimesOut
    <3> QED BY <3>1, Zenon DEF IInv, Types
  <2>2. ok \in BOOLEAN
    BY <2>1, Zenon
  <2>3. was[ok] \in Nat
    BY <2>1, <2>2, Zenon
  <2>4. began <= was[ok] /\ now <= began + Timeout
    BY <2>1, Zenon DEF IInv, ProbeInv
  <2> QED BY <2>1, <2>2, <2>3, <2>4, Zenon
<1>3. /\ gate' = [primed |-> TRUE, checkedAt |-> now, ok |-> ok] /\ mu' = None
      /\ was' = was /\ now' = now /\ probes' = probes /\ backend' = backend
      /\ answer' = (IF ok THEN 200 ELSE 503)
  BY <1>1, Zenon DEF Probed, Answers, storeVars
<1>4. Types'
  BY <1>1, <1>2 DEF IInv, Types, Probed, Answers, storeVars
<1>5. PastInv'
  BY <1>1, <1>2 DEF IInv, Types, PastInv, Probed, Answers, storeVars, Up
<1>6. ProbeInv' /\ OwnerInv'
  BY <1>1, <1>2, <1>3 DEF IInv, Types, ProbeInv, OwnerInv, Probed, Answers
<1>7. CacheInv'
  <2>1. ASSUME NEW q \in Caller, caller'[q] # "idle"
        PROVE  gate'.primed /\ gate'.checkedAt = now' /\ now' <= since'[q] + Timeout
    <3>1. q # r /\ caller[q] # "idle" /\ since'[q] = since[q] /\ since[q] \in Nat
      BY <1>1, <2>1 DEF IInv, Types, Answers
    <3>2. began <= since[q]
      BY <1>2, <3>1, Zenon DEF IInv, ProbeInv
    <3> QED BY <1>2, <1>3, <3>1, <3>2
  <2>2. probes * CacheTTL <= now + CacheTTL
    <3>1. probes * CacheTTL <= began + CacheTTL /\ began <= now /\ probes * CacheTTL \in Nat
      BY <1>2, Window, Zenon DEF IInv, ProbeInv, Types
    <3> DEFINE x == probes * CacheTTL
    <3>2. x <= began + CacheTTL /\ x \in Nat
      BY <3>1, Zenon
    <3> HIDE DEF x
    <3>3. x <= now + CacheTTL
      BY <1>2, <3>1, <3>2
    <3> QED BY <3>3, Zenon DEF x
  <2> QED BY <1>3, <2>1, <2>2, Zenon DEF CacheInv
<1>8. ResultInv'
  BY <1>2, <1>3 DEF ResultInv
<1>9. AnswersAreRecent'
  <2>1. now - was[ok] < Timeout + CacheTTL
    BY <1>2
  <2>2. CASE ok = TRUE
    <3>1. answer' = 200
      BY <1>3, <2>2, Zenon
    <3>a. answer' # 503
      BY <3>1
    <3>2. now' - was'[TRUE] < Timeout + CacheTTL
      BY <1>3, <2>1, <2>2, Zenon
    <3> QED BY <3>a, <3>2, Zenon DEF AnswersAreRecent
  <2>3. CASE ok = FALSE
    <3>1. answer' = 503
      BY <1>3, <2>3, Zenon
    <3>a. answer' # 200
      BY <3>1
    <3>2. now' - was'[FALSE] < Timeout + CacheTTL
      BY <1>3, <2>1, <2>3, Zenon
    <3> QED BY <3>a, <3>2, Zenon DEF AnswersAreRecent
  <2> QED BY <1>2, <2>2, <2>3, Zenon
<1> QED BY <1>4, <1>5, <1>6, <1>7, <1>8, <1>9, Zenon DEF IInv

\* The store changes.
LEMMA ChangeInv == ASSUME IInv, Change PROVE IInv'
<1> USE ReadinessAssumption
<1>0. /\ Up \in BOOLEAN /\ (backend' = "up") \in BOOLEAN /\ now \in Nat /\ Types
      /\ was' = [b \in BOOLEAN |-> IF b \in {Up, backend' = "up"} THEN now ELSE was[b]]
      /\ answer' = 0 /\ UNCHANGED <<gate, mu, began, caller, since, probes, now>>
  BY Zenon DEF IInv, Types, Change, Up
<1>1. /\ was' \in [BOOLEAN -> Nat] /\ \A b \in BOOLEAN : was[b] <= was'[b] /\ was'[b] <= now
      /\ was'[backend' = "up"] = now
  BY <1>0 DEF IInv, PastInv, Types
<1>2. Types' /\ OwnerInv' /\ AnswersAreRecent'
  <2>0. seen \subseteq BOOLEAN /\ (seen' = seen \/ seen' = seen \cup {backend' = "up"})
    BY <1>0, Zenon DEF Change, Types
  <2>1. seen' \subseteq BOOLEAN
    <3>1. {backend' = "up"} \subseteq BOOLEAN
      BY <1>0, Zenon
    <3> DEFINE u == {backend' = "up"}
    <3> HIDE DEF u
    <3>2. u \subseteq BOOLEAN /\ (seen' = seen \/ seen' = seen \cup u)
      BY <2>0, <3>1, Zenon DEF u
    <3> QED BY <2>0, <3>2, Zenon
  <2>2. backend' \in {"up", "down", "hung"} /\ changes' \in Nat
    BY <1>0 DEF Change, Types
  <2> QED BY <1>0, <1>1, <2>1, <2>2 DEF IInv, Types, OwnerInv, AnswersAreRecent
<1>3. PastInv' /\ CacheInv'
  BY <1>0, <1>1 DEF IInv, Types, PastInv, CacheInv, Up
<1>4. ProbeInv'
  <2> SUFFICES ASSUME mu # None
               PROVE  \A b \in seen' : began <= was'[b]
    BY <1>0, Zenon DEF IInv, ProbeInv
  <2>1. seen' = seen \cup {backend' = "up"} /\ seen \subseteq BOOLEAN /\ began \in Nat
    BY <1>0, Zenon DEF Change, Types
  <2>2. began <= now /\ \A b \in seen : began <= was[b]
    BY Zenon DEF IInv, ProbeInv
  <2> QED BY <1>0, <1>1, <2>1, <2>2, Zenon DEF Types
<1>5. ResultInv'
  BY <1>0, <1>1 DEF IInv, Types, ResultInv
<1> QED BY <1>2, <1>3, <1>4, <1>5, Zenon DEF IInv

\* Time passes: nobody is left waiting without a probe, and no probe is overdue.
LEMMA TickInv == ASSUME IInv, TimePasses PROVE IInv'
<1> USE ReadinessAssumption
<1>0. /\ Up \in BOOLEAN /\ now \in Nat /\ Types /\ now' = now + 1 /\ answer' = 0
      /\ was' = [was EXCEPT ![Up] = now + 1]
      /\ UNCHANGED <<gate, mu, began, seen, caller, since, backend, probes, changes>>
  BY DEF IInv, Types, TimePasses, Up
<1>1. was' \in [BOOLEAN -> Nat] /\ was'[Up] = now + 1
      /\ \A b \in BOOLEAN : was[b] <= was'[b] /\ was'[b] <= now + 1
  BY <1>0 DEF IInv, PastInv, Types
<1>2. Types' /\ OwnerInv' /\ AnswersAreRecent'
  BY <1>0, <1>1 DEF IInv, Types, OwnerInv, AnswersAreRecent
<1>3. PastInv'
  BY <1>0, <1>1 DEF IInv, Types, PastInv, Up
<1>4. ProbeInv'
  BY <1>0, <1>1 DEF IInv, Types, ProbeInv, TimePasses
<1>5. CacheInv'
  BY <1>0 DEF IInv, CacheInv, OwnerInv, TimePasses, Types
<1>6. ResultInv'
  BY <1>0, <1>1 DEF IInv, Types, ResultInv
<1> QED BY <1>2, <1>3, <1>4, <1>5, <1>6, Zenon DEF IInv

\* Every step keeps the invariant.
LEMMA NextInv == IInv /\ [ReadyNext]_readyVars => IInv'
<1> SUFFICES ASSUME IInv, [ReadyNext]_readyVars PROVE IInv'
  OBVIOUS
<1>1. CASE UNCHANGED readyVars
  <2>a. AnswersAreRecent'
    BY <1>1, Zenon DEF readyVars, IInv, AnswersAreRecent
  <2>b. PastInv' /\ ResultInv'
    BY <1>1, Zenon DEF readyVars, IInv, PastInv, ResultInv, Up
  <2>c. Types'
    BY <1>1 DEF readyVars, IInv, Types
  <2>2. ProbeInv' /\ CacheInv' /\ OwnerInv'
    BY <1>1, Zenon DEF readyVars, IInv, ProbeInv, CacheInv, OwnerInv
  <2> QED BY <2>a, <2>b, <2>c, <2>2, Zenon DEF IInv
<1> QED BY <1>1, ArriveInv, CachedInv, BeginInv, EndInv, ChangeInv, TickInv, Zenon
        DEF ReadyNext, ready, Horizon

\* IInv holds in every reachable state.
THEOREM Invariance == ReadySpec => []IInv
BY InitInv, NextInv, PTL DEF ReadySpec

\* Every readiness answer tells of a moment at most a probe and a cache window ago.
THEOREM Recent == ReadySpec => []AnswersAreRecent
<1>1. IInv => AnswersAreRecent
  BY Zenon DEF IInv
<1> QED BY <1>1, Invariance, PTL

\* No request waits for more than one probe.
THEOREM NoDoubleWait == ReadySpec => []NoRequestWaitsTwice
<1>1. IInv => NoRequestWaitsTwice
  BY ReadinessAssumption DEF IInv, Types, ProbeInv, CacheInv, NoRequestWaitsTwice
<1> QED BY <1>1, Invariance, PTL

\* The store is probed at most once per cache window.
THEOREM ProbeRate == ReadySpec => []OneProbePerWindow
<1>1. IInv => OneProbePerWindow
  <2> SUFFICES ASSUME IInv PROVE OneProbePerWindow
    OBVIOUS
  <2> DEFINE x == probes * CacheTTL
  <2>1. x \in Nat /\ (mu # None => x <= began + CacheTTL /\ began <= now)
        /\ (mu = None => x <= (IF gate.primed THEN gate.checkedAt + CacheTTL ELSE 0))
        /\ gate.checkedAt <= now /\ now \in Nat /\ began \in Nat /\ gate.checkedAt \in Nat
    BY Window, Zenon DEF IInv, Types, PastInv, ProbeInv, CacheInv
  <2> HIDE DEF x
  <2>2. x <= now + CacheTTL
    BY <2>1, ReadinessAssumption
  <2> QED BY <2>2, Zenon DEF x, OneProbePerWindow
<1> QED BY <1>1, Invariance, PTL

-----------------------------------------------------------------------------
(* The server's other routes: the requests about leases, with state of     *)
(* their own.                                                              *)


\* What is known of a request that has passed every check.
Passed(q) ==
  /\ q.key \in Key /\ q.holder # NoHolder
  /\ AuthMode # "none" => Owner[q.holder] = q.id.tenant

AInv ==
  /\ setup \in Setups
  /\ holder = [k \in Key |-> holder[k]] /\ token = [k \in Key |-> token[k]]
  /\ expires = [k \in Key |-> expires[k]] /\ req = [r \in Request |-> req[r]]
  /\ \A r \in Request : req[r].pc = "call" => Passed(req[r])

\* The first failed check decides.
LEMMA First ==
  ASSUME NEW S \in SUBSET (1 .. 8), S # {}
  PROVE  Min(S) \in S /\ \A i \in S : Min(S) <= i
<1>1. \E i \in S : \A j \in S : i <= j
  <2> SUFFICES ASSUME \A i \in S : \E j \in S : ~(i <= j) PROVE FALSE
    BY Zenon
  <2>1. \A i \in S : (\E j \in S : j < i) /\ i \in 1 .. 8
    OBVIOUS
  <2>2. FALSE
    <3>1. 1 \notin S
      BY <2>1
    <3>2. 2 \notin S
      BY <2>1, <3>1
    <3>3. 3 \notin S
      BY <2>1, <3>1, <3>2
    <3>4. 4 \notin S
      BY <2>1, <3>1, <3>2, <3>3
    <3>5. 5 \notin S
      BY <2>1, <3>1, <3>2, <3>3, <3>4
    <3>6. 6 \notin S
      BY <2>1, <3>1, <3>2, <3>3, <3>4, <3>5
    <3>7. 7 \notin S
      BY <2>1, <3>1, <3>2, <3>3, <3>4, <3>5, <3>6
    <3>8. 8 \notin S
      BY <2>1, <3>1, <3>2, <3>3, <3>4, <3>5, <3>6, <3>7
    <3>0. PICK i : i \in S
      OBVIOUS
    <3>9. i = 1 \/ i = 2 \/ i = 3 \/ i = 4 \/ i = 5 \/ i = 6 \/ i = 7 \/ i = 8
      BY <3>0
    <3> QED BY <3>1, <3>2, <3>3, <3>4, <3>5, <3>6, <3>7, <3>8, <3>0, <3>9
  <2> QED BY <2>2
<1> QED BY <1>1 DEF Min

\* A request goes on exactly if no check fails; else the first that fails gives
\* the status.
LEMMA RefusalIs ==
  ASSUME NEW in, NEW id
  PROVE  LET c == Checks(in, id) IN
         /\ Refusal(in, id) = 0 <=> \A i \in 1 .. 8 : ~c[i][1]
         /\ \A i \in 1 .. 8 : c[i][1] /\ (\A j \in 1 .. 8 : c[j][1] => i <= j) => Refusal(in, id) = c[i][2]
<1> DEFINE c == Checks(in, id)
           F == {i \in DOMAIN c : c[i][1]}
<1>1. DOMAIN c = 1 .. 8 /\ \A i \in 1 .. 8 : c[i][2] \in Nat \ {0}
  BY DEF Checks
<1>2. F # {} => Min(F) \in F /\ \A i \in F : Min(F) <= i
  BY <1>1, First
<1>3. Refusal(in, id) = IF F = {} THEN 0 ELSE c[Min(F)][2]
  BY Zenon DEF Refusal
<1> HIDE DEF c
<1>4. \A i : i \in F <=> i \in 1 .. 8 /\ c[i][1]
  BY <1>1
<1>5. Refusal(in, id) = 0 <=> F = {}
  BY <1>1, <1>2, <1>3, <1>4
<1>6. ASSUME NEW i \in 1 .. 8, c[i][1], \A j \in 1 .. 8 : c[j][1] => i <= j PROVE Refusal(in, id) = c[i][2]
  <2>1. i \in F /\ \A j \in F : i <= j
    BY <1>4, <1>6
  <2>2. Min(F) \in F /\ Min(F) <= i /\ i <= Min(F)
    BY <1>2, <2>1, Zenon
  <2>3. Min(F) \in 1 .. 8
    BY <1>4, <2>2, Zenon
  <2>4. Min(F) = i
    BY <2>2, <2>3
  <2> QED BY <1>3, <2>1, <2>4
<1>7. Refusal(in, id) = 0 <=> \A i \in 1 .. 8 : ~c[i][1]
  BY <1>4, <1>5, Zenon
<1> QED BY <1>6, <1>7 DEF c

\* The checks by their places.
LEMMA ChecksAre ==
  ASSUME NEW in, NEW id
  PROVE  LET c == Checks(in, id) IN
         /\ c[1][1] <=> ~id.ok
         /\ c[2][1] <=> in.body = "huge"
         /\ c[3][1] <=> in.body = "malformed"
         /\ c[4][1] <=> ~HolderValid(in)
         /\ c[5][1] <=> in.op = "renew" /\ in.token = 0
         /\ c[6][1] <=> in.op # "release" /\ in.ttl <= 0
         /\ c[7][1] <=> ~authorize(id, in.holder)
         /\ c[8][1] <=> in.key = BadKey
BY Zenon DEF Checks

\* The status of a check does not depend on the request.
LEMMA StatusIs ==
  ASSUME NEW in, NEW in2, NEW id, NEW i \in 1 .. 8
  PROVE  Checks(in, id)[i][2] = Checks(in2, id)[i][2]
<1>1. i = 1 \/ i = 2 \/ i = 3 \/ i = 4 \/ i = 5 \/ i = 6 \/ i = 7 \/ i = 8
  OBVIOUS
<1> QED BY <1>1 DEF Checks

\* A caller that is not authorized learns nothing of the rules for keys.
LEMMA HiddenRules ==
  ASSUME NEW in, in \in Requests, NEW id, in.holder # NoHolder, ~(id.ok /\ authorize(id, in.holder)), NEW k
  PROVE  Refusal(in, id) = Refusal([in EXCEPT !.key = k], id)
<1> DEFINE in2 == [in EXCEPT !.key = k]
           c == Checks(in, id)
           d == Checks(in2, id)
<1>1. /\ in2.op = in.op /\ in2.body = in.body /\ in2.holder = in.holder /\ in2.ttl = in.ttl
      /\ in2.token = in.token
  BY DEF Requests
<1>2. HolderValid(in2) <=> HolderValid(in)
  BY <1>1, Zenon DEF HolderValid
<1> HIDE DEF in2
<1>3. \A i \in 1 .. 7 : d[i][1] <=> c[i][1]
  <2>1. /\ d[1][1] <=> c[1][1]
        /\ d[2][1] <=> c[2][1]
        /\ d[3][1] <=> c[3][1]
        /\ d[4][1] <=> c[4][1]
        /\ d[5][1] <=> c[5][1]
        /\ d[6][1] <=> c[6][1]
        /\ d[7][1] <=> c[7][1]
    BY <1>1, <1>2, ChecksAre, ZenonT(60)
  <2>2. \A i \in 1 .. 7 : i = 1 \/ i = 2 \/ i = 3 \/ i = 4 \/ i = 5 \/ i = 6 \/ i = 7
    OBVIOUS
  <2> QED BY <2>1, <2>2, ZenonT(60)
<1>4. c[1][1] \/ c[7][1]
  BY ChecksAre, Zenon
<1> HIDE DEF c, d
<1>5. PICK i \in 1 .. 7 : c[i][1] /\ \A j \in 1 .. 7 : c[j][1] => i <= j
  <2> DEFINE S == {i \in 1 .. 7 : c[i][1]}
  <2>1. S \in SUBSET (1 .. 8) /\ S # {}
    BY <1>4
  <2>2. Min(S) \in S /\ \A j \in S : Min(S) <= j
    BY <2>1, First
  <2> QED BY <2>2
<1>6. \A j \in 1 .. 8 : (c[j][1] => i <= j) /\ (d[j][1] => i <= j)
  BY <1>3, <1>5
<1>7. Refusal(in, id) = c[i][2] /\ Refusal(in2, id) = d[i][2] /\ c[i][2] = d[i][2]
  <2>1. i \in 1 .. 8 /\ c[i][1] /\ d[i][1]
    BY <1>3, <1>5
  <2>2. Refusal(in, id) = c[i][2]
    BY <1>6, <2>1, RefusalIs, Zenon DEF c
  <2>3. Refusal(in2, id) = d[i][2]
    BY <1>6, <2>1, RefusalIs, Zenon DEF d
  <2>4. c[i][2] = d[i][2]
    BY <2>1, StatusIs, Zenon DEF c, d
  <2> QED BY <2>2, <2>3, <2>4
<1> QED BY <1>7, Zenon DEF in2

\* An oversized holder of an authorized caller passes exactly as a release.
LEMMA OldReleases ==
  ASSUME NEW in, NEW id, in.holder \in Oversized, id.ok, authorize(id, in.holder),
         in.body = "ok", in.key \in Key
  PROVE  Refusal(in, id) = 0 <=> in.op = "release"
<1> DEFINE c == Checks(in, id)
<1>1. HolderValid(in) <=> in.op = "release"
  BY ApiAssumption DEF HolderValid
<1>2. "ok" # "huge" /\ "ok" # "malformed" /\ "release" # "renew" /\ in.key # BadKey
  BY ApiAssumption
<1>3. in.op = "release" => /\ ~c[1][1] /\ ~c[2][1] /\ ~c[3][1] /\ ~c[4][1] /\ ~c[5][1] /\ ~c[6][1]
                           /\ ~c[7][1] /\ ~c[8][1]
  BY <1>1, <1>2, ChecksAre, Zenon
<1>4. in.op # "release" => c[4][1]
  BY <1>1, ChecksAre, Zenon
<1> HIDE DEF c
<1>5. (\A i \in 1 .. 8 : ~c[i][1]) <=> in.op = "release"
  <2>1. 4 \in 1 .. 8 /\ \A i \in 1 .. 8 : i = 1 \/ i = 2 \/ i = 3 \/ i = 4 \/ i = 5 \/ i = 6 \/ i = 7 \/ i = 8
    OBVIOUS
  <2> QED BY <1>3, <1>4, <2>1, Zenon
<1> QED BY <1>5, RefusalIs, Zenon DEF c

-----------------------------------------------------------------------------
\* A request that passes every check is authorized and its key is valid.
LEMMA PassedIs ==
  ASSUME setup \in Setups, NEW in \in Requests, Refusal(in, AuthMiddleware(in.bearer)) = 0
  PROVE  /\ in.key \in Key /\ in.holder # NoHolder
         /\ AuthMode # "none" => Owner[in.holder] = AuthMiddleware(in.bearer).tenant
<1>1. PICK id : id = AuthMiddleware(in.bearer)
  OBVIOUS
<1> DEFINE c == Checks(in, id)
<1>2. \A i \in 1 .. 8 : ~c[i][1]
  BY <1>1, RefusalIs, Zenon
<1>3. ~c[4][1] /\ ~c[7][1] /\ ~c[8][1]
  BY <1>2
<1>4. HolderValid(in) /\ authorize(id, in.holder) /\ in.key # BadKey
  BY <1>3, ChecksAre, Zenon
<1>5. in.key \in Key
  BY <1>4, ApiAssumption DEF Requests, Input
<1>6. AuthMode # "none" => ~id.anonymous
  BY <1>1 DEF AuthMiddleware, AuthenticateOIDC, AuthenticateStatic, Identity, Nobody
<1> QED BY <1>1, <1>4, <1>5, <1>6, Zenon DEF HolderValid, authorize

\* One call of the manager changes no other lease, and this one only for its
\* holder, or when it is free.
LEMMA ManagerIs ==
  ASSUME AInv, NEW r \in Request, req[r].pc = "call", NEW status, Manager(r, status)
  PROVE  /\ holder' = [k \in Key |-> holder'[k]] /\ token' = [k \in Key |-> token'[k]]
         /\ expires' = [k \in Key |-> expires'[k]]
         /\ \A k \in Key :
              \/ holder'[k] = holder[k] /\ token'[k] = token[k] /\ expires'[k] = expires[k]
              \/ k = req[r].key /\ (holder[k] = req[r].holder \/ holder[k] = NoHolder \/ Expired(k))
<1> DEFINE q == req[r].key
<1>1. q \in Key
  BY DEF AInv, Passed
<1>2. CASE UNCHANGED leaseVars
  BY <1>2 DEF AInv, leaseVars
<1>3. ASSUME holder' = holder \/ \E h : holder' = [holder EXCEPT ![q] = h],
             token' = token \/ \E t : token' = [token EXCEPT ![q] = t],
             \E e : expires' = [expires EXCEPT ![q] = e],
             holder[q] = req[r].holder \/ holder[q] = NoHolder \/ Expired(q)
      PROVE  /\ holder' = [k \in Key |-> holder'[k]] /\ token' = [k \in Key |-> token'[k]]
             /\ expires' = [k \in Key |-> expires'[k]]
             /\ \A k \in Key :
                  \/ holder'[k] = holder[k] /\ token'[k] = token[k] /\ expires'[k] = expires[k]
                  \/ k = q /\ (holder[k] = req[r].holder \/ holder[k] = NoHolder \/ Expired(k))
  BY <1>1, <1>3 DEF AInv
<1>4. CASE Acquire(r, status)
  BY <1>2, <1>3, <1>4 DEF Acquire, Deadline, Extend, Claim
<1>5. CASE Renew(r, status)
  BY <1>2, <1>3, <1>5 DEF Renew, Deadline, Extend
<1>6. CASE Release(r, status)
  BY <1>2, <1>3, <1>6 DEF Release, Vacate
<1> QED BY <1>4, <1>5, <1>6 DEF Manager

\* The step of a request in the manager, with or without an answer of its own.
LEMMA CallIs ==
  ASSUME AInv, NEW r \in Request, req[r].pc = "call",
         UNCHANGED leaseVars \/ \E status \in {200, 204, 409} : Manager(r, status),
         NEW code, Answer(r, code)
  PROVE  /\ holder' = [k \in Key |-> holder'[k]] /\ token' = [k \in Key |-> token'[k]]
         /\ expires' = [k \in Key |-> expires'[k]] /\ req' = [p \in Request |-> req'[p]]
         /\ \A p \in Request : p # r => req'[p] = req[p]
         /\ req'[r].pc = "answer"
         /\ \A k \in Key :
              \/ holder'[k] = holder[k] /\ token'[k] = token[k] /\ expires'[k] = expires[k]
              \/ k = req[r].key /\ (holder[k] = req[r].holder \/ holder[k] = NoHolder \/ Expired(k))
<1>1. /\ req' = [p \in Request |-> req'[p]] /\ req'[r].pc = "answer"
      /\ \A p \in Request : p # r => req'[p] = req[p]
  BY DEF AInv, Answer
<1>2. CASE UNCHANGED leaseVars
  BY <1>1, <1>2 DEF AInv, leaseVars
<1>3. CASE \E status \in {200, 204, 409} : Manager(r, status)
  <2>1. PICK status : Manager(r, status)
    BY <1>3, Zenon
  <2> QED BY <1>1, <2>1, ManagerIs
<1> QED BY <1>2, <1>3

\* The steps of a request in the manager.
Calling(r) == Call(r) \/ CallInvalid(r) \/ CallFails(r)

\* They answer their request and touch its lease only.
LEMMA CallingIs ==
  ASSUME AInv, NEW r \in Request, Calling(r)
  PROVE  /\ setup' = setup
         /\ holder' = [k \in Key |-> holder'[k]] /\ token' = [k \in Key |-> token'[k]]
         /\ expires' = [k \in Key |-> expires'[k]] /\ req' = [p \in Request |-> req'[p]]
         /\ \A p \in Request : p # r => req'[p] = req[p]
         /\ req'[r].pc = "answer"
         /\ \A k \in Key :
              \/ holder'[k] = holder[k] /\ token'[k] = token[k] /\ expires'[k] = expires[k]
              \/ k = req[r].key /\ (holder[k] = req[r].holder \/ holder[k] = NoHolder \/ Expired(k))
<1>1. setup' = setup /\ req[r].pc = "call"
  BY DEF Calling, Call, CallInvalid, CallFails, keyVars
<1>2. PICK code : Answer(r, code) /\ (UNCHANGED leaseVars \/ \E status \in {200, 204, 409} : Manager(r, status))
  <2>1. CASE Call(r)
    BY <2>1, Zenon DEF Call
  <2>2. CASE CallInvalid(r)
    BY <2>2, Zenon DEF CallInvalid
  <2>3. CASE CallFails(r)
    BY <2>3 DEF CallFails
  <2> QED BY <2>1, <2>2, <2>3, Zenon DEF Calling
<1> QED BY <1>1, <1>2, CallIs, ZenonT(60)

\* What every other step does to the leases and the requests.
LEMMA OtherIs ==
  ASSUME AInv, [Next]_vars
  PROVE  \/ \E r \in Request : Calling(r)
         \/ \E r \in Request : Handle(r)
         \/ /\ setup' = setup /\ UNCHANGED leaseVars /\ req' = [r \in Request |-> req'[r]]
            /\ \A r \in Request : req'[r] = req[r] \/ req'[r].pc = "idle"
<1>1. ASSUME NEW r \in Request, Reply(r)
      PROVE  /\ setup' = setup /\ UNCHANGED leaseVars /\ req' = [p \in Request |-> req'[p]]
             /\ \A p \in Request : req'[p] = req[p] \/ req'[p].pc = "idle"
  BY <1>1 DEF AInv, Reply, Idle, keyVars
<1>2. ASSUME NEW code, Exits(code)
      PROVE  /\ setup' = setup /\ UNCHANGED leaseVars /\ req' = [p \in Request |-> req'[p]]
             /\ \A p \in Request : req'[p] = req[p] \/ req'[p].pc = "idle"
  BY <1>2 DEF Exits, Idle, keyVars
<1>3. ASSUME UNCHANGED <<setup, leaseVars, req>>
      PROVE  /\ setup' = setup /\ UNCHANGED leaseVars /\ req' = [p \in Request |-> req'[p]]
             /\ \A p \in Request : req'[p] = req[p] \/ req'[p].pc = "idle"
  BY <1>3 DEF AInv
<1>4. ASSUME Edit \/ SendSIGHUP \/ Watch \/ Terminate \/ Tick \/ UNCHANGED vars
      PROVE  UNCHANGED <<setup, leaseVars, req>>
  BY <1>4, Zenon DEF Edit, SendSIGHUP, Watch, Receive, Load, Swap,
      Terminate, Tick, Advance, serverVars, keyVars, vars
<1> QED BY <1>1, <1>2, <1>3, <1>4, Zenon
        DEF Next, Serve, Calling, Stop, Shutdown, ShutdownTimesOut,
            ServeFails, Hangup, Gone

\* Every step keeps the invariant.
LEMMA ANext == AInv /\ [Next]_vars => AInv'
<1> SUFFICES ASSUME AInv, [Next]_vars PROVE AInv'
  OBVIOUS
<1>1. ASSUME setup' = setup, NEW r \in Request, req'[r] = req[r] \/ req'[r].pc \in {"idle", "answer"}, req'[r].pc = "call"
      PROVE  Passed(req[r])'
  BY <1>1 DEF AInv, Passed, AuthMode
<1>2. ASSUME NEW r \in Request, Calling(r) PROVE AInv'
  <2>2. /\ setup' = setup /\ req'[r].pc = "answer" /\ \A p \in Request : p # r => req'[p] = req[p]
        /\ holder' = [k \in Key |-> holder'[k]] /\ token' = [k \in Key |-> token'[k]]
        /\ expires' = [k \in Key |-> expires'[k]] /\ req' = [p \in Request |-> req'[p]]
    BY <1>2, CallingIs, Zenon
  <2>3. \A p \in Request : req'[p].pc = "call" => Passed(req[p])'
    BY <1>1, <2>2, Zenon
  <2> QED BY <2>2, <2>3, Zenon DEF AInv
<1>3. ASSUME NEW r \in Request, Handle(r) PROVE AInv'
  <2>1. PICK in \in Requests :
          LET id == AuthMiddleware(in.bearer)
              status == Refusal(in, id)
          IN req' = [req EXCEPT ![r] =
               IF status # 0 THEN Idle(status)
               ELSE [pc |-> "call", op |-> in.op, key |-> in.key, holder |-> in.holder,
                     token |-> in.token, id |-> id]]
    BY <1>3, Zenon DEF Handle
  <2>2. setup' = setup /\ UNCHANGED leaseVars
    BY <1>3 DEF Handle, keyVars
  <2>3. PICK id, status : id = AuthMiddleware(in.bearer) /\ status = Refusal(in, id)
    OBVIOUS
  <2>4. /\ req' = [p \in Request |-> req'[p]]
        /\ \A p \in Request : p # r => req'[p] = req[p]
        /\ req'[r] = IF status # 0 THEN Idle(status)
                     ELSE [pc |-> "call", op |-> in.op, key |-> in.key, holder |-> in.holder,
                           token |-> in.token, id |-> id]
    BY <2>1, <2>3 DEF AInv
  <2>5. req'[r].pc = "call" => status = 0 /\ req'[r].key = in.key /\ req'[r].holder = in.holder /\ req'[r].id = id
    BY <2>4 DEF Idle
  <2>6. req'[r].pc = "call" => Passed(req[r])'
    BY <2>2, <2>3, <2>5, PassedIs, Zenon DEF AInv, Passed, AuthMode
  <2>7. \A p \in Request : req'[p].pc = "call" => Passed(req[p])'
    BY <1>1, <2>2, <2>4, <2>6, Zenon
  <2> QED BY <2>2, <2>4, <2>7, Zenon DEF AInv, leaseVars
<1>4. ASSUME setup' = setup, UNCHANGED leaseVars, req' = [r \in Request |-> req'[r]],
             \A r \in Request : req'[r] = req[r] \/ req'[r].pc = "idle"
      PROVE  AInv'
  <2>1. \A p \in Request : req'[p].pc = "call" => Passed(req[p])'
    BY <1>1, <1>4, Zenon
  <2> QED BY <1>4, <2>1, Zenon DEF AInv, leaseVars
<1> QED BY <1>2, <1>3, <1>4, OtherIs, Zenon

\* The invariant holds.
LEMMA AInvariance == Spec => []AInv
<1>1. ASSUME Init PROVE AInv
  BY <1>1 DEF Init, LeaseInit, Unclaimed, AInv, Idle
<1> QED BY <1>1, ANext, PTL DEF Spec

\* A tenancy that has not run out is renewed or ended, and a free lease taken,
\* only by a request that authenticated as the tenant of that holder (authorize,
\* leases.go), for all tenants, keys, requests and reloads.
THEOREM Isolation == Spec => TenantIsolation
<1> DEFINE A == \A k \in Key, r \in Request :
       (AuthMode # "none" /\ <<holder[k], expires[k], token[k]>>' # <<holder[k], expires[k], token[k]>>
          /\ req[r].pc = "call" /\ req'[r].pc = "answer") =>
         /\ Owner[req[r].holder] = req[r].id.tenant
         /\ (holder[k] # NoHolder /\ ~Expired(k)) => Owner[holder[k]] = req[r].id.tenant
<1>1. AInv /\ [Next]_vars => [A]_(vars)
  <2> SUFFICES ASSUME AInv, [Next]_vars, NEW k \in Key, NEW r \in Request, AuthMode # "none",
                      <<holder[k], expires[k], token[k]>>' # <<holder[k], expires[k], token[k]>>,
                      req[r].pc = "call", req'[r].pc = "answer"
               PROVE  /\ Owner[req[r].holder] = req[r].id.tenant
                      /\ (holder[k] # NoHolder /\ ~Expired(k)) => Owner[holder[k]] = req[r].id.tenant
    BY Zenon
  <2>1. ~UNCHANGED leaseVars
    BY DEF leaseVars
  <2>2. PICK p \in Request : Calling(p)
    BY <2>1, OtherIs, Zenon DEF Handle
  <2>4. p = r
    BY <2>2, CallingIs, Zenon
  <2>5. k = req[r].key /\ (holder[k] = req[r].holder \/ holder[k] = NoHolder \/ Expired(k))
    BY <2>2, <2>4, CallingIs, Zenon
  <2>6. Owner[req[r].holder] = req[r].id.tenant
    BY Zenon DEF AInv, Passed
  <2> QED BY <2>5, <2>6, Zenon
<1>2. Spec => [][Next]_vars
  BY PTL DEF Spec
<1> QED BY <1>1, <1>2, AInvariance, PTL DEF TenantIsolation

\* The status of a caller who is not authorized does not depend on the key
\* (validateKey, leases.go), for all keys files, claims and requests.
THEOREM RulesHidden == Spec => []KeyRulesHidden
<1>1. KeyRulesHidden
  BY HiddenRules, Zenon DEF KeyRulesHidden
<1> QED BY <1>1, PTL

\* A holder longer than the limit is released and never renewed or acquired
\* (ValidateHolder, handleRelease), for all of them.
THEOREM OldReleasable == Spec => []OldHoldersReleasable
<1>1. OldHoldersReleasable
  BY OldReleases, Zenon DEF OldHoldersReleasable
<1> QED BY <1>1, PTL
=============================================================================
