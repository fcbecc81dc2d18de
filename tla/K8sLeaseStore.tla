---------------------------- MODULE K8sLeaseStore ----------------------------
(***************************************************************************)
(* K8sLeaseStore.Put (internal/lease/k8sstore.go): Berth's compare-and-    *)
(* swap on a version annotation, built on the kube-apiserver's own compare-*)
(* and-swap on resourceVersion, which every writer of the Lease object     *)
(* moves.  Concurrent Puts race each other and writers that touch only     *)
(* metadata Berth does not own.                                            *)
(***************************************************************************)
EXTENDS LeaseNames

CONSTANTS
  Holder, NoHolder,
  Writer,       \* concurrent Put calls, over all replicas
  Micro,        \* time.Microsecond in the model's unit of time
  Second,       \* time.Second in that unit
  Unset,        \* a nil LeaseDurationSeconds, an absent version annotation
  MaxUpdates,   \* maxPutUpdateAttempts
  MaxPuts,      \* bound of the model on Put calls
  MaxTouches    \* bound of the model on foreign metadata writes

ASSUME K8sAssumption ==
  /\ Micro \in Nat \ {0}
  /\ Second \in Nat \ {0} /\ Second % Micro = 0
  /\ Unset \notin Int
  /\ MaxUpdates \in Nat \ {0}
  /\ MaxPuts \in Nat
  /\ MaxTouches \in Nat

VARIABLES
  lease,    \* the Lease object of each name
  put,      \* state of each Put call
  puts,     \* number of Puts begun
  touches   \* number of foreign metadata writes

vars == <<lease, put, puts, touches>>

-----------------------------------------------------------------------------
NoLease == [rv |-> 0]

\* Absent or mangled annotations read as version 1.
versionFromLease(l) == IF l.version = Unset THEN 1 ELSE l.version

\* Mutant: the duration is stored without converting it to seconds.
leaseDurationRaw(r) == IF r.holder = NoHolder /\ r.ttl = 0 THEN Unset ELSE r.ttl

leaseDuration(r) == IF r.holder = NoHolder /\ r.ttl = 0 THEN Unset ELSE r.ttl \div Second

\* metav1.NewMicroTime, once serialised.
MicroTime(t) == (t \div Micro) * Micro

\* leaseFromRecord on a create, applyRecordToLease on an update; the API server
\* assigns the resourceVersion.
applyRecordToLease(l, r, version) ==
  [rv |-> l.rv + 1, version |-> version, holder |-> r.holder,
   duration |-> leaseDuration(r), acquireTime |-> MicroTime(r.acquiredAt),
   renewTime |-> MicroTime(r.renewedAt), transitions |-> r.token]

NoRecord == [holder |-> NoHolder, ttl |-> 0, acquiredAt |-> 0,
             renewedAt |-> 0, token |-> 0, version |-> 0]

\* What Get answers; NoRecord stands for ErrNotFound.
recordFromLease(l) ==
  IF l = NoLease THEN NoRecord
  ELSE [holder |-> l.holder,
        ttl |-> IF l.duration = Unset THEN 0 ELSE l.duration * Second,
        acquiredAt |-> l.acquireTime, renewedAt |-> l.renewTime,
        token |-> l.transitions, version |-> versionFromLease(l)]

\* An object written before the version annotation existed.
LegacyLease(h) ==
  [rv |-> 1, version |-> Unset, holder |-> h, duration |-> 1,
   acquireTime |-> 0, renewTime |-> 0, transitions |-> 1]

-----------------------------------------------------------------------------
Resting(res) == [pc |-> "idle", res |-> res]

Finish(w, res) == put' = [put EXCEPT ![w] = Resting(res)]

\* The manager calls Put with a version it has read.  The stamp, which is not a
\* whole number of microseconds, tells the records of different calls apart.
Arguments(k) ==
  [expected : 0 .. recordFromLease(lease[k8sLeaseName(k)]).version,
   rec : {[holder |-> h, ttl |-> IF h = NoHolder THEN 0 ELSE Second, acquiredAt |-> 0,
           renewedAt |-> (puts + 1) * Micro + 1, token |-> 1, version |-> 0] :
             h \in Holder \cup {NoHolder}}]

BeginPut(w, k) ==
  /\ put[w].pc = "idle"
  /\ puts < MaxPuts
  /\ puts' = puts + 1
  /\ \E a \in Arguments(k) :
       put' = [put EXCEPT ![w] = [pc |-> IF a.expected = 0 THEN "create" ELSE "get",
                                  name |-> k8sLeaseName(k), expected |-> a.expected,
                                  rec |-> a.rec, rv |-> 0, attempt |-> 1]]
  /\ UNCHANGED <<lease, touches>>

Create(w) ==
  LET n == put[w].name
  IN /\ put[w].pc = "create"
     /\ \/ /\ lease[n] = NoLease
           /\ lease' = [lease EXCEPT ![n] = applyRecordToLease(NoLease, put[w].rec, 1)]
           /\ \E res \in {"nil", "error"} : Finish(w, res)
        \/ lease[n] # NoLease /\ Finish(w, "conflict") /\ UNCHANGED lease
     /\ UNCHANGED <<puts, touches>>

\* The read of an attempt, with the check of the version annotation.
GetForPut(w) ==
  LET l == lease[put[w].name]
      matches == l # NoLease /\ versionFromLease(l) = put[w].expected
  IN /\ put[w].pc = "get"
     /\ \/ matches /\ put' = [put EXCEPT ![w].pc = "update", ![w].rv = l.rv]
        \/ ~matches /\ Finish(w, "conflict")
     /\ UNCHANGED <<lease, puts, touches>>

\* Mutant: the first 409 is reported as ErrConflict.
RetryNever(w) == Finish(w, "conflict")

\* After a 409: re-read while the budget lasts.
Retry(w) ==
  \/ /\ put[w].attempt < MaxUpdates
     /\ put' = [put EXCEPT ![w].pc = "get", ![w].attempt = @ + 1]
  \/ put[w].attempt = MaxUpdates /\ Finish(w, "conflict")

\* Mutant: the update carries no resourceVersion.
CurrentAlways(l, rv) == TRUE

\* The API server's guard on an Update.
Current(l, rv) == l.rv = rv

\* The answer to a write that took effect may be lost.
Update(w) ==
  LET n == put[w].name
  IN /\ put[w].pc = "update"
     /\ \/ /\ Current(lease[n], put[w].rv)
           /\ lease' = [lease EXCEPT ![n] =
                          applyRecordToLease(@, put[w].rec, put[w].expected + 1)]
           /\ \E res \in {"nil", "error"} : Finish(w, res)
        \/ ~Current(lease[n], put[w].rv) /\ Retry(w) /\ UNCHANGED lease
     /\ UNCHANGED <<puts, touches>>

\* A canceled context or a failed request without effect.
Fail(w) ==
  /\ put[w].pc # "idle"
  /\ Finish(w, "error")
  /\ UNCHANGED <<lease, puts, touches>>

\* A policy controller, a backup tool: any writer of foreign metadata.
Touch(n) ==
  /\ touches < MaxTouches
  /\ touches' = touches + 1
  /\ lease[n] # NoLease
  /\ lease' = [lease EXCEPT ![n].rv = @ + 1]
  /\ UNCHANGED <<put, puts>>

Quiet == (\A w \in Writer : put[w].pc = "idle") /\ UNCHANGED vars

Init ==
  /\ lease \in [Names -> {NoLease} \cup {LegacyLease(h) : h \in Holder}]
  /\ put = [w \in Writer |-> Resting("none")]
  /\ puts = 0
  /\ touches = 0

Step(w) == Create(w) \/ GetForPut(w) \/ Update(w) \/ Fail(w)

Next ==
  \/ \E w \in Writer : Step(w) \/ \E k \in ValidKey : BeginPut(w, k)
  \/ \E n \in Names : Touch(n)
  \/ Quiet

Spec == Init /\ [][Next]_vars

-----------------------------------------------------------------------------
\* What Get answers for each key.
Shown == [k \in ValidKey |-> recordFromLease(lease[k8sLeaseName(k)])]

Contract == INSTANCE LeaseStore WITH Key <- ValidKey, store <- Shown

\* Store's contract for Put: what Get shows changes one record at a time, to a
\* well-formed record one version up.  Racing Puts, lost answers, retries and
\* foreign writes never overwrite a record under an unchanged version, and
\* ValidateKey's promise holds: "two distinct keys can never collide into one
\* stored object", so that a write for one key shows under no other.
ImplementsStore == [][Contract!StoreNext]_Shown

\* maxEncodedKeyLength's promise: no Put asks for an object whose name the API
\* server refuses.
NamesAccepted == \A w \in Writer : put[w].pc # "idle" => IsDNS1123Subdomain(put[w].name)

\* The comment of Put: a foreign metadata write costs no holder its lease.
\* While fewer such writes have happened than Put has attempts, ErrConflict
\* is only ever the answer to a record that no longer has the version the
\* caller expected.
ConflictIsReal ==
  [][\A w \in Writer :
       (put[w].pc # "idle" /\ put'[w] = Resting("conflict") /\ touches < MaxUpdates) =>
         recordFromLease(lease[put[w].name]).version # put[w].expected]_vars

\* r is what Get shows of a record w written as version v: times lose the
\* fraction of a microsecond, so a lease is never read back as longer than it
\* was granted, and nothing else changes.
ReadsBackAs(r, w, v) ==
  /\ r.renewedAt \in w.renewedAt - Micro + 1 .. w.renewedAt
  /\ r.acquiredAt \in w.acquiredAt - Micro + 1 .. w.acquiredAt
  /\ r = [w EXCEPT !.version = v, !.renewedAt = r.renewedAt, !.acquiredAt = r.acquiredAt]

\* Put's two answers about the record are exact: nil only when this call has
\* just written its own record, which reads back with its TTL, holder and token
\* and never a later expiry; ErrConflict only when it never wrote it.
PutAnswersExactly ==
  [][\A w \in Writer :
       (put[w].pc # "idle" /\ put'[w].pc = "idle") =>
         LET r == recordFromLease(lease'[put[w].name])
         IN /\ put'[w].res = "nil" => ReadsBackAs(r, put[w].rec, put[w].expected + 1)
            /\ put'[w].res = "conflict" => r.renewedAt # MicroTime(put[w].rec.renewedAt)]_vars
=============================================================================
