----------------------------- MODULE LeaseManager -----------------------------
(***************************************************************************)
(* Manager.Acquire, Renew and Release (internal/lease/manager.go) and the  *)
(* TTLEnforcer sweep (internal/lease/ttl.go), run concurrently by the      *)
(* goroutines of any number of API server replicas over one LeaseStore.    *)
(*                                                                         *)
(* A call is split where another goroutine, or time, can come in between:  *)
(* the read of the record, the read of the clock (with the decision taken  *)
(* from the two), and the conditional write.                               *)
(***************************************************************************)
EXTENDS LeaseStore, FiniteSets

CONSTANTS
  Proc,         \* request goroutines, over all replicas
  Sweeper,      \* TTLEnforcer loops, one per replica
  TTLs,         \* the TTLs callers ask for
  Grace,        \* grace window of the sweep
  Skew,         \* how far a replica's clock may be from the true time
  MaxToken,     \* math.MaxInt32: the fencing token ceiling
  MaxAttempts,  \* maxAcquireAttempts
  Contended,    \* TRUE for a backend whose Put may give up on a matching version
  MaxClock,     \* bound of the model on time
  MaxCalls      \* bound of the model on the number of requests

ASSUME ManagerAssumption ==
  /\ TTLs \subseteq Nat \ {0}
  /\ Grace \in Nat \ {0}
  /\ Skew \in Nat
  /\ MaxToken \in Nat \ {0}
  /\ MaxAttempts \in Nat \ {0}
  /\ Contended \in BOOLEAN
  /\ MaxClock \in Nat
  /\ MaxCalls \in Nat

VARIABLES
  clock,     \* true time
  call,      \* state of each request goroutine
  sweep,     \* state of each sweep
  calls,     \* number of requests begun
  issued,    \* history: every grant a Put has made durable, per key
  retired    \* history: every tombstone a Put has made durable, per key

vars == <<store, clock, call, sweep, calls, issued, retired>>

-----------------------------------------------------------------------------
Token == 1 .. MaxToken

\* Replies: "granted" is Acquired=true, "denied" is Acquired=false, "nil" and
\* "conflict" are Release's, "error" any other error, "none" no reply at all.
Reply == {"none", "granted", "denied", "nil", "conflict", "error"}

Idle(res) == [pc |-> "idle", res |-> res]

\* A request in flight: its arguments, the record it read, the record it is
\* about to write, and Acquire's loop counter.
Request == [op : {"acquire", "renew", "release"}, key : Key, holder : Holder,
            token : Token, ttl : TTLs]

\* The requests callers make; an argument the operation does not take is fixed.
Requests ==
  LET anyTTL == CHOOSE t \in TTLs : TRUE
  IN {r \in Request : /\ r.op = "acquire" => r.token = 1
                      /\ r.op = "release" => r.ttl = anyTTL}

Active == [pc : {"get", "decide", "put", "lost"}, req : Request, cur : Record,
           next : Record, attempt : 1 .. MaxAttempts]

Grant == [holder : Holder, token : Nat, version : Nat, at : Int, expires : Int]

GrantOf(r) == [holder |-> r.holder, token |-> r.token, version |-> r.version,
               at |-> r.renewedAt, expires |-> ExpiresAt(r)]

Retirement == [token : Nat, version : Nat, by : {"release", "sweep"}]

RetirementOf(r, by) == [token |-> r.token, version |-> r.version, by |-> by]

\* What a replica's clock may show.
Now == clock - Skew .. clock + Skew

\* Mutant: the tombstone forgets the high-water mark.
tombstoneFromBlank(r, now) ==
  [r EXCEPT !.holder = NoHolder, !.ttl = 0, !.renewedAt = now, !.token = 0]

tombstoneFrom(r, now) ==
  [r EXCEPT !.holder = NoHolder, !.ttl = 0, !.renewedAt = now]

Finish(p, res) == call' = [call EXCEPT ![p] = Idle(res)]

NoWrite == UNCHANGED <<store, issued, retired>>

-----------------------------------------------------------------------------
\* A validated request reaches the manager (handleAcquire, handleRenew,
\* handleRelease).  Nothing ties the token to one ever issued: clients may
\* present stale ones.
Begin(p, req) ==
  /\ call[p].pc = "idle"
  /\ calls < MaxCalls
  /\ calls' = calls + 1
  /\ call' = [call EXCEPT ![p] = [pc |-> "get", req |-> req, cur |-> NoRecord,
                                  next |-> NoRecord, attempt |-> 1]]
  /\ NoWrite
  /\ UNCHANGED <<clock, sweep>>

\* store.Get
Get(p) ==
  /\ call[p].pc = "get"
  /\ call' = [call EXCEPT ![p].pc = "decide", ![p].cur = store[call[p].req.key]]
  /\ NoWrite
  /\ UNCHANGED <<clock, sweep, calls>>

\* The record Acquire writes when it keeps the tenure it found.
Extended(cur, req, now) ==
  [cur EXCEPT !.ttl = req.ttl, !.renewedAt = now]

\* Mutant: a former holder that comes back keeps its token.
ClaimedKeepingToken(cur, req, now) ==
  [holder |-> req.holder, ttl |-> req.ttl, acquiredAt |-> now, renewedAt |-> now,
   token |-> IF cur.holder = req.holder THEN cur.token ELSE cur.token + 1,
   version |-> cur.version]

\* The record Acquire writes when it starts a new tenure.
Claimed(cur, req, now) ==
  [holder |-> req.holder, ttl |-> req.ttl, acquiredAt |-> now, renewedAt |-> now,
   token |-> cur.token + 1, version |-> cur.version]

AwaitPut(p, r) == call' = [call EXCEPT ![p].pc = "put", ![p].next = r]

\* Mutant: no check of the token ceiling.
AcquireDecideNoCeiling(p, now) ==
  LET cur == call[p].cur
      req == call[p].req
      mine == Exists(cur) /\ cur.holder = req.holder /\ ~Expired(cur, now)
      free == ~Exists(cur) \/ Tombstone(cur) \/ Expired(cur, now)
  IN /\ req.op = "acquire"
     /\ \/ mine /\ AwaitPut(p, Extended(cur, req, now))
        \/ ~mine /\ free /\ AwaitPut(p, Claimed(cur, req, now))
        \/ ~mine /\ ~free /\ Finish(p, "denied")

\* The switch of Manager.Acquire.
AcquireDecide(p, now) ==
  LET cur == call[p].cur
      req == call[p].req
      mine == Exists(cur) /\ cur.holder = req.holder /\ ~Expired(cur, now)
      free == ~Exists(cur) \/ Tombstone(cur) \/ Expired(cur, now)
  IN /\ req.op = "acquire"
     /\ \/ mine /\ AwaitPut(p, Extended(cur, req, now))
        \/ ~mine /\ free /\ cur.token = MaxToken /\ Finish(p, "error")
        \/ ~mine /\ free /\ cur.token # MaxToken /\ AwaitPut(p, Claimed(cur, req, now))
        \/ ~mine /\ ~free /\ Finish(p, "denied")

\* Mutant: an expired lease nobody has claimed may still be renewed.
RenewDecideLate(p, now) ==
  LET cur == call[p].cur
      req == call[p].req
      mine == Exists(cur) /\ cur.holder = req.holder /\ cur.token = req.token
  IN /\ req.op = "renew"
     /\ \/ mine /\ AwaitPut(p, Extended(cur, req, now))
        \/ ~mine /\ Finish(p, "denied")

RenewDecide(p, now) ==
  LET cur == call[p].cur
      req == call[p].req
      mine == /\ Exists(cur) /\ cur.holder = req.holder
              /\ cur.token = req.token /\ ~Expired(cur, now)
  IN /\ req.op = "renew"
     /\ \/ mine /\ AwaitPut(p, Extended(cur, req, now))
        \/ ~mine /\ Finish(p, "denied")

\* Release checks no expiry: an expired but unclaimed lease is still its
\* holder's to give up.
ReleaseDecide(p, now) ==
  LET cur == call[p].cur
      req == call[p].req
      gone == ~Exists(cur) \/ Tombstone(cur)
      mine == cur.holder = req.holder /\ cur.token = req.token
  IN /\ req.op = "release"
     /\ \/ gone /\ Finish(p, "nil")
        \/ ~gone /\ ~mine /\ Finish(p, "conflict")
        \/ ~gone /\ mine /\ AwaitPut(p, tombstoneFrom(cur, now))

\* The clock is read after the record and before the write.
Decide(p) ==
  /\ call[p].pc = "decide"
  /\ \E now \in Now :
       AcquireDecide(p, now) \/ RenewDecide(p, now) \/ ReleaseDecide(p, now)
  /\ NoWrite
  /\ UNCHANGED <<clock, sweep, calls>>

-----------------------------------------------------------------------------
\* The durable effect of a request's accepted Put, with its history.
Write(p) ==
  LET k == call[p].req.key
      r == Stored(call[p].next, call[p].cur.version)
  IN /\ PutWrites(k, call[p].cur.version, call[p].next)
     /\ IF call[p].req.op = "release"
        THEN /\ retired' = [retired EXCEPT ![k] = @ \cup {RetirementOf(r, "release")}]
             /\ UNCHANGED issued
        ELSE /\ issued' = [issued EXCEPT ![k] = @ \cup {GrantOf(r)}]
             /\ UNCHANGED retired

Success(op) == IF op = "release" THEN "nil" ELSE "granted"

PutSucceeds(p) ==
  /\ call[p].pc = "put"
  /\ Write(p)
  /\ Finish(p, Success(call[p].req.op))
  /\ UNCHANGED <<clock, sweep, calls>>

\* The write is durable and its outcome is not reported: a lost commit
\* acknowledgement, a canceled context, a replica that dies.
PutUnreported(p) ==
  /\ call[p].pc = "put"
  /\ Write(p)
  /\ Finish(p, "error")
  /\ UNCHANGED <<clock, sweep, calls>>

\* Mutant: the retry loop does not count its attempts.
OnConflictUncounted(p) ==
  LET c == call[p]
  IN \/ /\ c.req.op = "acquire"
        /\ call' = [call EXCEPT ![p] = [c EXCEPT !.pc = "get", !.cur = NoRecord,
                                        !.next = NoRecord]]
     \/ c.req.op = "renew" /\ call' = [call EXCEPT ![p].pc = "lost"]
     \/ c.req.op = "release" /\ Finish(p, "nil")

\* What each operation does with ErrConflict: Acquire starts over while it has
\* attempts left, Renew reports loss after re-reading, Release is content.
OnConflict(p) ==
  LET c == call[p]
  IN \/ /\ c.req.op = "acquire" /\ c.attempt < MaxAttempts
        /\ call' = [call EXCEPT ![p] = [c EXCEPT !.pc = "get", !.cur = NoRecord,
                                        !.next = NoRecord, !.attempt = c.attempt + 1]]
     \/ c.req.op = "acquire" /\ c.attempt = MaxAttempts /\ Finish(p, "error")
     \/ c.req.op = "renew" /\ call' = [call EXCEPT ![p].pc = "lost"]
     \/ c.req.op = "release" /\ Finish(p, "nil")

\* ErrConflict: the version has moved, or the Kubernetes backend has used up
\* its internal retries while the version still matched.
PutConflicts(p) ==
  /\ call[p].pc = "put"
  /\ Contended \/ ~PutAccepts(call[p].req.key, call[p].cur.version)
  /\ OnConflict(p)
  /\ NoWrite
  /\ UNCHANGED <<clock, sweep, calls>>

\* renewalLost: the second read only fills in the reply.
RenewalLost(p) ==
  /\ call[p].pc = "lost"
  /\ Finish(p, "denied")
  /\ NoWrite
  /\ UNCHANGED <<clock, sweep, calls>>

\* A store error without effect, or the death of the replica, ends the call.
Fail(p) ==
  /\ call[p].pc # "idle"
  /\ Finish(p, "error")
  /\ NoWrite
  /\ UNCHANGED <<clock, sweep, calls>>

-----------------------------------------------------------------------------
\* TTLEnforcer.collect: list, read the clock, then try to tombstone each
\* record that was expired for the grace window, in any order.
Resting == [pc |-> "idle"]

SweepList(s) ==
  /\ sweep[s].pc = "idle"
  /\ sweep' = [sweep EXCEPT ![s] = [pc |-> "listed", snap |-> store]]
  /\ NoWrite
  /\ UNCHANGED <<clock, call, calls>>

Collectable(r, now) == Exists(r) /\ ~Tombstone(r) /\ now >= ExpiresAt(r) + Grace

SweepPick(s) ==
  /\ sweep[s].pc = "listed"
  /\ \E now \in Now :
       sweep' = [sweep EXCEPT ![s] =
                   [pc |-> "putting", snap |-> sweep[s].snap, now |-> now,
                    todo |-> {k \in Key : Collectable(sweep[s].snap[k], now)}]]
  /\ NoWrite
  /\ UNCHANGED <<clock, call, calls>>

Swept(s, k) == sweep' = [sweep EXCEPT ![s].todo = @ \ {k}]

SweepPut(s, k) ==
  LET cur == sweep[s].snap[k]
      tomb == tombstoneFrom(cur, sweep[s].now)
  IN /\ sweep[s].pc = "putting"
     /\ k \in sweep[s].todo
     /\ PutWrites(k, cur.version, tomb)
     /\ retired' = [retired EXCEPT ![k] =
                      @ \cup {RetirementOf(Stored(tomb, cur.version), "sweep")}]
     /\ Swept(s, k)
     /\ UNCHANGED <<clock, call, calls, issued>>

\* ErrConflict or another store error: skip the record.
SweepSkip(s, k) ==
  /\ sweep[s].pc = "putting"
  /\ k \in sweep[s].todo
  /\ Swept(s, k)
  /\ NoWrite
  /\ UNCHANGED <<clock, call, calls>>

\* All records handled, or the loop's context is done.
SweepEnd(s) ==
  /\ sweep[s].pc # "idle"
  /\ sweep' = [sweep EXCEPT ![s] = Resting]
  /\ NoWrite
  /\ UNCHANGED <<clock, call, calls>>

-----------------------------------------------------------------------------
Tick ==
  /\ clock < MaxClock
  /\ clock' = clock + 1
  /\ NoWrite
  /\ UNCHANGED <<call, sweep, calls>>

\* No request in flight and none to come: the server just waits.
Quiet ==
  /\ \A p \in Proc : call[p].pc = "idle"
  /\ UNCHANGED vars

\* What earlier replicas may have left in the store: the tombstone of a lease
\* that was acquired and released t times.
LeftBehind == {[NoRecord EXCEPT !.token = t, !.version = 2 * t] : t \in Token}

Init ==
  /\ store \in [Key -> {NoRecord} \cup LeftBehind]
  /\ clock = 0
  /\ call = [p \in Proc |-> Idle("none")]
  /\ sweep = [s \in Sweeper |-> Resting]
  /\ calls = 0
  /\ issued = [k \in Key |-> {}]
  /\ retired = [k \in Key |-> {}]

Step(p) ==
  \/ Get(p) \/ Decide(p) \/ PutSucceeds(p) \/ PutUnreported(p)
  \/ PutConflicts(p) \/ RenewalLost(p) \/ Fail(p)

Sweep(s) ==
  \/ SweepList(s) \/ SweepPick(s) \/ SweepEnd(s)
  \/ \E k \in Key : SweepPut(s, k) \/ SweepSkip(s, k)

Next ==
  \/ \E p \in Proc : Step(p) \/ \E req \in Requests : Begin(p, req)
  \/ \E s \in Sweeper : Sweep(s)
  \/ Tick
  \/ Quiet

Spec == Init /\ [][Next]_vars

-----------------------------------------------------------------------------
Scanned == [pc : {"listed"}, snap : [Key -> Record]]

Putting == [pc : {"putting"}, snap : [Key -> Record], now : Int, todo : SUBSET Key]

\* Records stay within their fields' ranges; in particular a fencing token
\* never passes the int32 ceiling Acquire checks.
TypeOK ==
  /\ StoreTypeOK
  /\ \A k \in Key : store[k].token <= MaxToken
  /\ clock \in 0 .. MaxClock
  /\ call \in [Proc -> Active \cup {Idle(res) : res \in Reply}]
  /\ sweep \in [Sweeper -> {Resting} \cup Scanned \cup Putting]
  /\ calls \in 0 .. MaxCalls
  /\ issued \in [Key -> SUBSET Grant]
  /\ retired \in [Key -> SUBSET Retirement]

\* Record.FencingToken's contract: tokens grow with the writes of a key, one
\* token never names two holders, and once a tenure has been tombstoned, by
\* Release or by the sweep, its token is never issued again.
FencingMonotone ==
  \A k \in Key :
    /\ \A g, h \in issued[k] : g.version < h.version =>
         /\ g.token <= h.token
         /\ g.token = h.token => g.holder = h.holder
    /\ \A t \in retired[k], g \in issued[k] :
         t.version < g.version => t.token < g.token

\* Record.Version's contract: a version gates at most one successful write,
\* so no two durable writes of a key carry the same version.
VersionGatesOneWrite ==
  \A k \in Key :
    /\ \A g, h \in issued[k] : g.version = h.version => g = h
    /\ \A t, u \in retired[k] : t.version = u.version => t = u
    /\ \A g \in issued[k], t \in retired[k] : g.version # t.version

\* The last grant a tenure was given.
LastOfTenure(k, g) == \A h \in issued[k] : h.token = g.token => h.version <= g.version

\* At most one holder: while no replica's clock can have reached the expiry
\* of the last grant of a tenure, the store still holds that very grant,
\* unless its holder released it.  No reclaim, late renewal of a former
\* holder or sweep can take it away, however the three steps of the calls
\* interleave.
ExclusiveTenure ==
  \A k \in Key : \A g \in issued[k] :
    (LastOfTenure(k, g) /\ g.expires >= clock + Skew) =>
      \/ GrantOf(store[k]) = g
      \/ \E t \in retired[k] : t.token = g.token /\ t.by = "release"

\* A tenure has no gap: a renewal, or an Acquire that keeps the token, was
\* decided before the grant it prolongs had expired.  A holder that let its
\* lease lapse gets a new token.
TenureContinuous ==
  \A k \in Key : \A g, h \in issued[k] :
    (g.token = h.token /\ h.version = g.version + 1) => h.at <= g.expires

\* TTLEnforcer.collect: a sweep changes a record only if nobody has written it
\* since the scan, and only when it expired at least the grace window ago.
SweepSparesLiveLeases ==
  [][\A s \in Sweeper, k \in Key :
       (sweep'[s] # sweep[s] /\ store'[k] # store[k]) =>
         /\ store[k] = sweep[s].snap[k]
         /\ ExpiresAt(store[k]) + Grace <= clock + Skew]_vars

\* The comment of Release on ErrConflict: "either way the caller no longer
\* holds the lease".  When a Release that found the lease to be the caller's
\* returns nil after its Put, the store does not hold the lease for that
\* holder and token.
ReleaseNilMeansGone ==
  [][\A p \in Proc :
       (call[p].pc = "put" /\ call'[p] = Idle("nil")) =>
         LET req == call[p].req
         IN ~(store'[req.key].holder = req.holder /\ store'[req.key].token = req.token)]_vars

\* The manager implements the atomic lease service.
Service == INSTANCE FencedLease WITH
  holder <- [k \in Key |-> store[k].holder],
  token <- [k \in Key |-> store[k].token],
  expires <- [k \in Key |-> ExpiresAt(store[k])]

\* Every interleaving of the three-step calls and the sweeps looks to a reader
\* of the store like a sequence of atomic claims, extensions and vacations.
ImplementsService == Service!LeaseSpec

\* Goroutines are scheduled and every store call returns, if only with an
\* error: requests are served under a context that the client bounds.
FairSpec == Spec /\ \A p \in Proc : WF_vars(Step(p))

\* Every request is answered: Acquire's retry loop is bounded even when every
\* one of its Puts conflicts.
EveryCallReturns == \A p \in Proc : call[p].pc # "idle" ~> call[p].pc = "idle"

-----------------------------------------------------------------------------
\* Why the above is inductive: what a call, a sweep and the history of a key
\* may assume of the store they will write.

\* A record read earlier is an old version of the stored one, or it.
ReadOf(r, k) ==
  /\ r.version <= store[k].version
  /\ r.version = store[k].version => r = store[k]
  /\ r.token <= MaxToken
  /\ r.version = 0 => r.holder = NoHolder

Extension(cur, next) ==
  /\ cur.holder # NoHolder
  /\ next.holder = cur.holder
  /\ next.token = cur.token
  /\ next.renewedAt <= ExpiresAt(cur)

Takeover(cur, next) ==
  /\ next.holder \in Holder
  /\ next.token = cur.token + 1
  /\ cur.holder = NoHolder \/ ExpiresAt(cur) < clock + Skew

Burial(cur, next) ==
  /\ cur.holder # NoHolder
  /\ next.holder = NoHolder
  /\ next.token = cur.token

\* Stamped with a time some replica's clock has shown, and a TTL asked for.
InTime(next) == next.renewedAt <= clock + Skew /\ next.ttl \in TTLs \cup {0}

CallInv(p) ==
  LET c == call[p]
  IN /\ c.pc \in {"decide", "put"} => ReadOf(c.cur, c.req.key)
     /\ c.pc = "put" =>
          /\ c.next.token <= MaxToken
          /\ InTime(c.next)
          /\ IF c.req.op = "release" THEN Burial(c.cur, c.next)
             ELSE Extension(c.cur, c.next) \/ Takeover(c.cur, c.next)

SweepInv(s) ==
  LET w == sweep[s]
  IN /\ w.pc # "idle" => \A k \in Key : ReadOf(w.snap[k], k)
     /\ w.pc = "putting" =>
          /\ w.now <= clock + Skew
          /\ \A k \in w.todo : /\ w.snap[k].holder # NoHolder
                                /\ ExpiresAt(w.snap[k]) + Grace <= clock + Skew

\* The stored record is the newest of the key's history, and a live one is
\* its newest grant.
LedgerInv(k) ==
  LET r == store[k]
  IN /\ r.version = 0 => r.holder = NoHolder
     /\ \A g \in issued[k] : /\ g.version <= r.version
                             /\ g.token <= r.token
                             /\ g.version = r.version => g = GrantOf(r)
     /\ \A t \in retired[k] : t.version <= r.version /\ t.token <= r.token
     /\ r.holder # NoHolder =>
          /\ GrantOf(r) \in issued[k]
          /\ \A g \in issued[k] : g.token = r.token => g.holder = r.holder
          /\ \A t \in retired[k] : t.token < r.token

\* The inductive invariant behind the manager's safety: no call or sweep is
\* ever poised to make a write its own reading of the record does not justify.
IInv ==
  /\ TypeOK
  /\ \A p \in Proc : CallInv(p)
  /\ \A s \in Sweeper : SweepInv(s)
  /\ \A k \in Key : LedgerInv(k)
  /\ VersionGatesOneWrite
  /\ FencingMonotone
  /\ ExclusiveTenure
  /\ TenureContinuous
=============================================================================
