------------------------------- MODULE Operator -------------------------------
(***************************************************************************)
(* The operator of one cluster (internal/operator) and what it manages: a  *)
(* BerthLease, its target workload, the target's Jobs and Pods.  Two       *)
(* reconcilers run permitPod, the admission webhook checks what everybody  *)
(* writes, and clusters compete for one lease of the service FencedLease   *)
(* specifies.                                                              *)
(*                                                                         *)
(* A write to the Kubernetes API is one step of its sender.  A request     *)
(* whose sender gave up or died waits in late; it is carried out at any    *)
(* later time at which the object is still the one it was built from.      *)
(* Reading an object and the conditional write based on that reading alone *)
(* are one step, since the write fails if the object changed in between.   *)
(* A crash of the operator is a failure of both reconcilers: they share no *)
(* state but the API objects.                                              *)
(***************************************************************************)
EXTENDS FencedLease, FiniteSets

CONSTANTS
  Lease,              \* the key the clusters compete for
  Target, Pod, Job,   \* UIDs of the objects that may ever exist
  None,               \* the empty UID
  MaxToken,           \* bound of the model
  Setups              \* clusters and what befalls them, see TTL and what follows

ASSUME OperatorAssumption ==
  /\ Key = {Lease} /\ Skew = 0 /\ NoHolder \notin Holder
  /\ None \notin Target \cup Pod \cup Job /\ MaxToken \in Nat
  /\ \A c \in Setups :
       /\ c.ttl \in TTLs \cap Nat /\ c.second \in Nat \ {0} /\ c.offset \in Int
       /\ c.identities \subseteq Holder
       /\ c.targets \subseteq Target /\ c.pods \subseteq Pod /\ c.jobs \subseteq Job
       /\ {c.permits, c.clock, c.rv, c.faults, c.edits} \subseteq Nat

VARIABLES
  setup,    \* the one at hand
  berth,    \* the BerthLease
  target,   \* the target workload
  pods,     \* the Pods bound to the lease by their annotations
  jobs,     \* the Jobs of a CronJob target
  worker,   \* the local variables of the two reconcilers
  late,     \* Kubernetes requests still on their way
  orphans,  \* calls of the lease service that nobody waits for
  ident,    \* --cluster-id of the running operator
  faults, edits

objects == <<berth, target, pods, jobs>>
service == <<setup, leaseVars, clock>>
vars == <<service, objects, worker, late, orphans, ident, faults, edits>>

TTL == setup.ttl                   \* spec.ttlSeconds
Second == setup.second             \* what metav1.Time rounds to
Offset == setup.offset             \* how far the operator's clock is ahead
Identity == setup.identities       \* holders the operator may be configured as
MaxPermittedPods == setup.permits
Created == setup.targets \cup setup.pods \cup setup.jobs  \* what somebody creates
MaxClock == setup.clock            \* bounds of the model
MaxRV == setup.rv
MaxFaults == setup.faults
MaxEdits == setup.edits

NoWorkload == [uid |-> None, phase |-> "", deadline |-> 0, holder |-> NoHolder,
               token |-> 0, pods |-> {}]
NoBerth == [exists |-> FALSE, rv |-> 0, fin |-> FALSE, deleting |-> FALSE,
            valid |-> TRUE, w |-> NoWorkload]
NoTarget == [uid |-> None, rv |-> 0, bound |-> FALSE, active |-> FALSE, fence |-> 0]
NoReply == [res |-> "none", token |-> 0, expires |-> 0]

Worker == {"lease", "pods"}
Idle == [pc |-> "idle", l |-> NoBerth, started |-> 0, reply |-> NoReply,
         todo |-> {}, head |-> None, done |-> FALSE]

Now == clock + Offset
Expired == clock > expires[Lease]

\* A Pod is stored once its admitted creation is committed, until it is gone.
Stored == {p \in Pod : pods[p].st \notin {"none", "creating", "gone"}}
Terminal(p) == pods[p].st = "done"
\* A Pod that may execute.
Runnable(p) == pods[p].st \in {"open", "bound", "leaving"}

activeAt(l, now) ==
  l.exists /\ ~l.deleting /\ l.w.phase = "Active" /\ now < l.w.deadline /\ l.w.token > 0

-----------------------------------------------------------------------------
(* The steps of a reconciler x and its requests to the API server.         *)

At(x, pc) == worker[x].pc = pc
L(x) == worker[x].l
Goto(x, rec) == worker' = [worker EXCEPT ![x] = rec]
Step(x, pc) == Goto(x, [worker[x] EXCEPT !.pc = pc])
Return(x) == Goto(x, Idle)
ReadsOnly == UNCHANGED <<service, objects, late, orphans, ident, faults, edits>>
Others == UNCHANGED <<service, orphans, ident, edits>>

Fault == faults < MaxFaults /\ faults' = faults + 1

\* The sender stops waiting while its request is on the way.
Delay(x, m) ==
  /\ Fault
  /\ late' = late \cup {m}
  /\ Return(x)
  /\ UNCHANGED objects

\* An Update of the BerthLease or its status: with optimistic locking, and
\* without effect on the resourceVersion if nothing changed.
\* Mutant: the status is written without the lock.
AcceptsUnlocked(l) == berth.exists

Accepts(l) == berth.exists /\ berth.rv = l.rv

Written(l) == IF l = berth THEN l ELSE [l EXCEPT !.rv = l.rv + 1]

\* After a success x goes on as rec says.
\* x at pc with the lease as the server answered.
With(l, pc) == [Idle EXCEPT !.pc = pc, !.l = Written(l)]

Save(x, l, rec) ==
  \/ /\ Accepts(l)
     /\ berth' = Written(l)
     /\ Goto(x, rec)
     /\ UNCHANGED <<target, pods, jobs, late, faults>>
  \/ ~Accepts(l) /\ Return(x) /\ UNCHANGED <<objects, late, faults>>
  \/ Delay(x, [kind |-> "lease", l |-> l])

\* A patch of the target, locked by the version it was read at.
\* Mutant: a merge patch without the lock.
AcceptsAnyVersion(t) == target.uid = t.uid

AcceptsTarget(t) == target.uid = t.uid /\ target.rv = t.rv

\* Admission of an update: scaling up needs an active lease.
increasesActivity(t) == t.active /\ ~target.active
UpdateValid(t) == increasesActivity(t) => target.bound /\ activeAt(berth, Now)

Patch(x, t, rec) ==
  \/ /\ AcceptsTarget(t) /\ UpdateValid(t)
     /\ target' = [t EXCEPT !.rv = t.rv + 1]
     /\ Goto(x, rec)
     /\ UNCHANGED <<berth, pods, jobs, late, faults>>
  \/ ~UpdateValid(t) /\ Return(x) /\ UNCHANGED <<objects, late, faults>>
  \/ Delay(x, [kind |-> "target", t |-> t, admitted |-> ~increasesActivity(t)])

\* Mutant: only Pods that still have their gate are deleted.
DeletedGated(S) ==
  [p \in Pod |-> IF p \in S /\ pods[p].st = "gated" THEN [pods[p] EXCEPT !.st = "gone"]
                 ELSE pods[p]]

\* deleteUID: a Pod that was never scheduled is gone at once.
Deleted(S) ==
  [p \in Pod |-> [pods[p] EXCEPT !.st =
     IF p \notin S \/ @ \in {"none", "creating", "gone"} THEN @
     ELSE IF @ \in {"bound", "leaving"} THEN "leaving" ELSE "gone"]]

-----------------------------------------------------------------------------
(* BerthLeaseReconciler.Reconcile                                          *)

Stopping(l) == [l EXCEPT !.w.phase = "Stopping"]

\* The condition under which an activation ends before anything else is tried.
MustStop(l) ==
  \/ l.deleting
  \/ l.w.phase = "Stopping"
  \/ l.w.phase = "Active" /\ (~activeAt(l, Now) \/ l.w.holder # ident \/ ~l.valid)

Reconcile(x) ==
  /\ x = "lease" /\ At(x, "idle") /\ berth.exists
  /\ berth.w.phase = "" /\ ~berth.deleting => berth.rv < MaxRV
  /\ LET at(pc) == [Idle EXCEPT !.pc = pc, !.l = berth]
         stop == MustStop(berth) \/ ~berth.valid
     IN \/ ~berth.fin /\ Save(x, [berth EXCEPT !.fin = TRUE], Idle)
        \/ /\ berth.fin /\ stop /\ berth.w.phase # "Stopping"
           /\ Save(x, Stopping(berth), With(Stopping(berth), "stopTarget"))
        \/ /\ berth.fin /\ (stop => berth.w.phase = "Stopping")
           /\ Goto(x, at(IF stop THEN "stopTarget" ELSE "verify"))
           /\ UNCHANGED <<objects, late, faults>>
  /\ Others

\* verifyTarget: the target is the incarnation recorded at its creation.
Verified(l) == l.w.uid # None /\ target.uid = l.w.uid /\ target.bound

Verify(x) ==
  /\ At(x, "verify")
  /\ \/ /\ Verified(L(x))
        /\ Goto(x, [worker[x] EXCEPT !.pc = "acquire", !.started = Now])
     \/ ~Verified(L(x)) /\ L(x).w.phase = "Active" /\ Step(x, "stop")
     \/ ~Verified(L(x)) /\ L(x).w.phase # "Active" /\ Step(x, "quarantine")
  /\ ReadsOnly

\* The service's answer to an Acquire of holder h, as one step of FencedLease.
Grants(h) ==
  /\ expires' = [expires EXCEPT ![Lease] = clock + TTL]
  /\ \/ holder[Lease] = h /\ ~Expired /\ Extend(Lease)
     \/ (holder[Lease] = NoHolder \/ Expired) /\ Claim(Lease, h)

Denies(h) == holder[Lease] \notin {h, NoHolder} /\ ~Expired /\ UNCHANGED leaseVars

ServeAcquire(x) ==
  /\ At(x, "acquire") /\ worker[x].reply = NoReply
  /\ \/ Grants(ident) /\ Goto(x, [worker[x] EXCEPT !.reply =
          [res |-> "granted", token |-> token'[Lease], expires |-> expires'[Lease]]])
     \/ Denies(ident) /\ Goto(x, [worker[x] EXCEPT !.reply = [NoReply EXCEPT !.res = "denied"]])
  /\ UNCHANGED <<setup, clock, objects, late, orphans, ident, faults, edits>>

\* The call fails or times out; the service may still process it.
AcquireError(x) ==
  /\ At(x, "acquire")
  /\ Fault
  /\ orphans' \in {orphans, orphans \cup {[op |-> "acquire", holder |-> ident, token |-> 0]}}
  /\ IF L(x).w.phase = "Active" /\ ~activeAt(L(x), Now)
     THEN Goto(x, [Idle EXCEPT !.pc = "stop", !.l = L(x)])
     ELSE Return(x)
  /\ UNCHANGED <<service, objects, late, ident, edits>>

\* Mutant: only the expiry the service reports counts.
DeadlineFromExpiry(x) == (worker[x].reply.expires \div Second) * Second

\* Mutant: whole seconds, rounded up.
DeadlineRounded(x) ==
  LET a == worker[x].started + TTL
      b == worker[x].reply.expires
  IN (((IF a < b THEN a ELSE b) + Second - 1) \div Second) * Second

\* Whole seconds of the earlier of request start plus TTL and reported expiry.
Deadline(x) ==
  LET a == worker[x].started + TTL
      b == worker[x].reply.expires
  IN ((IF a < b THEN a ELSE b) \div Second) * Second

\* Mutant: whatever left the list of Pods at the last heartbeat is kept, what
\* terminates slowly is forgotten.
prunedLeaving(S) == {p \in S : p \in Stored /\ pods[p].st \notin {"done", "leaving"}}

\* pruneCompleted
pruned(S) == {p \in S : p \in Stored /\ ~Terminal(p)}

AcquireReturns(x) ==
  /\ At(x, "acquire") /\ worker[x].reply # NoReply
  /\ LET r == worker[x].reply
         w == L(x).w
         lost == \/ r.res = "denied"
                 \/ Now >= Deadline(x)
                 \/ w.phase = "Active" /\ w.token # r.token
         renewed == [L(x) EXCEPT !.w =
           [w EXCEPT !.phase = "Active", !.holder = ident, !.token = r.token,
                     !.deadline = Deadline(x), !.pods = pruned(w.pods)]]
     IN \/ /\ r.res = "granted" /\ r.expires <= Now
           /\ Return(x) /\ UNCHANGED <<objects, late, faults>>
        \/ /\ (r.res = "denied" \/ r.expires > Now) /\ lost
           /\ Save(x, Stopping(L(x)), With(Stopping(L(x)), "stopTarget"))
        \/ /\ r.res = "granted" /\ r.expires > Now /\ ~lost
           /\ Save(x, renewed, With(renewed, "activate"))
  /\ Others

\* applyActionForUID with the acquire action
Activate(x) ==
  /\ At(x, "activate")
  /\ LET next == [worker[x] EXCEPT !.pc = "list"]
         ours == target.uid = L(x).w.uid
     IN \/ /\ target.uid = None \/ (ours /\ target.active)
           /\ Goto(x, next) /\ UNCHANGED <<objects, late, faults>>
        \/ ~ours /\ target.uid # None /\ Return(x) /\ UNCHANGED <<objects, late, faults>>
        \/ ours /\ ~target.active /\ Patch(x, [target EXCEPT !.active = TRUE], next)
  /\ Others

-----------------------------------------------------------------------------
(* permitPods and permitPod, in both reconcilers                           *)

Seen(p) == [pod |-> p, st |-> pods[p].st]

\* The loop of permitPods; what is not used any more is forgotten.
Permitting(x, todo) == IF todo = {} THEN Idle
                       ELSE [worker[x] EXCEPT !.pc = "permit", !.todo = todo, !.head = None]
Ungating(x, s, l) ==
  LET rest == worker[x].todo \ {s}
  IN [Idle EXCEPT !.pc = "ungate", !.l = IF rest = {} THEN @ ELSE l,
                  !.todo = rest, !.head = s.pod]

ListPods(x) ==
  /\ At(x, "list")
  /\ Goto(x, Permitting(x, {Seen(p) : p \in Stored}))
  /\ ReadsOnly

\* expectedBinding: the Pod's owners still lead to the admitted target.
Descends(p, l) == berth.exists /\ target.uid = pods[p].root /\ target.uid = l.w.uid

\* Mutant: the number of registrations is not limited.
permitUnlimited(l, s) ==
  /\ activeAt(l, Now) /\ s.st # "leaving"
  /\ ~Descends(s.pod, l) \/ (s.pod \notin l.w.pods /\ s.st # "gated")

permitRefuses(l, s) ==
  /\ activeAt(l, Now) /\ s.st # "leaving"
  /\ \/ ~Descends(s.pod, l)
     \/ s.pod \notin l.w.pods
        /\ (s.st # "gated" \/ Cardinality(l.w.pods) >= MaxPermittedPods)

\* permitPod up to the registration; the head is the Pod to be ungated next.
permitPod(x, s) ==
  LET l == L(x)
      go == activeAt(l, Now) /\ s.st # "leaving"
      more == [l EXCEPT !.w.pods = @ \cup {s.pod}]
  IN \/ permitRefuses(l, s) /\ Return(x) /\ UNCHANGED <<objects, late, faults>>
     \/ /\ ~permitRefuses(l, s) /\ (go => s.pod \in l.w.pods)
        /\ Goto(x, IF go /\ s.st = "gated" THEN Ungating(x, s, l)
                   ELSE Permitting(x, worker[x].todo \ {s}))
        /\ UNCHANGED <<objects, late, faults>>
     \/ /\ ~permitRefuses(l, s) /\ go /\ s.pod \notin l.w.pods
        /\ Save(x, more, Ungating(x, s, Written(more)))

Permit(x) ==
  /\ At(x, "permit")
  /\ \E s \in worker[x].todo : permitPod(x, s)
  /\ Others

\* Admission of the gate's removal: validatePermit.
PermitValid(p) == activeAt(berth, Now) /\ p \in berth.w.pods

Opened(p) == pods' = [pods EXCEPT ![p].st = "open"]

Ungate(x) ==
  /\ At(x, "ungate")
  /\ LET p == worker[x].head
         ok == pods[p].st = "gated" /\ PermitValid(p)
     IN \/ /\ ok /\ Opened(p)
           /\ Goto(x, Permitting(x, worker[x].todo))
           /\ UNCHANGED <<berth, target, jobs, late, faults>>
        \/ ~ok /\ Return(x) /\ UNCHANGED <<objects, late, faults>>
        \/ Delay(x, [kind |-> "ungate", pod |-> p, admitted |-> FALSE])
  /\ Others

\* Mutant: Pods whose lease is gone are left alone.
PodReconcileHeld(x, p) ==
  /\ x = "pods" /\ At(x, "idle") /\ p \in Stored /\ berth.exists
  /\ pods' = IF berth.deleting \/ berth.w.phase = "Stopping" THEN Deleted({p}) ELSE pods
  /\ UNCHANGED <<service, berth, target, jobs, worker, late, orphans, ident, faults, edits>>

\* managedPodReconciler.Reconcile up to permitPod: the Pod and its lease are read.
PodReconcile(x, p) ==
  /\ x = "pods" /\ At(x, "idle") /\ p \in Stored
  /\ \/ /\ ~berth.exists \/ berth.deleting \/ berth.w.phase = "Stopping"
        /\ pods' = Deleted({p}) /\ UNCHANGED worker
     \/ /\ activeAt(berth, Now)
        /\ Goto(x, [Idle EXCEPT !.pc = "permit", !.l = berth, !.todo = {Seen(p)}])
        /\ UNCHANGED pods
  /\ UNCHANGED <<service, berth, target, jobs, late, orphans, ident, faults, edits>>

\* Mutant: Jobs whose lease is gone are left alone.
JobReconcileHeld(j) ==
  /\ jobs[j] \in {"live", "suspended"} /\ berth.exists
  /\ berth.deleting \/ berth.w.phase = "Stopping"
  /\ jobs' = [jobs EXCEPT ![j] = "deleting"]
  /\ UNCHANGED <<service, berth, target, pods, worker, late, orphans, ident, faults, edits>>

\* managedJobReconciler.Reconcile, on a Job that must not run any more; if the
\* second request fails the Job is left suspended.
JobReconcile(j) ==
  /\ jobs[j] \in {"live", "suspended"}
  /\ ~berth.exists \/ berth.deleting \/ berth.w.phase = "Stopping"
  /\ \/ jobs' = [jobs EXCEPT ![j] = "deleting"] /\ UNCHANGED faults
     \/ Fault /\ jobs' = [jobs EXCEPT ![j] = "suspended"]
  /\ UNCHANGED <<service, berth, target, pods, worker, late, orphans, ident, edits>>

-----------------------------------------------------------------------------
(* stopAndRelease                                                          *)

Stop(x) ==
  /\ At(x, "stop")
  /\ Save(x, Stopping(L(x)), With(Stopping(L(x)), "stopTarget"))
  /\ Others

\* The branch of stopTarget that leaves the target alone.
NotOurs(l) == target.uid = None \/ l.w.uid \notin {None, target.uid}

\* Mutant: a target that is stopped already needs no patch.
StoppedUnfenced(l) == ~target.active

\* The patch is skipped only if it would change neither field nor fence.
AlreadyStopped(l) == ~target.active /\ target.fence = l.rv

StopTarget(x) ==
  /\ At(x, "stopTarget") \/ At(x, "quarantine")
  /\ LET next == IF At(x, "stopTarget") THEN [worker[x] EXCEPT !.pc = "drainJobs"] ELSE Idle
     IN \/ /\ NotOurs(L(x)) \/ AlreadyStopped(L(x))
           /\ Goto(x, next) /\ UNCHANGED <<objects, late, faults>>
        \/ /\ ~NotOurs(L(x)) /\ ~AlreadyStopped(L(x))
           /\ Patch(x, [target EXCEPT !.active = FALSE, !.fence = L(x).rv], next)
  /\ Others

\* drainJobs; a failing request leaves the rest to the next pass.
LiveJobs == {j \in Job : jobs[j] \in {"live", "suspended"}}

DrainJobs(x) ==
  /\ At(x, "drainJobs")
  /\ \/ /\ jobs' = [j \in Job |-> IF j \in LiveJobs THEN "deleting" ELSE jobs[j]]
        /\ Goto(x, [worker[x] EXCEPT !.pc = "drainPods",
                      !.done = \A j \in Job : jobs[j] \in {"none", "gone"}])
        /\ UNCHANGED faults
     \/ /\ Fault /\ Return(x)
        /\ \E j \in LiveJobs : jobs' = [jobs EXCEPT ![j] = "suspended"]
  /\ UNCHANGED <<service, berth, target, pods, late, orphans, ident, edits>>

\* Mutant: a Pod whose deletion was requested counts as terminated.
DrainedLeaving == \A p \in Stored : Terminal(p) \/ pods[p].st = "leaving"

\* Every Pod of the namespace bound to the lease has terminated.
Drained == \A p \in Stored : Terminal(p)

DrainPods(x) ==
  /\ At(x, "drainPods")
  /\ \/ /\ pods' = Deleted(Stored)
        /\ IF Drained /\ worker[x].done
           THEN Goto(x, [worker[x] EXCEPT !.pc = "release", !.done = FALSE])
           ELSE Return(x)
        /\ UNCHANGED faults
     \/ /\ Fault /\ Return(x)
        /\ \E S \in SUBSET Stored : S # Stored /\ pods' = Deleted(S)
  /\ UNCHANGED <<service, berth, target, jobs, late, orphans, ident, edits>>

Releases(h, tok) ==
  IF holder[Lease] = h /\ token[Lease] = tok
  THEN expires' = [expires EXCEPT ![Lease] = clock] /\ Vacate(Lease)
  ELSE UNCHANGED leaseVars

\* A conflict counts as success; and a Release that loses the race against a
\* renewal by the same holder is answered as if it had taken effect.
Release(x) ==
  /\ At(x, "release")
  /\ LET w == L(x).w
     IN \/ /\ w.token = 0 /\ UNCHANGED leaseVars
           /\ Step(x, "clear") /\ UNCHANGED <<orphans, faults>>
        \/ /\ w.token > 0 /\ Releases(w.holder, w.token)
           /\ Step(x, "clear") /\ UNCHANGED <<orphans, faults>>
        \/ \E m \in orphans :
             /\ w.token > 0 /\ token[Lease] = w.token
             /\ m.op = "acquire" /\ m.holder = w.holder /\ Grants(m.holder)
             /\ orphans' = orphans \ {m} /\ UNCHANGED faults
             /\ Step(x, "clear")
        \/ /\ w.token > 0 /\ Fault /\ UNCHANGED leaseVars
           /\ orphans' = orphans \cup {[op |-> "release", holder |-> w.holder, token |-> w.token]}
           /\ Return(x)
  /\ UNCHANGED <<setup, clock, objects, late, ident, edits>>

\* Mutant: the finalizer stays.
ClearKeepsFinalizer(x) ==
  /\ At(x, "clear")
  /\ \/ L(x).deleting /\ Return(x) /\ UNCHANGED <<objects, late, faults>>
     \/ ~L(x).deleting /\ Save(x, [L(x) EXCEPT !.w = [NoWorkload EXCEPT !.uid = L(x).w.uid]], Idle)
  /\ Others

\* The finalizer is removed, and with it the object; or the status is cleared.
Clear(x) ==
  /\ At(x, "clear")
  /\ Save(x, IF L(x).deleting THEN [L(x) EXCEPT !.exists = FALSE]
             ELSE [L(x) EXCEPT !.w = [NoWorkload EXCEPT !.uid = L(x).w.uid]], Idle)
  /\ Others

-----------------------------------------------------------------------------
(* Faults: a reconciler fails or dies, requests arrive late.               *)

Fail(x) ==
  /\ worker[x].pc \notin {"idle", "acquire"}
  /\ Fault /\ Return(x)
  /\ UNCHANGED <<service, objects, late, orphans, ident, edits>>

ServeOrphan(m) ==
  /\ orphans' = orphans \ {m}
  /\ \/ m.op = "acquire" /\ (Grants(m.holder) \/ Denies(m.holder))
     \/ m.op = "release" /\ Releases(m.holder, m.token)
  /\ UNCHANGED <<setup, clock, objects, worker, late, ident, faults, edits>>

LateLease(m) ==
  /\ m.kind = "lease" /\ Accepts(m.l)
  /\ berth' = Written(m.l)
  /\ UNCHANGED <<target, pods, jobs>>

LateTarget(m) ==
  /\ m.kind = "target" /\ m.admitted /\ AcceptsTarget(m.t)
  /\ target' = [m.t EXCEPT !.rv = m.t.rv + 1]
  /\ UNCHANGED <<berth, pods, jobs>>

LateUngate(m) ==
  /\ m.kind = "ungate" /\ m.admitted
  /\ pods[m.pod].st = "gated" /\ Opened(m.pod)
  /\ UNCHANGED <<berth, target, jobs>>

\* The create whose target UID admission has recorded.
LateCreate(m) ==
  /\ m.kind = "create" /\ target.uid = None
  /\ \E a \in BOOLEAN : target' = [uid |-> m.uid, rv |-> 1, bound |-> TRUE,
                                       active |-> a, fence |-> 0]
  /\ UNCHANGED <<berth, pods, jobs>>

Arrive(m) ==
  /\ LateLease(m) \/ LateTarget(m) \/ LateUngate(m) \/ LateCreate(m)
  /\ late' = late \ {m}
  /\ UNCHANGED <<service, worker, orphans, ident, faults, edits>>

\* Between its admission and its commit a request waits, too.
Admit(m) ==
  /\ \/ m.kind = "ungate" /\ ~m.admitted /\ PermitValid(m.pod)
     \/ m.kind = "target" /\ ~m.admitted /\ UpdateValid(m.t)
  /\ late' = (late \ {m}) \cup {[m EXCEPT !.admitted = TRUE]}
  /\ UNCHANGED <<service, objects, worker, orphans, ident, faults, edits>>

\* A request whose object has changed is rejected.
Stale(m) ==
  \/ m.kind = "lease" /\ ~Accepts(m.l)
  \/ m.kind = "target" /\ ~AcceptsTarget(m.t)
  \/ m.kind = "ungate" /\ pods[m.pod].st # "gated"

Reject(m) ==
  /\ Stale(m)
  /\ late' = late \ {m}
  /\ UNCHANGED <<service, objects, worker, orphans, ident, faults, edits>>

-----------------------------------------------------------------------------
(* The users, Kubernetes' controllers and the other clusters.              *)

System == UNCHANGED <<worker, orphans, ident, faults>>

UserWrites(l) ==
  /\ berth.exists /\ edits < MaxEdits
  /\ edits' = edits + 1
  /\ berth' = [l EXCEPT !.rv = berth.rv + 1]
  /\ UNCHANGED <<service, target, pods, jobs, late>>

DeleteLease ==
  /\ ~berth.deleting
  /\ UserWrites(IF berth.fin THEN [berth EXCEPT !.deleting = TRUE]
                ELSE [berth EXCEPT !.exists = FALSE])
  /\ System

EditSpec == UserWrites([berth EXCEPT !.valid = ~berth.valid]) /\ System

\* Mutant: the record of a stopping target may be replaced.
recordTargetAlways(u) ==
  berth.exists /\ ~berth.deleting /\ berth.valid /\ target.uid = None

\* Final admission of the target's creation.
recordTarget(u) ==
  /\ berth.exists /\ ~berth.deleting /\ berth.valid
  /\ berth.w.phase = "" /\ berth.w.pods = {}
  /\ target.uid = None

\* Handle's last check of a CREATE records the UID; storing the target follows.
CreateTarget(u) ==
  /\ berth.w.uid # u /\ recordTarget(u)
  /\ \A m \in late : m.kind = "create" => m.uid # u
  /\ edits < MaxEdits
  /\ edits' = edits + 1
  /\ berth' = [berth EXCEPT !.w = [NoWorkload EXCEPT !.uid = u], !.rv = berth.rv + 1]
  /\ late' = late \cup {[kind |-> "create", uid |-> u]}
  /\ UNCHANGED <<service, target, pods, jobs>>
  /\ System

DeleteTarget ==
  /\ target.uid # None /\ edits < MaxEdits
  /\ edits' = edits + 1
  /\ target' = NoTarget
  /\ UNCHANGED <<service, berth, pods, jobs, late>>
  /\ System

Scale(a) ==
  /\ target.uid # None /\ edits < MaxEdits
  /\ LET t == [target EXCEPT !.active = a]
     IN t # target /\ UpdateValid(t) /\ late' = late \cup {[kind |-> "target", t |-> t, admitted |-> TRUE]}
  /\ edits' = edits + 1
  /\ UNCHANGED <<service, objects>>
  /\ System

User ==
  \/ DeleteLease \/ EditSpec \/ DeleteTarget
  \/ \E u \in Target \cap Created : CreateTarget(u)
  \/ \E a \in BOOLEAN : Scale(a)

Pods(p, from, to) ==
  /\ pods[p].st = from /\ pods' = [pods EXCEPT ![p].st = to]
  /\ UNCHANGED <<service, berth, target, jobs, late, edits>>
  /\ System

\* Admission resolves a Pod's owners and gives it the gate; storing it follows.
PodAdmit(p) ==
  /\ p \in Created /\ pods[p].st = "none" /\ berth.exists /\ target.uid # None
  /\ pods' = [pods EXCEPT ![p] = [st |-> "creating", root |-> target.uid]]
  /\ UNCHANGED <<service, berth, target, jobs, late, edits>>
  /\ System

PodCreated(p) == Pods(p, "creating", "gated")

\* Admission of a binding refuses a gated Pod.
PodBind(p) == Pods(p, "open", "bound")
PodFinish(p) == Pods(p, "bound", "done")
PodTerminated(p) == Pods(p, "leaving", "gone")

PodDelete(p) ==
  /\ p \in Stored /\ pods' = Deleted({p})
  /\ UNCHANGED <<service, berth, target, jobs, late, edits>>
  /\ System

Jobs(j, from, to) ==
  /\ jobs[j] = from /\ jobs' = [jobs EXCEPT ![j] = to]
  /\ UNCHANGED <<service, berth, target, pods, late, edits>>
  /\ System

JobCreate(j) ==
  /\ j \in Created /\ berth.exists /\ ~berth.deleting /\ target.uid # None
  /\ Jobs(j, "none", "live")
JobRemoved(j) == Jobs(j, "deleting", "gone")

Kubernetes ==
  \/ \E p \in Pod : PodAdmit(p) \/ PodCreated(p) \/ PodBind(p) \/ PodFinish(p)
                    \/ PodTerminated(p) \/ PodDelete(p)
  \/ \E j \in Job : JobCreate(j) \/ JobRemoved(j)

\* The operator is restarted with another --cluster-id.
Reconfigure ==
  /\ edits < MaxEdits /\ edits' = edits + 1
  /\ ident' \in Identity \ {ident}
  /\ worker' = [x \in Worker |-> Idle]
  /\ UNCHANGED <<service, objects, late, orphans, faults>>

\* Another cluster claims the lease or gives it up.
Rival ==
  /\ \/ \E h \in Holder \ Identity :
          /\ token[Lease] < MaxToken
          /\ holder[Lease] = NoHolder \/ Expired
          /\ expires' = [expires EXCEPT ![Lease] = clock + TTL]
          /\ Claim(Lease, h)
     \/ /\ holder[Lease] \notin Identity
        /\ UNCHANGED expires /\ Vacate(Lease)
  /\ UNCHANGED <<setup, clock, objects, late, edits>>
  /\ System

Tick ==
  /\ clock < MaxClock /\ Advance
  /\ UNCHANGED <<setup, objects, late, edits>>
  /\ System

\* Nothing is left to do once the lease is gone, or after the last attempt.
Finished ==
  /\ \/ ~berth.exists /\ Stored = {}
     \/ berth.w.phase = "" /\ ~berth.deleting /\ berth.rv >= MaxRV
  /\ \A x \in Worker : At(x, "idle")
  /\ UNCHANGED vars

-----------------------------------------------------------------------------
\* The lease is new, and a target of its name may exist from before admission;
\* or the target was created under admission.
Init ==
  /\ setup \in Setups
  /\ LeaseInit
  /\ \/ /\ berth = [NoBerth EXCEPT !.exists = TRUE, !.rv = 1]
        /\ target \in {NoTarget} \cup
             {[uid |-> u, rv |-> 1, bound |-> FALSE, active |-> TRUE, fence |-> 0] : u \in Target \cap Created}
     \/ \E u \in Target \cap Created :
          /\ berth = [NoBerth EXCEPT !.exists = TRUE, !.rv = 1, !.fin = TRUE, !.w.uid = u]
          /\ target = [uid |-> u, rv |-> 1, bound |-> TRUE, active |-> TRUE, fence |-> 0]
  /\ pods = [p \in Pod |-> [st |-> "none", root |-> None]]
  /\ jobs = [j \in Job |-> "none"]
  /\ worker = [x \in Worker |-> Idle]
  /\ late = {} /\ orphans = {}
  /\ ident \in Identity
  /\ faults = 0 /\ edits = 0

LeaseStepOf(x) ==
  \/ Reconcile(x) \/ Verify(x)
  \/ ServeAcquire(x) \/ AcquireError(x) \/ AcquireReturns(x)
  \/ Activate(x) \/ ListPods(x)

StopStepOf(x) ==
  \/ Stop(x) \/ StopTarget(x) \/ DrainJobs(x) \/ DrainPods(x)
  \/ Release(x) \/ Clear(x)

PermitStepOf(x) ==
  \/ Permit(x) \/ Ungate(x)
  \/ \E p \in Pod : PodReconcile(x, p)

Act ==
  \/ \E x \in Worker : LeaseStepOf(x) \/ StopStepOf(x) \/ PermitStepOf(x) \/ Fail(x)
  \/ \E j \in Job : JobReconcile(j)
  \/ \E m \in late : Arrive(m) \/ Admit(m)
  \/ \E m \in orphans : ServeOrphan(m)
  \/ User \/ Kubernetes \/ Reconfigure \/ Rival \/ Tick \/ Finished

\* A rejection has no effect, so that it need not wait.
Next ==
  \/ \E m \in late : Reject(m)
  \/ (\A m \in late : ~Stale(m)) /\ Act

Spec == Init /\ [][Next]_vars

\* Queued reconciles run, refused requests return, and Kubernetes finishes the
\* removal of what was deleted.  Faults are finitely many.
Fairness ==
  /\ \A x \in Worker : WF_vars(LeaseStepOf(x) \/ StopStepOf(x) \/ PermitStepOf(x))
  /\ \A j \in Job : WF_vars(JobReconcile(j)) /\ WF_vars(JobRemoved(j))
  /\ \A p \in Pod : WF_vars(PodTerminated(p))
  /\ WF_vars(\E m \in late : Reject(m))

FairSpec == Spec /\ Fairness

-----------------------------------------------------------------------------
\* While the BerthLease says that Pods may start, the service has this cluster
\* as the holder under the recorded token, and the lease has not run out:
\* slow replies, late status writes, restarts and clock offsets included.
ActiveProvesOwnership ==
  activeAt(berth, Now) =>
    /\ holder[Lease] = berth.w.holder
    /\ token[Lease] = berth.w.token
    /\ clock < expires[Lease]

\* No Pod can execute unless its UID is registered in the status, under the
\* token of an activation whose cleanup is still owed; and registrations stay
\* within their limit and do not outlive that cleanup.
RunnableIsRegistered ==
  /\ \A p \in Pod : Runnable(p) =>
       /\ berth.exists /\ berth.w.phase # ""
       /\ p \in berth.w.pods /\ berth.w.token > 0
  /\ berth.w.pods # {} => berth.w.phase # ""
  /\ Cardinality(berth.w.pods) <= MaxPermittedPods

\* The tenure under which a Pod executes ends by running out, never because
\* this cluster gave the lease back before the Pod had terminated.
StoppedBeforeRelease ==
  [][(\E p \in Pod : Runnable(p)) /\ token[Lease] = berth.w.token
       /\ holder[Lease] = berth.w.holder /\ holder'[Lease] # holder[Lease]
     => Expired]_vars

\* The admitted target is not scaled up while no activation is recorded: a write
\* that was on its way when the target was stopped finds another version.
StoppedStaysStopped ==
  [][target.uid # None /\ target.uid = berth.w.uid /\ target'.uid = target.uid
       /\ ~target.active /\ target'.active
     => berth.exists /\ berth.w.phase # ""]_vars

\* A deleted BerthLease goes away once its workload is gone, whatever fails on
\* the way and whoever writes to it meanwhile.
DeletionCompletes == (berth.exists /\ berth.deleting) ~> ~berth.exists

\* Once an activation is overdue all of its Pods stop executing, unless a renewal
\* already under way still succeeds.
OverduePodsStop ==
  (berth.w.phase = "Active" /\ Now >= berth.w.deadline)
    ~> (activeAt(berth, Now) \/ \A p \in Pod : ~Runnable(p))

\* Pods and Jobs whose creation is stored after their lease is gone are removed.
LateCreatesRemoved ==
  ~berth.exists ~> (Stored = {} /\ \A j \in Job : jobs[j] \in {"none", "gone"})
=============================================================================
