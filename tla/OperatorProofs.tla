---------------------------- MODULE OperatorProofs ----------------------------
(***************************************************************************)
(* The inductive invariants of the operator, for any number of clusters,   *)
(* Pods, users' edits, faults, TTLs, roundings and clock offsets.  The     *)
(* theorems that rest on them are in OwnershipProofs.                      *)
(*                                                                         *)
(* Everything that may replace the BerthLease was built from some version  *)
(* of it: the copies of the reconcilers and the status writes still on     *)
(* their way.  The invariants say what such a copy or write may assume as  *)
(* long as the version is still the current one.  The last part does the   *)
(* same for the writes on their way to the target.                         *)
(***************************************************************************)
EXTENDS Operator, TLAPS

\* A Pod that has terminated or is gone, and one whose creation was stored:
\* both for good.
Over(p) == pods[p].st \in {"done", "gone"}
Known(p) == pods[p].st \notin {"none", "creating"}

PodStates == {"none", "creating", "gated", "open", "bound", "leaving", "done", "gone"}

Workload == [uid : Target \cup {None}, phase : {"", "Active", "Stopping"}, deadline : Int,
             holder : Holder \cup {NoHolder}, token : Nat, pods : SUBSET Pod]
Berth == [exists : BOOLEAN, rv : Nat, fin : BOOLEAN, deleting : BOOLEAN, valid : BOOLEAN, w : Workload]
TargetObject == [uid : Target \cup {None}, rv : Nat, bound : BOOLEAN, active : BOOLEAN, fence : Nat]
PodObject == [st : PodStates, root : Target \cup {None}]
Reply == [res : {"none", "granted", "denied"}, token : Nat, expires : Int]

DrainPC == {"stopTarget", "drainJobs", "drainPods", "release", "clear"}
PC == DrainPC \cup {"idle", "verify", "acquire", "activate", "list", "permit", "ungate", "stop", "quarantine"}

Local == [pc : PC, l : Berth, started : Int, reply : Reply,
          todo : SUBSET [pod : Pod, st : PodStates], head : Pod \cup {None}, done : BOOLEAN]

LeaseWrite == [kind : {"lease"}, l : Berth]
TargetWrite == [kind : {"target"}, t : TargetObject, admitted : BOOLEAN]
UngateWrite == [kind : {"ungate"}, pod : Pod, admitted : BOOLEAN]
CreateWrite == [kind : {"create"}, uid : Target]
Orphan == [op : {"acquire", "release"}, holder : Holder, token : Nat]

LeaseTypes ==
  /\ holder \in [Key -> Holder \cup {NoHolder}] /\ token \in [Key -> Nat]
  /\ expires \in [Key -> Int] /\ clock \in Int
  /\ holder[Lease] # NoHolder => token[Lease] > 0

ObjectTypes ==
  /\ setup \in Setups
  /\ berth \in Berth /\ berth.rv > 0
  /\ target \in TargetObject
  /\ pods \in [Pod -> PodObject]
  /\ worker \in [Worker -> Local]
  /\ late \in SUBSET (LeaseWrite \cup TargetWrite \cup UngateWrite \cup CreateWrite)
  /\ orphans \in SUBSET Orphan
  /\ ident \in Identity

-----------------------------------------------------------------------------
(* Registration.                                                           *)

\* At most n Pods.
Few(S, n) == IsFiniteSet(S) /\ Cardinality(S) <= n

\* What the proofs use of cardinalities.  It is carried along in the invariant,
\* so that the library's theorems are needed only once.
Counts ==
  \A n \in Nat :
    /\ Few({}, n)
    /\ \A S \in SUBSET Pod : Few(S, n) =>
         /\ \A T \in SUBSET S : Few(T, n)
         /\ ~(Cardinality(S) >= n) => \A p \in Pod : Few(S \cup {p}, n)

\* What every version of the status says.
Sound(l) ==
  /\ l.w.phase = "" => l.w.token = 0
  /\ l.w.phase = "Active" => l.w.token > 0
  /\ l.w.token > 0 => l.w.holder \in Identity
  /\ l.w.pods # {} => l.w.token > 0
  /\ \A p \in l.w.pods : Known(p)
  /\ l.w.pods # {} => Few(l.w.pods, MaxPermittedPods)
  /\ l.w.phase # "" => l.fin

\* A reconciler whose copy is of the current version knows the BerthLease.
Fresh(l) == l.rv <= berth.rv /\ (l.rv = berth.rv => l = berth)

Cleared(l) == l.w.phase = "" \/ ~l.exists

\* What a write may do to the version it was built from: no Pod that may still
\* execute is forgotten, and cleanup ends only after all of them are over.
Follows(l) ==
  /\ \A p \in berth.w.pods : Over(p) \/ (l.exists /\ p \in l.w.pods)
  /\ berth.w.phase = "Stopping" => Cleared(l) /\ \A p \in berth.w.pods : Over(p)

Current(l) == berth.exists /\ l.rv = berth.rv

Write(l) == l.rv <= berth.rv /\ l.fin /\ Sound(l) /\ (Current(l) => Follows(l))

Registered(p) == berth.exists /\ p \in berth.w.pods

\* What a reconciler knows at each point.
Knows(x, v) ==
  /\ Sound(v.l)
  /\ v.pc \notin {"idle", "ungate"} \/ v.todo # {} => v.l.fin /\ v.l.exists
  /\ v.pc \in {"verify", "acquire"} => v.l.w.phase # "Stopping"
  /\ v.pc = "stop" => v.l.w.phase = "Active"
  /\ v.pc \in DrainPC => v.l.w.phase = "Stopping"
  /\ v.pc \in {"release", "clear"} => \A p \in v.l.w.pods : Over(p)
  /\ v.reply.res = "granted" => v.reply.token > 0
  /\ v.pc = "verify" => v.reply = NoReply
  /\ \A s \in v.todo : Known(s.pod)
  /\ v.pc = "ungate" => v.head \in Pod
  /\ x = "pods" => v.pc \in {"idle", "permit", "ungate"}

Copy(x) == Knows(x, worker[x]) /\ Fresh(worker[x].l)

Ungates(m) == m.admitted => Over(m.pod) \/ Registered(m.pod)

RInv ==
  /\ Counts /\ LeaseTypes /\ ObjectTypes
  /\ Sound(berth)
  /\ \A p \in Pod : Runnable(p) => Registered(p)
  /\ \A x \in Worker : Copy(x)
  /\ \A m \in late : (m.kind = "lease" => Write(m.l)) /\ (m.kind = "ungate" => Ungates(m))

-----------------------------------------------------------------------------
(* The operators the model is built from.                                  *)

\* The setup at hand is one of the assumption's.
LEMMA SetupTypes ==
  ASSUME setup \in Setups
  PROVE  /\ TTL \in Nat /\ TTL \in TTLs /\ Second \in Nat \ {0} /\ Offset \in Int
         /\ Identity \subseteq Holder /\ NoHolder \notin Identity
         /\ MaxPermittedPods \in Nat /\ MaxFaults \in Nat /\ MaxEdits \in Nat
BY OperatorAssumption, Zenon DEF TTL, Second, Offset, Identity, MaxPermittedPods, MaxFaults, MaxEdits

\* The empty record of a workload is one.
LEMMA NothingRecorded == NoWorkload \in Workload
BY OperatorAssumption DEF NoWorkload, Workload

\* The values that stand for nothing have their types and claim nothing.
LEMMA Nothing ==
  ASSUME setup \in Setups
  PROVE  /\ NoWorkload \in Workload /\ NoBerth \in Berth /\ Sound(NoBerth) /\ NoBerth.rv = 0
         /\ Idle \in Local /\ Idle.l = NoBerth /\ \A x : Knows(x, Idle)
<1>1. NoWorkload \in Workload
  BY NothingRecorded, Zenon
<1>2. NoBerth \in Berth /\ NoBerth.rv = 0 /\ NoBerth.w = NoWorkload
  BY <1>1 DEF NoBerth, Berth
<1>3. Sound(NoBerth)
  <2>1. NoWorkload.phase = "" /\ NoWorkload.token = 0 /\ NoWorkload.pods = {}
    BY DEF NoWorkload
  <2>2. ~(0 > 0) /\ "" # "Active"
    OBVIOUS
  <2> QED BY <1>2, <2>1, <2>2, Zenon DEF Sound
<1>4. NoReply \in Reply
  BY DEF NoReply, Reply
<1>5. Idle \in Local /\ Idle.l = NoBerth /\ Idle.pc = "idle" /\ Idle.todo = {} /\ Idle.reply.res = "none"
  BY <1>2, <1>4 DEF Idle, Local, PC, DrainPC, NoReply
<1>6. ASSUME NEW x PROVE Knows(x, Idle)
  BY <1>3, <1>5 DEF Knows, DrainPC
<1> QED BY <1>1, <1>2, <1>3, <1>5, <1>6, Zenon

\* A write keeps what the lease says and moves its version.
LEMMA WrittenIs ==
  ASSUME berth \in Berth, NEW l \in Berth
  PROVE  /\ Written(l) \in Berth /\ Written(l).w = l.w /\ Written(l).fin = l.fin
         /\ Written(l).exists = l.exists /\ Written(l).deleting = l.deleting
         /\ Sound(l) => Sound(Written(l))
         /\ l # berth => Written(l).rv = l.rv + 1
         /\ l = berth => Written(l) = l
<1>1. CASE l = berth
  BY <1>1, Zenon DEF Written
<1>2. CASE l # berth
  <2> DEFINE n == [exists |-> l.exists, rv |-> l.rv + 1, fin |-> l.fin, deleting |-> l.deleting,
                   valid |-> l.valid, w |-> l.w]
  <2>1. Written(l) = n
    BY <1>2 DEF Written, Berth
  <2>2. l.rv + 1 \in Nat
    BY DEF Berth
  <2>3. n \in Berth
    BY <2>2, Zenon DEF Berth
  <2>4. n.w = l.w /\ n.fin = l.fin /\ n.exists = l.exists /\ n.deleting = l.deleting /\ n.rv = l.rv + 1
    BY Zenon
  <2> HIDE DEF n
  <2> QED BY <1>2, <2>1, <2>3, <2>4, Zenon DEF Sound
<1> QED BY <1>1, <1>2, Zenon

\* Stopping changes the phase alone.
LEMMA StoppingIs ==
  ASSUME NEW l \in Berth
  PROVE  /\ Stopping(l) \in Berth /\ Stopping(l).rv = l.rv /\ Stopping(l).fin = l.fin
         /\ Stopping(l).exists = l.exists /\ Stopping(l).deleting = l.deleting
         /\ Stopping(l).w = [uid |-> l.w.uid, phase |-> "Stopping", deadline |-> l.w.deadline,
                             holder |-> l.w.holder, token |-> l.w.token, pods |-> l.w.pods]
         /\ Stopping(l).w.phase = "Stopping" /\ Stopping(l).w.token = l.w.token
         /\ Stopping(l).w.holder = l.w.holder /\ Stopping(l).w.pods = l.w.pods
         /\ Sound(l) /\ l.fin => Sound(Stopping(l))
         /\ l.w.phase = "Stopping" => Stopping(l) = l
         /\ l.w.phase # "Stopping" => Stopping(l) # l
<1> DEFINE v == [uid |-> l.w.uid, phase |-> "Stopping", deadline |-> l.w.deadline,
                 holder |-> l.w.holder, token |-> l.w.token, pods |-> l.w.pods]
           n == [exists |-> l.exists, rv |-> l.rv, fin |-> l.fin, deleting |-> l.deleting,
                 valid |-> l.valid, w |-> v]
<1>1. l.w \in Workload
  BY Zenon DEF Berth
<1>2. [l.w EXCEPT !.phase = "Stopping"] = v
  <2> DEFINE u == l.w
  <2>1. u \in Workload
    BY <1>1
  <2> HIDE DEF u
  <2>2. u = [uid |-> u.uid, phase |-> u.phase, deadline |-> u.deadline,
             holder |-> u.holder, token |-> u.token, pods |-> u.pods]
    BY <2>1, Zenon DEF Workload
  <2>3. [u EXCEPT !.phase = "Stopping"] =
          [uid |-> u.uid, phase |-> "Stopping", deadline |-> u.deadline,
           holder |-> u.holder, token |-> u.token, pods |-> u.pods]
    BY <2>2
  <2> QED BY <2>3, Zenon DEF u
<1>3. Stopping(l) = n
  <2>1. Stopping(l) = [l EXCEPT !.w = [l.w EXCEPT !.phase = "Stopping"]]
    BY Zenon DEF Stopping
  <2> HIDE DEF v
  <2> QED BY <1>2, <2>1 DEF Berth
<1>4. v \in Workload
  BY <1>1, Zenon DEF Workload
<1>5. n \in Berth
  BY <1>4, Zenon DEF Berth
<1>6. v.phase = "Stopping" /\ v.token = l.w.token /\ v.holder = l.w.holder /\ v.pods = l.w.pods
  BY Zenon
<1>7. l.w.phase = "Stopping" => v = l.w
  BY <1>1, Zenon DEF Workload
<1>8. l.w = v => n = l
  BY DEF Berth
<1>9. n = l => l.w = v
  <2>1. n.w = v
    BY Zenon
  <2> HIDE DEF n
  <2> QED BY <2>1, Zenon
<1> HIDE DEF v
<1>10. Sound(l) /\ l.fin => Sound(n)
  BY <1>6, Zenon DEF Sound
<1>11. n.w = v /\ n.rv = l.rv /\ n.fin = l.fin /\ n.exists = l.exists /\ n.deleting = l.deleting
  BY Zenon
<1> HIDE DEF n
<1> QED BY <1>3, <1>5, <1>6, <1>7, <1>8, <1>9, <1>10, <1>11, Zenon DEF v

-----------------------------------------------------------------------------
(* Registration is kept.                                                   *)

\* What happens to a Pod is not undone.
Onward == \A p \in Pod : (Over(p) => Over(p)') /\ (Known(p) => Known(p)')

\* The requests that touch neither the BerthLease nor an open Pod.
Harmless == TargetWrite \cup {m \in UngateWrite : ~m.admitted}

\* Changes of single fields of the lease.
LEMMA LeaseIs ==
  ASSUME NEW l \in Berth
  PROVE  /\ \A w \in Workload : LET k == [l EXCEPT !.w = w]
              IN /\ k \in Berth /\ k.w = w /\ k.rv = l.rv /\ k.fin = l.fin /\ k.exists = l.exists
                 /\ k.deleting = l.deleting
         /\ LET k == [l EXCEPT !.exists = FALSE]
            IN k \in Berth /\ ~k.exists /\ k.rv = l.rv /\ k.fin = l.fin /\ k.w = l.w
         /\ LET k == [l EXCEPT !.deleting = TRUE]
            IN k \in Berth /\ k.exists = l.exists /\ k.rv = l.rv /\ k.fin = l.fin /\ k.w = l.w
         /\ \A b \in BOOLEAN : LET k == [l EXCEPT !.valid = b]
              IN k \in Berth /\ k.exists = l.exists /\ k.rv = l.rv /\ k.fin = l.fin /\ k.w = l.w
         /\ \A n \in Nat : LET k == [l EXCEPT !.rv = n]
              IN k \in Berth /\ k.exists = l.exists /\ k.rv = n /\ k.fin = l.fin /\ k.w = l.w
<1>1. l = [exists |-> l.exists, rv |-> l.rv, fin |-> l.fin, deleting |-> l.deleting,
           valid |-> l.valid, w |-> l.w]
  BY DEF Berth
<1>2. /\ l.exists \in BOOLEAN /\ l.rv \in Nat /\ l.fin \in BOOLEAN /\ l.deleting \in BOOLEAN
      /\ l.valid \in BOOLEAN /\ l.w \in Workload
  BY Zenon DEF Berth
<1>3. ASSUME NEW w \in Workload
      PROVE  LET k == [l EXCEPT !.w = w]
             IN k \in Berth /\ k.w = w /\ k.rv = l.rv /\ k.fin = l.fin /\ k.exists = l.exists /\ k.deleting = l.deleting
  <2> DEFINE k == [exists |-> l.exists, rv |-> l.rv, fin |-> l.fin,
                   deleting |-> l.deleting, valid |-> l.valid, w |-> w]
  <2>1. [l EXCEPT !.w = w] = k
    BY <1>1
  <2>2. k \in Berth
    BY <1>2, Zenon DEF Berth
  <2>3. k.w = w /\ k.rv = l.rv /\ k.fin = l.fin /\ k.exists = l.exists /\ k.deleting = l.deleting
    BY Zenon
  <2> HIDE DEF k
  <2> QED BY <2>1, <2>2, <2>3, Zenon
<1>4. ASSUME NEW b \in BOOLEAN
      PROVE  LET k == [l EXCEPT !.exists = b]
             IN k \in Berth /\ k.exists = b /\ k.rv = l.rv /\ k.fin = l.fin /\ k.w = l.w
  <2> DEFINE k == [exists |-> b, rv |-> l.rv, fin |-> l.fin,
                   deleting |-> l.deleting, valid |-> l.valid, w |-> l.w]
  <2>1. [l EXCEPT !.exists = b] = k
    BY <1>1
  <2>2. k \in Berth
    BY <1>2, Zenon DEF Berth
  <2>3. k.exists = b /\ k.rv = l.rv /\ k.fin = l.fin /\ k.w = l.w
    BY Zenon
  <2> HIDE DEF k
  <2> QED BY <2>1, <2>2, <2>3, Zenon
<1>5. ASSUME NEW b \in BOOLEAN
      PROVE  LET k == [l EXCEPT !.deleting = b]
             IN k \in Berth /\ k.exists = l.exists /\ k.rv = l.rv /\ k.fin = l.fin /\ k.w = l.w
  <2> DEFINE k == [exists |-> l.exists, rv |-> l.rv, fin |-> l.fin,
                   deleting |-> b, valid |-> l.valid, w |-> l.w]
  <2>1. [l EXCEPT !.deleting = b] = k
    BY <1>1
  <2>2. k \in Berth
    BY <1>2, Zenon DEF Berth
  <2>3. k.exists = l.exists /\ k.rv = l.rv /\ k.fin = l.fin /\ k.w = l.w
    BY Zenon
  <2> HIDE DEF k
  <2> QED BY <2>1, <2>2, <2>3, Zenon
<1>6. ASSUME NEW b \in BOOLEAN
      PROVE  LET k == [l EXCEPT !.valid = b]
             IN k \in Berth /\ k.exists = l.exists /\ k.rv = l.rv /\ k.fin = l.fin /\ k.w = l.w
  <2> DEFINE k == [exists |-> l.exists, rv |-> l.rv, fin |-> l.fin,
                   deleting |-> l.deleting, valid |-> b, w |-> l.w]
  <2>1. [l EXCEPT !.valid = b] = k
    BY <1>1
  <2>2. k \in Berth
    BY <1>2, Zenon DEF Berth
  <2>3. k.exists = l.exists /\ k.rv = l.rv /\ k.fin = l.fin /\ k.w = l.w
    BY Zenon
  <2> HIDE DEF k
  <2> QED BY <2>1, <2>2, <2>3, Zenon
<1>7. ASSUME NEW n \in Nat
      PROVE  LET k == [l EXCEPT !.rv = n]
             IN k \in Berth /\ k.exists = l.exists /\ k.rv = n /\ k.fin = l.fin /\ k.w = l.w
  <2> DEFINE k == [exists |-> l.exists, rv |-> n, fin |-> l.fin,
                   deleting |-> l.deleting, valid |-> l.valid, w |-> l.w]
  <2>1. [l EXCEPT !.rv = n] = k
    BY <1>1
  <2>2. k \in Berth
    BY <1>2, Zenon DEF Berth
  <2>3. k.exists = l.exists /\ k.rv = n /\ k.fin = l.fin /\ k.w = l.w
    BY Zenon
  <2> HIDE DEF k
  <2> QED BY <2>1, <2>2, <2>3, Zenon
<1>8. FALSE \in BOOLEAN /\ TRUE \in BOOLEAN
  OBVIOUS
<1>9. LET k == [l EXCEPT !.exists = FALSE]
      IN k \in Berth /\ ~k.exists /\ k.rv = l.rv /\ k.fin = l.fin /\ k.w = l.w
  BY <1>4, <1>8, Zenon
<1>10. LET k == [l EXCEPT !.deleting = TRUE]
       IN k \in Berth /\ k.exists = l.exists /\ k.rv = l.rv /\ k.fin = l.fin /\ k.w = l.w
  BY <1>5, <1>8, Zenon
<1> QED BY <1>3, <1>6, <1>7, <1>9, <1>10, Zenon

\* The record of a renewal.
Renewal(w, h, tok, d, S) ==
  [w EXCEPT !.phase = "Active", !.holder = h, !.token = tok, !.deadline = d, !.pods = S]

\* What a renewal records.
LEMMA RenewalIs ==
  ASSUME NEW w \in Workload, NEW h \in Holder, NEW tok \in Nat, NEW d \in Int, NEW S \in SUBSET Pod,
         NEW r, r = Renewal(w, h, tok, d, S)
  PROVE  /\ r \in Workload /\ r.phase = "Active" /\ r.holder = h /\ r.token = tok
         /\ r.deadline = d /\ r.pods = S
<1>1. ASSUME NEW v \in Workload
      PROVE  v = [uid |-> v.uid, phase |-> v.phase, deadline |-> v.deadline,
                  holder |-> v.holder, token |-> v.token, pods |-> v.pods]
  BY Zenon DEF Workload
<1>2. ASSUME NEW v \in Workload
      PROVE  /\ v.uid \in Target \cup {None} /\ v.phase \in {"", "Active", "Stopping"} /\ v.deadline \in Int
             /\ v.holder \in Holder \cup {NoHolder} /\ v.token \in Nat /\ v.pods \in SUBSET Pod
  BY Zenon DEF Workload
<1>3. ASSUME NEW v \in Workload
      PROVE  LET n == [v EXCEPT !.phase = "Active"]
             IN n \in Workload /\ n.phase = "Active"
  <2> DEFINE n == [uid |-> v.uid, phase |-> "Active", deadline |-> v.deadline,
                   holder |-> v.holder, token |-> v.token, pods |-> v.pods]
  <2>1. [v EXCEPT !.phase = "Active"] = n
    BY <1>1
  <2>2. n \in Workload
    BY <1>2, Zenon DEF Workload
  <2>3. n.uid = v.uid /\ n.phase = "Active" /\ n.deadline = v.deadline /\ n.holder = v.holder /\ n.token = v.token /\ n.pods = v.pods
    BY Zenon
  <2> HIDE DEF n
  <2> QED BY <2>1, <2>2, <2>3, Zenon
<1>4. ASSUME NEW v \in Workload
      PROVE  LET n == [v EXCEPT !.holder = h]
             IN n \in Workload /\ n.phase = v.phase /\ n.holder = h
  <2> DEFINE n == [uid |-> v.uid, phase |-> v.phase, deadline |-> v.deadline,
                   holder |-> h, token |-> v.token, pods |-> v.pods]
  <2>1. [v EXCEPT !.holder = h] = n
    BY <1>1
  <2>2. n \in Workload
    BY <1>2, Zenon DEF Workload
  <2>3. n.uid = v.uid /\ n.phase = v.phase /\ n.deadline = v.deadline /\ n.holder = h /\ n.token = v.token /\ n.pods = v.pods
    BY Zenon
  <2> HIDE DEF n
  <2> QED BY <2>1, <2>2, <2>3, Zenon
<1>5. ASSUME NEW v \in Workload
      PROVE  LET n == [v EXCEPT !.token = tok]
             IN n \in Workload /\ n.phase = v.phase /\ n.holder = v.holder /\ n.token = tok
  <2> DEFINE n == [uid |-> v.uid, phase |-> v.phase, deadline |-> v.deadline,
                   holder |-> v.holder, token |-> tok, pods |-> v.pods]
  <2>1. [v EXCEPT !.token = tok] = n
    BY <1>1
  <2>2. n \in Workload
    BY <1>2, Zenon DEF Workload
  <2>3. n.uid = v.uid /\ n.phase = v.phase /\ n.deadline = v.deadline /\ n.holder = v.holder /\ n.token = tok /\ n.pods = v.pods
    BY Zenon
  <2> HIDE DEF n
  <2> QED BY <2>1, <2>2, <2>3, Zenon
<1>6. ASSUME NEW v \in Workload
      PROVE  LET n == [v EXCEPT !.deadline = d]
             IN n \in Workload /\ n.phase = v.phase /\ n.holder = v.holder /\ n.token = v.token /\ n.deadline = d
  <2> DEFINE n == [uid |-> v.uid, phase |-> v.phase, deadline |-> d,
                   holder |-> v.holder, token |-> v.token, pods |-> v.pods]
  <2>1. [v EXCEPT !.deadline = d] = n
    BY <1>1
  <2>2. n \in Workload
    BY <1>2, Zenon DEF Workload
  <2>3. n.uid = v.uid /\ n.phase = v.phase /\ n.deadline = d /\ n.holder = v.holder /\ n.token = v.token /\ n.pods = v.pods
    BY Zenon
  <2> HIDE DEF n
  <2> QED BY <2>1, <2>2, <2>3, Zenon
<1>7. ASSUME NEW v \in Workload
      PROVE  LET n == [v EXCEPT !.pods = S]
             IN /\ n \in Workload /\ n.phase = v.phase /\ n.holder = v.holder /\ n.token = v.token
                /\ n.deadline = v.deadline /\ n.pods = S
  <2> DEFINE n == [uid |-> v.uid, phase |-> v.phase, deadline |-> v.deadline,
                   holder |-> v.holder, token |-> v.token, pods |-> S]
  <2>1. [v EXCEPT !.pods = S] = n
    BY <1>1
  <2>2. n \in Workload
    BY <1>2, Zenon DEF Workload
  <2>3. n.uid = v.uid /\ n.phase = v.phase /\ n.deadline = v.deadline /\ n.holder = v.holder /\ n.token = v.token /\ n.pods = S
    BY Zenon
  <2> HIDE DEF n
  <2> QED BY <2>1, <2>2, <2>3, Zenon
<1>8. PICK a : a = [w EXCEPT !.phase = "Active"]
  BY Zenon
<1>9. PICK b : b = [a EXCEPT !.holder = h]
  BY Zenon
<1>10. PICK c : c = [b EXCEPT !.token = tok]
  BY Zenon
<1>11. PICK e : e = [c EXCEPT !.deadline = d]
  BY Zenon
<1>12. PICK f : f = [e EXCEPT !.pods = S]
  BY Zenon
<1>13. r = f
  BY <1>8, <1>9, <1>10, <1>11, <1>12 DEF Renewal
<1>14. a \in Workload /\ a.phase = "Active"
  BY <1>3, <1>8, Zenon
<1>15. b \in Workload /\ b.phase = a.phase /\ b.holder = h
  BY <1>4, <1>9, <1>14, Zenon
<1>16. c \in Workload /\ c.phase = b.phase /\ c.holder = b.holder /\ c.token = tok
  BY <1>5, <1>10, <1>15, Zenon
<1>17. e \in Workload /\ e.phase = c.phase /\ e.holder = c.holder /\ e.token = c.token /\ e.deadline = d
  BY <1>6, <1>11, <1>16, Zenon
<1>18. /\ f \in Workload /\ f.phase = e.phase /\ f.holder = e.holder /\ f.token = e.token
       /\ f.deadline = e.deadline /\ f.pods = S
  BY <1>7, <1>12, <1>17, Zenon
<1> QED BY <1>13, <1>14, <1>15, <1>16, <1>17, <1>18, Zenon

\* Changes of the recorded workload: a registration, and the end of an activation.
LEMMA WorkloadIs ==
  ASSUME NEW w \in Workload
  PROVE  /\ \A S \in SUBSET Pod :
              LET v == [w EXCEPT !.pods = S]
              IN /\ v \in Workload /\ v.phase = w.phase /\ v.holder = w.holder /\ v.token = w.token
                 /\ v.deadline = w.deadline /\ v.pods = S
         /\ \A u \in Target \cup {None} :
              LET v == [NoWorkload EXCEPT !.uid = u]
              IN v \in Workload /\ v.phase = "" /\ v.token = 0 /\ v.pods = {} /\ v.uid = u
<1>1. ASSUME NEW v \in Workload
      PROVE  v = [uid |-> v.uid, phase |-> v.phase, deadline |-> v.deadline,
                  holder |-> v.holder, token |-> v.token, pods |-> v.pods]
  BY Zenon DEF Workload
<1>2. ASSUME NEW v \in Workload
      PROVE  /\ v.uid \in Target \cup {None} /\ v.phase \in {"", "Active", "Stopping"} /\ v.deadline \in Int
             /\ v.holder \in Holder \cup {NoHolder} /\ v.token \in Nat /\ v.pods \in SUBSET Pod
  BY Zenon DEF Workload
<1>3. ASSUME NEW v \in Workload, NEW S \in SUBSET Pod
      PROVE  LET n == [v EXCEPT !.pods = S]
             IN /\ n \in Workload /\ n.phase = v.phase /\ n.holder = v.holder /\ n.token = v.token
                /\ n.deadline = v.deadline /\ n.pods = S
  <2> DEFINE n == [uid |-> v.uid, phase |-> v.phase, deadline |-> v.deadline,
                   holder |-> v.holder, token |-> v.token, pods |-> S]
  <2>1. [v EXCEPT !.pods = S] = n
    BY <1>1
  <2>2. n \in Workload
    BY <1>2, Zenon DEF Workload
  <2>3. n.uid = v.uid /\ n.phase = v.phase /\ n.deadline = v.deadline /\ n.holder = v.holder /\ n.token = v.token /\ n.pods = S
    BY Zenon
  <2> HIDE DEF n
  <2> QED BY <2>1, <2>2, <2>3, Zenon
<1>4. ASSUME NEW u \in Target \cup {None}
       PROVE  LET v == [NoWorkload EXCEPT !.uid = u]
              IN v \in Workload /\ v.phase = "" /\ v.token = 0 /\ v.pods = {} /\ v.uid = u
  <2>1. PICK v : v = NoWorkload
    OBVIOUS
  <2>2. v \in Workload
    BY <2>1, NothingRecorded, Zenon
  <2>3. v.phase = "" /\ v.token = 0 /\ v.pods = {}
    BY <2>1, Zenon DEF NoWorkload
  <2> DEFINE n == [uid |-> u, phase |-> v.phase, deadline |-> v.deadline,
                   holder |-> v.holder, token |-> v.token, pods |-> v.pods]
  <2>4. [v EXCEPT !.uid = u] = n
    <3>1. v = [uid |-> v.uid, phase |-> v.phase, deadline |-> v.deadline,
               holder |-> v.holder, token |-> v.token, pods |-> v.pods]
      BY <1>1, <2>2, Zenon
    <3> HIDE <2>1, <2>3
    <3> QED BY <2>2, <3>1
  <2>5. n \in Workload
    BY <1>2, <2>2, Zenon DEF Workload
  <2>6. n.uid = u /\ n.phase = v.phase /\ n.token = v.token /\ n.pods = v.pods
    BY Zenon
  <2> HIDE DEF n
  <2> QED BY <2>1, <2>3, <2>4, <2>5, <2>6, Zenon
<1> QED BY <1>3, <1>4, Zenon

\* The local variables after a step that only moves on.
LEMMA MovedIs ==
  ASSUME NEW v \in Local, NEW pc \in PC
  PROVE  LET u == [v EXCEPT !.pc = pc]
         IN /\ u \in Local /\ u.pc = pc /\ u.l = v.l /\ u.todo = v.todo /\ u.head = v.head
            /\ u.reply = v.reply /\ u.started = v.started
<1> DEFINE n == [pc |-> pc, l |-> v.l, started |-> v.started, reply |-> v.reply,
                 todo |-> v.todo, head |-> v.head, done |-> v.done]
<1>1. v = [pc |-> v.pc, l |-> v.l, started |-> v.started, reply |-> v.reply,
           todo |-> v.todo, head |-> v.head, done |-> v.done]
  BY DEF Local
<1>2. [v EXCEPT !.pc = pc] = n
  BY <1>1
<1>3. n \in Local
  BY Zenon DEF Local
<1>4. n.pc = pc /\ n.l = v.l /\ n.todo = v.todo /\ n.head = v.head /\ n.reply = v.reply /\ n.started = v.started
  BY Zenon
<1> HIDE DEF n
<1> QED BY <1>2, <1>3, <1>4, Zenon

\* The local variables of a reconciler that has just read or written the lease.
LEMMA AtIs ==
  ASSUME setup \in Setups, NEW l \in Berth, NEW pc \in PC
  PROVE  LET u == [Idle EXCEPT !.pc = pc, !.l = l]
         IN u \in Local /\ u.pc = pc /\ u.l = l /\ u.todo = {} /\ u.reply = NoReply
<1>1. PICK v : v = [Idle EXCEPT !.pc = pc]
  BY Zenon
<1>2. v \in Local /\ v.pc = pc /\ v.todo = {} /\ v.reply = NoReply
  BY <1>1, Nothing, MovedIs, Zenon DEF Idle
<1> DEFINE n == [pc |-> v.pc, l |-> l, started |-> v.started, reply |-> v.reply,
                 todo |-> v.todo, head |-> v.head, done |-> v.done]
<1>3. [v EXCEPT !.l = l] = n
  <2>1. v = [pc |-> v.pc, l |-> v.l, started |-> v.started, reply |-> v.reply,
             todo |-> v.todo, head |-> v.head, done |-> v.done]
    BY <1>2 DEF Local
  <2> QED BY <1>2, <2>1
<1>4. [Idle EXCEPT !.pc = pc, !.l = l] = [v EXCEPT !.l = l]
  BY <1>1
<1>5. n \in Local
  BY <1>2, Zenon DEF Local
<1>6. n.pc = v.pc /\ n.l = l /\ n.todo = v.todo /\ n.reply = v.reply
  BY Zenon
<1> HIDE DEF n
<1> QED BY <1>2, <1>3, <1>4, <1>5, <1>6, Zenon

\* What RInv says of one reconciler.
LEMMA CopyIs ==
  ASSUME RInv, NEW x \in Worker
  PROVE  /\ setup \in Setups /\ worker[x] \in Local /\ L(x) \in Berth /\ L(x).w \in Workload
         /\ Knows(x, worker[x]) /\ Sound(L(x)) /\ Fresh(L(x))
         /\ berth \in Berth /\ berth.rv \in Nat /\ L(x).rv \in Nat /\ L(x).rv <= berth.rv
         /\ target \in TargetObject /\ pods \in [Pod -> PodObject]
BY Zenon DEF RInv, ObjectTypes, Local, L, Copy, Knows, Fresh, Berth

\* The lease service's own state keeps its types.
LEMMA LeaseKept ==
  ASSUME LeaseTypes, setup \in Setups
  PROVE  /\ UNCHANGED <<leaseVars, clock>> => LeaseTypes'
         /\ \A h \in Holder : Grants(h) /\ clock' = clock =>
              /\ LeaseTypes' /\ token'[Lease] \in Nat /\ token'[Lease] > 0
              /\ expires'[Lease] = clock + TTL /\ clock + TTL \in Int
         /\ \A h, tok : Releases(h, tok) /\ clock' = clock => LeaseTypes'
         /\ Rival \/ Tick => LeaseTypes'
<1> USE OperatorAssumption
<1>1. TTL \in Nat /\ clock \in Int /\ Lease \in Key /\ clock + TTL \in Int /\ Key = {Lease}
  BY SetupTypes DEF LeaseTypes
<1>2. UNCHANGED <<leaseVars, clock>> => LeaseTypes'
  BY Zenon DEF LeaseTypes, leaseVars
<1>3. ASSUME NEW h \in Holder, Grants(h), clock' = clock
      PROVE  /\ LeaseTypes' /\ token'[Lease] \in Nat /\ token'[Lease] > 0
             /\ expires'[Lease] = clock + TTL
  BY <1>1, <1>3 DEF Grants, LeaseTypes, Extend, Claim, Redeadline
<1>4. ASSUME NEW h, NEW tok, Releases(h, tok), clock' = clock PROVE LeaseTypes'
  BY <1>1, <1>4 DEF Releases, LeaseTypes, Vacate, Redeadline, leaseVars
<1>5. ASSUME Rival PROVE LeaseTypes'
  <2>1. clock' = clock
    BY <1>5 DEF Rival
  <2>2. ASSUME NEW h \in Holder, expires' = [expires EXCEPT ![Lease] = clock + TTL], Claim(Lease, h)
        PROVE  LeaseTypes'
    BY <1>1, <2>1, <2>2 DEF LeaseTypes, Claim, Redeadline
  <2>3. ASSUME UNCHANGED expires, Vacate(Lease) PROVE LeaseTypes'
    BY <1>1, <2>1, <2>3 DEF LeaseTypes, Vacate, Redeadline
  <2> QED BY <1>5, <2>2, <2>3, Zenon DEF Rival
<1>6. ASSUME Tick PROVE LeaseTypes'
  BY <1>1, <1>6 DEF Tick, Advance, LeaseTypes, leaseVars
<1> QED BY <1>1, <1>2, <1>3, <1>4, <1>5, <1>6, Zenon

\* The request for the lease starts, and is answered.
LEMMA RequestIs ==
  ASSUME NEW v \in Local
  PROVE  /\ \A t \in Int : LET u == [v EXCEPT !.pc = "acquire", !.started = t]
                           IN /\ u \in Local /\ u.pc = "acquire" /\ u.started = t /\ u.l = v.l
                              /\ u.reply = v.reply /\ u.todo = v.todo
         /\ \A r \in Reply : LET u == [v EXCEPT !.reply = r]
                             IN /\ u \in Local /\ u.pc = v.pc /\ u.started = v.started /\ u.l = v.l
                                /\ u.reply = r /\ u.todo = v.todo /\ u.head = v.head
<1>1. v = [pc |-> v.pc, l |-> v.l, started |-> v.started, reply |-> v.reply,
           todo |-> v.todo, head |-> v.head, done |-> v.done]
  BY DEF Local
<1>2. ASSUME NEW t \in Int
      PROVE  LET u == [v EXCEPT !.pc = "acquire", !.started = t]
             IN /\ u \in Local /\ u.pc = "acquire" /\ u.started = t /\ u.l = v.l
                /\ u.reply = v.reply /\ u.todo = v.todo
  <2>1. PICK m : m = [v EXCEPT !.pc = "acquire"]
    BY Zenon
  <2>2. "acquire" \in PC
    BY DEF PC
  <2>3. m \in Local /\ m.pc = "acquire" /\ m.l = v.l /\ m.todo = v.todo /\ m.reply = v.reply
    BY <2>1, <2>2, MovedIs, Zenon
  <2> DEFINE n == [pc |-> m.pc, l |-> m.l, started |-> t, reply |-> m.reply,
                   todo |-> m.todo, head |-> m.head, done |-> m.done]
  <2>4. [m EXCEPT !.started = t] = n
    <3>1. m = [pc |-> m.pc, l |-> m.l, started |-> m.started, reply |-> m.reply,
               todo |-> m.todo, head |-> m.head, done |-> m.done]
      BY <2>3 DEF Local
    <3> QED BY <2>3, <3>1
  <2>5. [v EXCEPT !.pc = "acquire", !.started = t] = [m EXCEPT !.started = t]
    BY <2>1
  <2>6. n \in Local
    BY <2>3, Zenon DEF Local
  <2>7. n.pc = m.pc /\ n.l = m.l /\ n.todo = m.todo /\ n.reply = m.reply /\ n.started = t
    BY Zenon
  <2> HIDE DEF n
  <2> QED BY <2>3, <2>4, <2>5, <2>6, <2>7, Zenon
<1>3. ASSUME NEW r \in Reply
      PROVE  LET u == [v EXCEPT !.reply = r]
             IN /\ u \in Local /\ u.pc = v.pc /\ u.started = v.started /\ u.l = v.l
                /\ u.reply = r /\ u.todo = v.todo /\ u.head = v.head
  <2> DEFINE n == [pc |-> v.pc, l |-> v.l, started |-> v.started, reply |-> r,
                   todo |-> v.todo, head |-> v.head, done |-> v.done]
  <2>1. [v EXCEPT !.reply = r] = n
    BY <1>1
  <2>2. n \in Local
    BY Zenon DEF Local
  <2>3. n.pc = v.pc /\ n.l = v.l /\ n.todo = v.todo /\ n.reply = r /\ n.started = v.started /\ n.head = v.head
    BY Zenon
  <2> HIDE DEF n
  <2> QED BY <2>1, <2>2, <2>3, Zenon
<1> QED BY <1>2, <1>3, Zenon

\* Rounding to whole seconds never extends a deadline.
LEMMA DeadlineIs ==
  ASSUME setup \in Setups, NEW x \in Worker, worker[x] \in Local
  PROVE  Deadline(x) \in Int /\ Deadline(x) <= worker[x].started + TTL
<1>1. TTL \in Nat /\ Second \in Nat \ {0} /\ worker[x].started \in Int /\ worker[x].reply.expires \in Int
  BY SetupTypes, Zenon DEF Local, Reply
<1>2. \A a \in Int, s \in Nat \ {0} : (a \div s) * s \in Int /\ (a \div s) * s <= a
  OBVIOUS
<1> DEFINE a == worker[x].started + TTL
           c == IF a < worker[x].reply.expires THEN a ELSE worker[x].reply.expires
<1>3. a \in Int /\ c \in Int /\ c <= a
  BY <1>1
<1>4. Deadline(x) = (c \div Second) * Second
  BY Zenon DEF Deadline
<1> HIDE DEF a, c
<1>5. (c \div Second) * Second \in Int /\ (c \div Second) * Second <= c
  BY <1>1, <1>2, <1>3, Zenon
<1>6. Deadline(x) \in Int /\ Deadline(x) <= a
  BY <1>3, <1>4, <1>5
<1> QED BY <1>6, Zenon DEF a

\* Completed Pods are forgotten, and only they.
LEMMA PrunedIs ==
  ASSUME NEW S \in SUBSET Pod, \A p \in S : Known(p)
  PROVE  pruned(S) \in SUBSET Pod /\ pruned(S) \subseteq S /\ \A p \in S : Over(p) \/ p \in pruned(S)
<1>1. pruned(S) \subseteq S
  BY Zenon DEF pruned
<1>2. ASSUME NEW p \in S, ~Over(p) PROVE p \in pruned(S)
  BY <1>2 DEF pruned, Over, Known, Stored, Terminal
<1> QED BY <1>1, <1>2, Zenon

\* What a granted lease is recorded as: the heartbeat keeps every Pod that may
\* still execute.
LEMMA RenewedIs ==
  ASSUME RInv, NEW x \in Worker, At(x, "acquire"), worker[x].reply.res = "granted"
  PROVE  LET k == [L(x) EXCEPT !.w = Renewal(L(x).w, ident, worker[x].reply.token, Deadline(x),
                                             pruned(L(x).w.pods))]
         IN /\ k \in Berth /\ k.rv = L(x).rv /\ k.fin /\ k.exists /\ Sound(k)
            /\ k.w.phase = "Active" /\ k.w.holder = ident /\ k.w.token = worker[x].reply.token
            /\ k.w.deadline = Deadline(x) /\ k.w.pods = pruned(L(x).w.pods)
<1>1. /\ Knows(x, worker[x]) /\ worker[x] \in Local /\ setup \in Setups /\ L(x) \in Berth /\ Sound(L(x))
      /\ worker[x].pc = "acquire" /\ ident \in Identity /\ Identity \subseteq Holder
      /\ L(x).w \in Workload /\ L(x).w.pods \in SUBSET Pod
  BY CopyIs, SetupTypes, Zenon DEF At, RInv, ObjectTypes, Workload
<1>2. "acquire" \notin {"idle", "ungate"}
  OBVIOUS
<1>3. L(x).fin /\ L(x).exists
  BY <1>1, <1>2, Zenon DEF Knows, L
<1>4. PICK l, w, tok, d, S : l = L(x) /\ w = l.w /\ tok = worker[x].reply.token /\ d = Deadline(x) /\ S = pruned(w.pods)
  OBVIOUS
<1>5. tok \in Nat /\ tok > 0 /\ d \in Int
  BY <1>1, <1>4, DeadlineIs, Zenon DEF Knows, Local, Reply
<1>6. S \in SUBSET Pod /\ S \in SUBSET w.pods
  BY <1>1, <1>4, PrunedIs, Zenon DEF Sound
<1>7. PICK v : v = Renewal(w, ident, tok, d, S)
  OBVIOUS
<1>8. v \in Workload /\ v.phase = "Active" /\ v.holder = ident /\ v.token = tok /\ v.deadline = d /\ v.pods = S
  <2>1. ident \in Holder /\ w \in Workload
    BY <1>1, <1>4, Zenon
  <2> QED BY <1>5, <1>6, <1>7, <2>1, RenewalIs
<1>9. PICK k : k = [l EXCEPT !.w = v]
  BY Zenon
<1>10. k \in Berth /\ k.w = v /\ k.rv = l.rv /\ k.fin /\ k.exists
  <2>1. l \in Berth /\ l.fin /\ l.exists
    BY <1>1, <1>3, <1>4, Zenon
  <2>2. LET n == [l EXCEPT !.w = v] IN n \in Berth /\ n.w = v /\ n.rv = l.rv /\ n.fin = l.fin /\ n.exists = l.exists
    <3>1. l \in Berth /\ v \in Workload
      BY <1>8, <2>1, Zenon
    <3> QED BY <3>1, LeaseIs, Zenon
  <2> QED BY <1>9, <2>1, <2>2, Zenon
<1>11. Sound(k)
  <2>1. (w.pods # {} => Few(w.pods, MaxPermittedPods)) /\ w.pods \in SUBSET Pod /\ \A p \in S : Known(p)
    BY <1>1, <1>4, <1>6, Zenon DEF Sound
  <2>2. Counts /\ MaxPermittedPods \in Nat
    BY <1>1, SetupTypes, Zenon DEF RInv
  <2>3. S # {} => Few(S, MaxPermittedPods)
    BY <1>6, <2>1, <2>2, Zenon DEF Counts
  <2>4. "Active" # ""
    OBVIOUS
  <2> QED BY <1>1, <1>5, <1>8, <1>10, <2>1, <2>3, <2>4, Zenon DEF Sound
<1>12. k = [L(x) EXCEPT !.w = Renewal(L(x).w, ident, worker[x].reply.token, Deadline(x), pruned(L(x).w.pods))]
  BY <1>4, <1>7, <1>9, Zenon
<1>13. /\ k.rv = L(x).rv /\ k.w.phase = "Active" /\ k.w.holder = ident /\ k.w.token = worker[x].reply.token
       /\ k.w.deadline = Deadline(x) /\ k.w.pods = pruned(L(x).w.pods)
  BY <1>4, <1>8, <1>10, Zenon
<1> QED BY <1>10, <1>11, <1>12, <1>13, Zenon

-----------------------------------------------------------------------------
\* What permitPods still has to look at.
Pending == SUBSET [pod : Pod, st : PodStates]

\* Changes of single local variables.
LEMMA LocalIs ==
  ASSUME NEW v \in Local
  PROVE  /\ \A T \in Pending : LET u == [v EXCEPT !.todo = T]
              IN u \in Local /\ u.pc = v.pc /\ u.l = v.l /\ u.reply = v.reply /\ u.todo = T /\ u.head = v.head
         /\ \A h \in Pod \cup {None} : LET u == [v EXCEPT !.head = h]
              IN u \in Local /\ u.pc = v.pc /\ u.l = v.l /\ u.reply = v.reply /\ u.todo = v.todo /\ u.head = h
         /\ \A k \in Berth : LET u == [v EXCEPT !.l = k]
              IN u \in Local /\ u.pc = v.pc /\ u.l = k /\ u.reply = v.reply /\ u.todo = v.todo /\ u.head = v.head
         /\ \A b \in BOOLEAN : LET u == [v EXCEPT !.done = b]
              IN u \in Local /\ u.pc = v.pc /\ u.l = v.l /\ u.reply = v.reply /\ u.todo = v.todo /\ u.head = v.head
<1>1. v = [pc |-> v.pc, l |-> v.l, started |-> v.started, reply |-> v.reply,
           todo |-> v.todo, head |-> v.head, done |-> v.done]
  BY DEF Local
<1>2. ASSUME NEW T \in Pending
      PROVE  LET u == [v EXCEPT !.todo = T] IN u \in Local /\ u.pc = v.pc /\ u.l = v.l /\ u.reply = v.reply /\ u.todo = T /\ u.head = v.head
  <2> DEFINE u == [pc |-> v.pc, l |-> v.l, started |-> v.started, reply |-> v.reply,
                   todo |-> T, head |-> v.head, done |-> v.done]
  <2>1. [v EXCEPT !.todo = T] = u
    BY <1>1
  <2>2. u \in Local
    BY Zenon DEF Local, Pending
  <2>3. u.pc = v.pc /\ u.l = v.l /\ u.reply = v.reply /\ u.todo = T /\ u.head = v.head
    BY Zenon
  <2> HIDE DEF u
  <2> QED BY <2>1, <2>2, <2>3, Zenon
<1>3. ASSUME NEW h \in Pod \cup {None}
      PROVE  LET u == [v EXCEPT !.head = h] IN u \in Local /\ u.pc = v.pc /\ u.l = v.l /\ u.reply = v.reply /\ u.todo = v.todo /\ u.head = h
  <2> DEFINE u == [pc |-> v.pc, l |-> v.l, started |-> v.started, reply |-> v.reply,
                   todo |-> v.todo, head |-> h, done |-> v.done]
  <2>1. [v EXCEPT !.head = h] = u
    BY <1>1
  <2>2. u \in Local
    BY Zenon DEF Local
  <2>3. u.pc = v.pc /\ u.l = v.l /\ u.reply = v.reply /\ u.todo = v.todo /\ u.head = h
    BY Zenon
  <2> HIDE DEF u
  <2> QED BY <2>1, <2>2, <2>3, Zenon
<1>4. ASSUME NEW k \in Berth
      PROVE  LET u == [v EXCEPT !.l = k] IN u \in Local /\ u.pc = v.pc /\ u.l = k /\ u.reply = v.reply /\ u.todo = v.todo /\ u.head = v.head
  <2> DEFINE u == [pc |-> v.pc, l |-> k, started |-> v.started, reply |-> v.reply,
                   todo |-> v.todo, head |-> v.head, done |-> v.done]
  <2>1. [v EXCEPT !.l = k] = u
    BY <1>1
  <2>2. u \in Local
    BY Zenon DEF Local
  <2>3. u.pc = v.pc /\ u.l = k /\ u.reply = v.reply /\ u.todo = v.todo /\ u.head = v.head
    BY Zenon
  <2> HIDE DEF u
  <2> QED BY <2>1, <2>2, <2>3, Zenon
<1>5. ASSUME NEW b \in BOOLEAN
      PROVE  LET u == [v EXCEPT !.done = b] IN u \in Local /\ u.pc = v.pc /\ u.l = v.l /\ u.reply = v.reply /\ u.todo = v.todo /\ u.head = v.head
  <2> DEFINE u == [pc |-> v.pc, l |-> v.l, started |-> v.started, reply |-> v.reply,
                   todo |-> v.todo, head |-> v.head, done |-> b]
  <2>1. [v EXCEPT !.done = b] = u
    BY <1>1
  <2>2. u \in Local
    BY Zenon DEF Local
  <2>3. u.pc = v.pc /\ u.l = v.l /\ u.reply = v.reply /\ u.todo = v.todo /\ u.head = v.head
    BY Zenon
  <2> HIDE DEF u
  <2> QED BY <2>1, <2>2, <2>3, Zenon
<1> QED BY <1>2, <1>3, <1>4, <1>5, Zenon

\* The loop of permitPods goes on with what was listed.
LEMMA PermittingIs ==
  ASSUME RInv, NEW x \in Worker, NEW T \in Pending, T # {} => L(x).fin /\ L(x).exists,
         \A s \in T : Known(s.pod)
  PROVE  LET u == Permitting(x, T)
         IN u \in Local /\ (u = Idle \/ u.l = L(x)) /\ Knows(x, u) /\ u.pc \in {"idle", "permit"}
<1>1. PICK u : u = Permitting(x, T)
  OBVIOUS
<1>2. worker[x] \in Local /\ Knows(x, worker[x]) /\ Idle \in Local /\ Knows(x, Idle) /\ Sound(L(x))
      /\ Idle.pc = "idle"
  BY CopyIs, Nothing, Zenon DEF Idle
<1>3. CASE T = {}
  BY <1>1, <1>2, <1>3, Zenon DEF Permitting
<1>4. CASE T # {}
  <2>1. PICK a, b : a = [worker[x] EXCEPT !.pc = "permit"] /\ b = [a EXCEPT !.todo = T]
    BY Zenon
  <2>2. u = [b EXCEPT !.head = None]
    <3>1. u = [worker[x] EXCEPT !.pc = "permit", !.todo = T, !.head = None]
      BY <1>1, <1>4, Zenon DEF Permitting
    <3> QED BY <2>1, <3>1
  <2>3. "permit" \in PC /\ None \in Pod \cup {None} /\ "permit" \notin {"verify", "acquire"} /\ "permit" # "stop"
        /\ "permit" \notin DrainPC /\ "permit" \notin {"release", "clear"} /\ "permit" # "ungate"
        /\ "permit" \in {"idle", "permit", "ungate"} /\ "permit" # "verify"
    BY DEF PC, DrainPC
  <2>4. a \in Local /\ a.pc = "permit" /\ a.l = L(x) /\ a.reply = worker[x].reply
    BY <1>2, <2>1, <2>3, MovedIs, Zenon DEF L
  <2>5. b \in Local /\ b.pc = a.pc /\ b.l = a.l /\ b.reply = a.reply /\ b.todo = T
    BY <2>1, <2>4, LocalIs, Zenon
  <2>6. u \in Local /\ u.pc = b.pc /\ u.l = b.l /\ u.reply = b.reply /\ u.todo = b.todo
    BY <2>2, <2>3, <2>5, LocalIs, Zenon
  <2>7. u.pc = "permit" /\ u.l = L(x) /\ u.reply = worker[x].reply /\ u.todo = T
    BY <2>4, <2>5, <2>6, Zenon
  <2>8. Knows(x, u)
    BY <1>2, <1>4, <2>3, <2>7, Zenon DEF Knows
  <2> QED BY <1>1, <2>6, <2>7, <2>8, Zenon
<1> QED BY <1>3, <1>4, Zenon

\* The Pod s of the list is ungated next.
LEMMA UngatingIs ==
  ASSUME RInv, NEW x \in Worker, NEW s \in worker[x].todo, NEW l \in Berth, Sound(l), l.fin, l.exists
  PROVE  LET u == Ungating(x, s, l)
         IN u \in Local /\ u.l \in {NoBerth, l} /\ Knows(x, u) /\ u.pc = "ungate"
<1>1. PICK u : u = Ungating(x, s, l)
  OBVIOUS
<1>2. /\ worker[x] \in Local /\ Knows(x, worker[x]) /\ Idle \in Local /\ NoBerth \in Berth /\ Idle.l = NoBerth
      /\ Sound(NoBerth) /\ worker[x].todo \in Pending /\ s.pod \in Pod
  BY CopyIs, Nothing, Zenon DEF Local, Pending
<1>3. Idle.reply = NoReply /\ NoReply.res # "granted"
  BY DEF Idle, NoReply
<1>4. PICK rest : rest = worker[x].todo \ {s}
  BY Zenon
<1>5. rest \in Pending /\ \A r \in rest : Known(r.pod)
  BY <1>2, <1>4, Zenon DEF Pending, Knows
<1>6. PICK k : k = IF rest = {} THEN NoBerth ELSE l
  OBVIOUS
<1>7. k \in Berth /\ Sound(k) /\ (rest # {} => k = l) /\ k \in {NoBerth, l}
  BY <1>2, <1>6, Zenon
<1>8. PICK a, b, c : /\ a = [Idle EXCEPT !.pc = "ungate"] /\ b = [a EXCEPT !.l = k]
                     /\ c = [b EXCEPT !.todo = rest] /\ u = [c EXCEPT !.head = s.pod]
  <2>1. u = [Idle EXCEPT !.pc = "ungate", !.l = IF rest = {} THEN @ ELSE l, !.todo = rest, !.head = s.pod]
    BY <1>1, <1>4, Zenon DEF Ungating
  <2>2. [Idle EXCEPT !.pc = "ungate"].l = NoBerth
    BY <1>2
  <2>3. u = [Idle EXCEPT !.pc = "ungate", !.l = k, !.todo = rest, !.head = s.pod]
    BY <1>2, <1>6, <2>1, <2>2
  <2> QED BY <2>3, Zenon
<1>9. "ungate" \in PC /\ "ungate" \notin {"verify", "acquire"} /\ "ungate" # "stop"
      /\ "ungate" \notin DrainPC /\ "ungate" \notin {"release", "clear"} /\ "ungate" \in {"idle", "ungate"}
      /\ "ungate" \in {"idle", "permit", "ungate"} /\ "ungate" # "verify"
  BY <1>2 DEF PC, DrainPC
<1>10. a \in Local /\ a.pc = "ungate" /\ a.reply = NoReply
  BY <1>2, <1>3, <1>8, <1>9, MovedIs, Zenon
<1>11. b \in Local /\ b.pc = a.pc /\ b.l = k /\ b.reply = a.reply
  BY <1>7, <1>8, <1>10, LocalIs, Zenon
<1>12. c \in Local /\ c.pc = b.pc /\ c.l = b.l /\ c.reply = b.reply /\ c.todo = rest
  BY <1>5, <1>8, <1>11, LocalIs, ZenonT(60)
<1>13. u \in Local /\ u.pc = c.pc /\ u.l = c.l /\ u.reply = c.reply /\ u.todo = c.todo /\ u.head = s.pod
  <2>1. s.pod \in Pod \cup {None}
    BY <1>2, Zenon
  <2>2. PICK h : h = s.pod
    OBVIOUS
  <2>3. u = [c EXCEPT !.head = h] /\ h \in Pod \cup {None}
    BY <1>8, <2>1, <2>2, Zenon
  <2>4. u \in Local /\ u.pc = c.pc /\ u.l = c.l /\ u.reply = c.reply /\ u.todo = c.todo /\ u.head = h
    BY <1>12, <2>3, LocalIs, Zenon
  <2> QED BY <2>2, <2>4, Zenon
<1>14. u.pc = "ungate" /\ u.l = k /\ u.reply = NoReply /\ u.todo = rest
  BY <1>10, <1>11, <1>12, <1>13, Zenon
<1>15. Knows(x, u)
  BY <1>2, <1>3, <1>5, <1>7, <1>13, <1>14, <1>9, Zenon DEF Knows
<1> QED BY <1>1, <1>7, <1>13, <1>14, <1>15, Zenon

\* A deletion moves Pods onward.
LEMMA DeletedIs ==
  ASSUME pods \in [Pod -> PodObject], NEW S, pods' = Deleted(S)
  PROVE  pods' \in [Pod -> PodObject] /\ Onward /\ \A p \in Pod : Runnable(p)' => Runnable(p)
<1>1. ASSUME NEW p \in Pod
      PROVE  /\ pods'[p] \in PodObject
             /\ pods'[p].st = IF p \notin S \/ pods[p].st \in {"none", "creating", "gone"} THEN pods[p].st
                              ELSE IF pods[p].st \in {"bound", "leaving"} THEN "leaving" ELSE "gone"
  <2>1. PICK q, t : /\ q = pods[p]
                    /\ t = IF p \notin S \/ q.st \in {"none", "creating", "gone"} THEN q.st
                           ELSE IF q.st \in {"bound", "leaving"} THEN "leaving" ELSE "gone"
    OBVIOUS
  <2>2. q \in PodObject /\ q.st \in PodStates
    BY <2>1, Zenon DEF PodObject
  <2>3. t \in PodStates
    BY <2>1, <2>2 DEF PodStates
  <2>4. pods'[p] = [q EXCEPT !.st = t]
    BY <2>1, Zenon DEF Deleted
  <2>5. [q EXCEPT !.st = t] \in PodObject /\ [q EXCEPT !.st = t].st = t
    BY <2>2, <2>3 DEF PodObject
  <2> QED BY <2>1, <2>4, <2>5, Zenon
<1>2. pods' \in [Pod -> PodObject]
  BY <1>1, Zenon DEF Deleted
<1>3. Onward
  BY <1>1 DEF Onward, Over, Known
<1>4. ASSUME NEW p \in Pod, Runnable(p)' PROVE Runnable(p)
  BY <1>1, <1>4 DEF Runnable
<1> QED BY <1>2, <1>3, <1>4, Zenon

\* So does a step of a single Pod.
LEMMA MovedOnward ==
  ASSUME pods \in [Pod -> PodObject], NEW p \in Pod, NEW to \in PodStates,
         pods' = [pods EXCEPT ![p].st = to],
         pods[p].st \notin {"done", "gone"}, Known(p) => to \notin {"none", "creating"}
  PROVE  /\ pods' \in [Pod -> PodObject] /\ Onward
         /\ \A q \in Pod : q # p => (Runnable(q)' => Runnable(q))
         /\ to \notin {"open", "bound", "leaving"} => ~Runnable(p)'
<1>1. /\ pods'[p].st = to /\ pods' \in [Pod -> PodObject]
      /\ \A q \in Pod : q # p => pods'[q] = pods[q]
  BY DEF PodObject
<1>2. Onward
  BY <1>1 DEF Onward, Over, Known
<1>3. \A q \in Pod : q # p => (Runnable(q)' => Runnable(q))
  BY <1>1, Zenon DEF Runnable
<1>4. to \notin {"open", "bound", "leaving"} => ~Runnable(p)'
  BY <1>1, Zenon DEF Runnable
<1> QED BY <1>1, <1>2, <1>3, <1>4, Zenon

\* The status with another set of registered Pods.
Registering(l, S) == [l EXCEPT !.w = [l.w EXCEPT !.pods = S]]

\* Another set of registered Pods changes nothing else of the status.
LEMMA RegisteringIs ==
  ASSUME NEW l \in Berth, NEW S \in SUBSET Pod
  PROVE  LET k == Registering(l, S)
         IN /\ k \in Berth /\ k.rv = l.rv /\ k.fin = l.fin /\ k.exists = l.exists
            /\ k.w.phase = l.w.phase /\ k.w.holder = l.w.holder /\ k.w.token = l.w.token
            /\ k.w.deadline = l.w.deadline /\ k.w.pods = S
<1>1. l.w \in Workload
  BY Zenon DEF Berth
<1>2. ASSUME NEW w \in Workload
      PROVE  LET n == [w EXCEPT !.pods = S]
             IN /\ n \in Workload /\ n.phase = w.phase /\ n.holder = w.holder /\ n.token = w.token
                /\ n.deadline = w.deadline /\ n.pods = S
  BY WorkloadIs, Zenon
<1>3. PICK v : v = [l.w EXCEPT !.pods = S]
  BY Zenon
<1>4. /\ v \in Workload /\ v.phase = l.w.phase /\ v.holder = l.w.holder /\ v.token = l.w.token
      /\ v.deadline = l.w.deadline /\ v.pods = S
  BY <1>1, <1>2, <1>3, Zenon
<1>5. LET k == [l EXCEPT !.w = v]
      IN k \in Berth /\ k.w = v /\ k.rv = l.rv /\ k.fin = l.fin /\ k.exists = l.exists
  BY <1>4, LeaseIs, Zenon
<1>6. Registering(l, S) = [l EXCEPT !.w = v]
  BY <1>3, Zenon DEF Registering
<1>7. PICK k : k = [l EXCEPT !.w = v]
  BY Zenon
<1>8. k \in Berth /\ k.w = v /\ k.rv = l.rv /\ k.fin = l.fin /\ k.exists = l.exists /\ Registering(l, S) = k
  BY <1>5, <1>6, <1>7, Zenon
<1> QED BY <1>4, <1>8, Zenon

\* The status that registers one more Pod.
LEMMA RegistrationIs ==
  ASSUME NEW l \in Berth, NEW p \in Pod, setup \in Setups, Sound(l), Known(p), l.fin, l.exists,
         l.w.phase = "Active", Counts, ~(Cardinality(l.w.pods) >= MaxPermittedPods)
  PROVE  LET k == [l EXCEPT !.w.pods = @ \cup {p}]
         IN /\ k \in Berth /\ k.rv = l.rv /\ k.fin /\ k.exists /\ k.w.pods = l.w.pods \cup {p}
            /\ k.w.phase = "Active" /\ k.w.holder = l.w.holder /\ k.w.token = l.w.token
            /\ k.w.deadline = l.w.deadline /\ Sound(k)
<1>1. l.w.pods \in SUBSET Pod /\ l.w.pods \cup {p} \in SUBSET Pod
  BY Zenon DEF Berth, Workload
<1>2. PICK S, k : S = l.w.pods \cup {p} /\ k = Registering(l, S)
  BY Zenon
<1>3. [l EXCEPT !.w.pods = @ \cup {p}] = k
  BY <1>2 DEF Registering
<1>4. /\ k \in Berth /\ k.rv = l.rv /\ k.fin = l.fin /\ k.exists = l.exists
      /\ k.w.phase = l.w.phase /\ k.w.holder = l.w.holder /\ k.w.token = l.w.token
      /\ k.w.deadline = l.w.deadline /\ k.w.pods = S
  <2>1. S \in SUBSET Pod
    BY <1>1, <1>2, Zenon
  <2>2. LET n == Registering(l, S)
        IN /\ n \in Berth /\ n.rv = l.rv /\ n.fin = l.fin /\ n.exists = l.exists
           /\ n.w.phase = l.w.phase /\ n.w.holder = l.w.holder /\ n.w.token = l.w.token
           /\ n.w.deadline = l.w.deadline /\ n.w.pods = S
    BY <2>1, RegisteringIs, Zenon
  <2> QED BY <1>2, <2>2, Zenon
<1>5. k.fin /\ k.exists
  BY <1>4, Zenon
<1>6. Few(S, MaxPermittedPods)
  <2>1. MaxPermittedPods \in Nat
    BY SetupTypes, Zenon
  <2>2. Few(l.w.pods, MaxPermittedPods)
    BY <2>1, Zenon DEF Sound, Counts
  <2> QED BY <1>1, <1>2, <2>1, <2>2, Zenon DEF Counts
<1>7. "Active" # ""
  OBVIOUS
<1>8. \A q \in S : Known(q)
  BY <1>2, Zenon DEF Sound
<1>9. Sound(k)
  BY <1>4, <1>5, <1>6, <1>7, <1>8, Zenon DEF Sound
<1> QED BY <1>2, <1>3, <1>4, <1>5, <1>9, Zenon

-----------------------------------------------------------------------------
-----------------------------------------------------------------------------
\* Every step keeps the registrations.
LEMMA RNext ==
  RInv /\ [Next]_vars => RInv'
\* What a version says, and what a reconciler knows, stays true.
<1>Lasting. ASSUME setup' = setup, Onward
            PROVE  /\ \A l \in Berth : Sound(l) => Sound(l)'
                   /\ \A x, v : v \in Local /\ Knows(x, v) => Knows(x, v)'
  <2> USE <1>Lasting
  <2>1. ASSUME NEW l \in Berth, Sound(l) PROVE Sound(l)'
    <3>1. Identity' = Identity /\ MaxPermittedPods' = MaxPermittedPods
      BY Zenon DEF Identity, MaxPermittedPods
    <3>2. l.w.pods \subseteq Pod
      BY Zenon DEF Berth, Workload
    <3> QED BY <2>1, <3>1, <3>2, Zenon DEF Sound, Onward
  <2>2. ASSUME NEW x, NEW v, v \in Local, Knows(x, v) PROVE Knows(x, v)'
    <3>1. v.l \in Berth /\ v.l.w.pods \subseteq Pod /\ \A s \in v.todo : s.pod \in Pod
      BY <2>2, Zenon DEF Local, Berth, Workload
    <3> QED BY <2>1, <2>2, <3>1, Zenon DEF Knows, Onward
  <2> QED BY <2>1, <2>2, Zenon
\* A step keeps the invariant if Pods move onward, the BerthLease is replaced
\* by a sound later version that forgets no Pod, and what is new among copies
\* and writes is right.
<1>Glue. ASSUME RInv, LeaseTypes', ObjectTypes', setup' = setup, Onward,
                \A p \in Pod : Runnable(p)' => Runnable(p) \/ Registered(p)',
                \/ berth' = berth
                \/ /\ berth.rv < berth'.rv /\ Sound(berth)'
                   /\ \A p \in Pod : Registered(p) => Over(p)' \/ Registered(p)',
                \A x \in Worker : worker'[x] = worker[x] \/ Copy(x)',
                \A m \in late' : \/ m \in late
                                 \/ (m.kind = "lease" => Write(m.l)') /\ (m.kind = "ungate" => Ungates(m)')
         PROVE  RInv'
  <2> USE <1>Glue
  <2>1. ObjectTypes /\ berth \in Berth /\ berth' \in Berth
    BY Zenon DEF RInv, ObjectTypes
  <2>2. \A l \in Berth : l.rv \in Nat
    BY Zenon DEF Berth
  <2>3. berth' = berth => \A p : Registered(p)' = Registered(p)
    BY Zenon DEF Registered
  <2>4. Sound(berth)'
    BY <2>1, <1>Lasting, Zenon DEF RInv
  <2>5. \A p \in Pod : Registered(p) => Over(p)' \/ Registered(p)'
    BY <2>3, Zenon
  <2>6. ASSUME NEW p \in Pod, Runnable(p)' PROVE Registered(p)'
    <3>1. ~Over(p)'
      BY <2>6 DEF Runnable, Over
    <3> QED BY <2>5, <2>6, <3>1, Zenon DEF RInv
  <2>7. ASSUME NEW l \in Berth, l.rv <= berth.rv, berth' # berth PROVE l.rv <= berth'.rv /\ l.rv # berth'.rv
    BY <2>1, <2>2, <2>7
  <2>8. ASSUME NEW x \in Worker PROVE Copy(x)'
    <3>1. CASE worker'[x] = worker[x]
      <4>1. worker[x] \in Local /\ worker[x].l \in Berth /\ Knows(x, worker[x]) /\ Fresh(worker[x].l)
        BY <2>1, Zenon DEF RInv, ObjectTypes, Copy, Local
      <4>2. Knows(x, worker[x])'
        <5> DEFINE v == worker[x]
        <5>1. v \in Local /\ Knows(x, v) /\ v = worker'[x]
          BY <3>1, <4>1, Zenon
        <5> QED BY <5>1, <1>Lasting, Zenon DEF Knows
      <4>3. Fresh(worker[x].l)'
        <5>1. CASE berth' = berth
          BY <3>1, <4>1, <5>1, Zenon DEF Fresh
        <5>2. CASE berth' # berth
          BY <2>7, <3>1, <4>1, <5>2, Zenon DEF Fresh
        <5> QED BY <5>1, <5>2, Zenon
      <4> QED BY <4>2, <4>3, Zenon DEF Copy
    <3> QED BY <3>1, Zenon
  <2>9. ASSUME NEW m \in late' PROVE (m.kind = "lease" => Write(m.l)') /\ (m.kind = "ungate" => Ungates(m)')
    <3> SUFFICES ASSUME m \in late
                 PROVE  (m.kind = "lease" => Write(m.l)') /\ (m.kind = "ungate" => Ungates(m)')
      BY Zenon
    <3>1. ASSUME m.kind = "lease" PROVE Write(m.l)'
      <4>1. m.l \in Berth /\ Write(m.l)
        BY <2>1, <3>1, Zenon DEF RInv, ObjectTypes, LeaseWrite, TargetWrite, UngateWrite, CreateWrite
      <4>2. Sound(m.l)'
        BY <4>1, <1>Lasting, Zenon DEF Write
      <4>3. CASE berth' = berth
        <5>1. Follows(m.l) => Follows(m.l)'
          <6>1. berth.w.pods \subseteq Pod
            BY <2>1, Zenon DEF Berth, Workload
          <6> QED BY <4>3, <6>1, Zenon DEF Follows, Onward, Cleared
        <5> QED BY <4>1, <4>2, <4>3, <5>1, Zenon DEF Write, Current
      <4>4. CASE berth' # berth
        BY <2>7, <4>1, <4>2, <4>4, Zenon DEF Write, Current
      <4> QED BY <4>3, <4>4, Zenon
    <3>2. ASSUME m.kind = "ungate" PROVE Ungates(m)'
      <4>1. m.pod \in Pod /\ Ungates(m)
        BY <2>1, <3>2, Zenon DEF RInv, ObjectTypes, LeaseWrite, TargetWrite, UngateWrite, CreateWrite
      <4> QED BY <2>5, <4>1, Zenon DEF Ungates, Onward
    <3> QED BY <3>1, <3>2, Zenon
  <2> QED BY <2>4, <2>6, <2>8, <2>9, Zenon DEF RInv
\* A step of a reconciler that moves Pods onward and opens no other one than
\* those registered.
<1>PodsStep. ASSUME RInv, LeaseTypes', setup' = setup, berth' = berth,
                    pods' \in [Pod -> PodObject], Onward, \A p \in Pod : Runnable(p)' => Runnable(p) \/ Registered(p),
                    target' \in TargetObject, orphans' \in SUBSET Orphan, ident' = ident,
                    NEW x \in Worker, NEW v \in Local, worker' = [worker EXCEPT ![x] = v],
                    Knows(x, v), v.l = NoBerth \/ Fresh(v.l), late' \subseteq late \cup Harmless
             PROVE  RInv'
  <2> USE <1>PodsStep
  <2>1. ObjectTypes /\ Identity' = Identity
    BY Zenon DEF RInv, Identity
  <2>2. worker' \in [Worker -> Local] /\ worker'[x] = v /\ \A y \in Worker : y # x => worker'[y] = worker[y]
    BY <2>1, Zenon DEF ObjectTypes
  <2>3. ObjectTypes'
    BY <2>1, <2>2, Zenon DEF ObjectTypes, Harmless
  <2>4. Onward /\ \A p : (Registered(p)' = Registered(p))
    BY Zenon DEF Registered
  <2>5. Copy(x)'
    <3>1. Knows(x, v)'
      BY <2>4, <1>Lasting, Zenon
    <3>2. Fresh(v.l)'
      <4>1. CASE Fresh(v.l)
        BY <4>1, Zenon DEF Fresh
      <4>2. CASE v.l = NoBerth
        <5>1. berth.rv \in Nat /\ berth.rv > 0 /\ NoBerth.rv = 0
          BY <2>1, Nothing, Zenon DEF ObjectTypes, Berth
        <5>2. NoBerth.rv <= berth.rv /\ NoBerth.rv # berth.rv
          BY <5>1
        <5> QED BY <4>2, <5>2, Zenon DEF Fresh
      <4> QED BY <4>1, <4>2, Zenon
    <3> QED BY <2>2, <3>1, <3>2, Zenon DEF Copy, Knows, Fresh
  <2>6. ASSUME NEW m \in late', m \notin late
        PROVE  (m.kind = "lease" => Write(m.l)') /\ (m.kind = "ungate" => Ungates(m)')
    <3>1. m \in Harmless
      BY <2>6, Zenon
    <3>2. m.kind # "lease" /\ (m.kind = "ungate" => ~m.admitted)
      BY <3>1 DEF Harmless, TargetWrite, UngateWrite
    <3> QED BY <3>2, Zenon DEF Ungates
  <2> QED BY <2>2, <2>3, <2>4, <2>5, <2>6, <1>Glue, Zenon
\* A step of a reconciler that writes neither the BerthLease nor a Pod.
<1>LocalStep. ASSUME RInv, LeaseTypes', setup' = setup, berth' = berth, pods' = pods,
                     target' \in TargetObject, orphans' \in SUBSET Orphan, ident' = ident,
                     NEW x \in Worker, NEW v \in Local, worker' = [worker EXCEPT ![x] = v],
                     Knows(x, v), v.l = NoBerth \/ Fresh(v.l), late' \subseteq late \cup Harmless
              PROVE  RInv'
  <2> USE <1>LocalStep
  <2>1. pods' \in [Pod -> PodObject] /\ Onward /\ \A p \in Pod : Runnable(p)' => Runnable(p)
    BY Zenon DEF Onward, Over, Known, Runnable, RInv, ObjectTypes
  <2> QED BY <2>1, <1>PodsStep, Zenon
\* A reconciler's write of the BerthLease: accepted, refused or delayed.
<1>SaveStep. ASSUME RInv, Others, NEW x \in Worker, NEW l \in Berth, NEW rec \in Local, Save(x, l, rec),
                    l.rv <= berth.rv, l.fin, Sound(l), Current(l) => Follows(l),
                    Knows(x, rec), rec.l \in {NoBerth, Written(l)}
             PROVE  RInv'
  <2> USE <1>SaveStep
  <2>1. ObjectTypes /\ LeaseTypes /\ setup' = setup /\ Identity' = Identity /\ berth \in Berth
    BY Zenon DEF RInv, Others, service, Identity, ObjectTypes
  <2>2. LeaseTypes' /\ orphans' = orphans /\ ident' = ident
    BY <2>1, Zenon DEF Others, service, leaseVars, LeaseTypes
  <2>3. Idle \in Local /\ Knows(x, Idle) /\ Idle.l = NoBerth /\ NoBerth.rv = 0
    BY <2>1, Nothing, Zenon DEF ObjectTypes
  <2>4. CASE Accepts(l) /\ berth' = Written(l) /\ Goto(x, rec) /\ UNCHANGED <<target, pods, jobs, late, faults>>
    <3>1. /\ Written(l) \in Berth /\ Written(l).w = l.w /\ Written(l).exists = l.exists
          /\ Sound(Written(l)) /\ (l # berth => Written(l).rv = l.rv + 1) /\ (l = berth => Written(l) = l)
      BY <2>1, WrittenIs, Zenon
    <3>2. berth.exists /\ l.rv = berth.rv /\ berth.rv \in Nat /\ berth.rv > 0
      BY <2>1, <2>4, Zenon DEF Accepts, ObjectTypes, Berth
    <3>3. berth' \in Berth /\ berth'.rv > 0 /\ (berth' = berth \/ berth.rv < berth'.rv)
      BY <2>4, <3>1, <3>2
    <3>4. worker' \in [Worker -> Local] /\ worker'[x] = rec /\ \A y \in Worker : y # x => worker'[y] = worker[y]
      BY <2>1, <2>4, Zenon DEF ObjectTypes, Goto
    <3>5. ObjectTypes'
      BY <2>1, <2>2, <2>4, <3>3, <3>4, Zenon DEF ObjectTypes
    <3>6. Onward /\ \A p : Runnable(p)' = Runnable(p)
      BY <2>4, Zenon DEF Onward, Over, Known, Runnable
    <3>7. Sound(berth)'
      <4>1. PICK b \in Berth : b = Written(l)
        BY <3>1, Zenon
      <4>2. Sound(b)' /\ berth' = b
        BY <2>1, <2>4, <3>1, <3>6, <4>1, <1>Lasting, Zenon
      <4> QED BY <4>2, Zenon DEF Sound
    <3>8. \A p \in Pod : Registered(p) => Over(p)' \/ Registered(p)'
      <4>1. \A p \in berth.w.pods : Over(p) \/ (l.exists /\ p \in l.w.pods)
        BY <3>2, Zenon DEF Current, Follows
      <4> QED BY <2>4, <3>1, <3>6, <4>1, Zenon DEF Registered, Onward
    <3>9. Copy(x)'
      <4>1. Knows(x, rec)'
        BY <2>1, <3>6, <1>Lasting, Zenon
      <4>2. Fresh(rec.l)'
        <5>1. berth'.rv \in Nat
          BY <3>3, Zenon DEF Berth
        <5>2. NoBerth.rv <= berth'.rv /\ NoBerth.rv # berth'.rv /\ berth'.rv <= berth'.rv
          BY <2>3, <3>3, <5>1
        <5> QED BY <2>4, <5>2, Zenon DEF Fresh
      <4> QED BY <3>4, <4>1, <4>2, Zenon DEF Copy, Knows, Fresh
    <3> QED BY <2>1, <2>2, <2>4, <3>3, <3>4, <3>5, <3>6, <3>7, <3>8, <3>9, <1>Glue, Zenon
  <2>5. CASE Return(x) /\ UNCHANGED <<objects, late, faults>>
    <3>1. berth' = berth /\ pods' = pods /\ target' \in TargetObject /\ late' = late
          /\ worker' = [worker EXCEPT ![x] = Idle]
      BY <2>1, <2>5, Zenon DEF objects, Return, Goto, ObjectTypes
    <3> QED BY <2>1, <2>2, <2>3, <3>1, <1>LocalStep, Zenon DEF ObjectTypes
  <2>6. CASE Delay(x, [kind |-> "lease", l |-> l])
    <3> DEFINE m == [kind |-> "lease", l |-> l]
    <3>1. berth' = berth /\ pods' = pods /\ target' = target /\ late' = late \cup {m}
          /\ worker' = [worker EXCEPT ![x] = Idle]
      BY <2>6, Zenon DEF objects, Return, Goto, Delay
    <3>2. m \in LeaseWrite /\ m.l = l /\ m.kind = "lease"
      BY DEF LeaseWrite
    <3> HIDE DEF m
    <3>3. worker' \in [Worker -> Local] /\ worker'[x] = Idle /\ \A y \in Worker : y # x => worker'[y] = worker[y]
      BY <2>1, <2>3, <3>1, Zenon DEF ObjectTypes
    <3>4. ObjectTypes'
      BY <2>1, <2>2, <3>1, <3>2, <3>3, Zenon DEF ObjectTypes
    <3>5. Onward /\ \A p : Runnable(p)' = Runnable(p) /\ Registered(p)' = Registered(p)
      BY <3>1, Zenon DEF Onward, Over, Known, Runnable, Registered
    <3>6. Copy(x)'
      <4>1. Knows(x, Idle)'
        BY <2>1, <2>3, <3>5, <1>Lasting, Zenon
      <4>2. berth.rv \in Nat /\ berth.rv > 0
        BY <2>1, Zenon DEF ObjectTypes, Berth
      <4>3. NoBerth.rv <= berth.rv /\ NoBerth.rv # berth.rv
        BY <2>3, <4>2
      <4> QED BY <2>3, <3>1, <3>3, <4>1, <4>3, Zenon DEF Copy, Knows, Fresh
    <3>7. Write(m.l)'
      <4>1. Sound(l)'
        BY <2>1, <3>5, <1>Lasting, Zenon
      <4> QED BY <3>1, <3>2, <4>1, Zenon DEF Write, Current, Follows, Over, Cleared
    <3>8. ASSUME NEW n \in late', n \notin late
          PROVE  (n.kind = "lease" => Write(n.l)') /\ (n.kind = "ungate" => Ungates(n)')
      BY <3>1, <3>2, <3>7, <3>8
    <3> QED BY <2>1, <2>2, <3>1, <3>3, <3>4, <3>5, <3>6, <3>8, <1>Glue, Zenon
  <2> QED BY <2>4, <2>5, <2>6, Zenon DEF Save
\* A reconciler that reads the lease, or gets it back from a write, knows it.
<1>KnowsAt. ASSUME setup \in Setups, NEW x, NEW l \in Berth, NEW pc \in PC, x # "pods", Sound(l), l.fin, l.exists,
                   pc \notin {"permit", "ungate", "release", "clear"},
                   pc \in {"verify", "acquire"} => l.w.phase # "Stopping",
                   pc = "stop" => l.w.phase = "Active",
                   pc \in DrainPC => l.w.phase = "Stopping"
            PROVE  Knows(x, [Idle EXCEPT !.pc = pc, !.l = l])
  <2> USE <1>KnowsAt
  <2>1. PICK u : u = [Idle EXCEPT !.pc = pc, !.l = l]
    OBVIOUS
  <2>2. u.pc = pc /\ u.l = l /\ u.todo = {} /\ u.reply = NoReply
    BY <2>1, AtIs, Zenon
  <2>3. NoReply.res # "granted"
    BY DEF NoReply
  <2>4. pc \notin {"release", "clear"} /\ pc # "ungate"
    OBVIOUS
  <2>5. Knows(x, u)
    BY <2>2, <2>3, <2>4, Zenon DEF Knows
  <2> QED BY <2>1, <2>5, Zenon
\* A step of a reconciler that keeps its copy of the lease, or drops it.
<1>KeepStep. ASSUME RInv, LeaseTypes', setup' = setup, berth' = berth, pods' = pods,
                    target' \in TargetObject, orphans' \in SUBSET Orphan, ident' = ident,
                    NEW x \in Worker, NEW v \in Local, Goto(x, v), v = Idle \/ v.l = L(x),
                    Knows(x, v), late' \subseteq late \cup Harmless
             PROVE  RInv'
  <2> USE <1>KeepStep
  <2>1. v.l = NoBerth \/ Fresh(v.l)
    BY CopyIs, Nothing, Zenon
  <2> QED BY <2>1, <1>LocalStep, Zenon DEF Goto
\* The same for a reconciler that moves on with the copy it has.
<1>KnowsMoved. ASSUME RInv, NEW x \in Worker, NEW pc \in PC, x # "pods",
                      worker[x].pc \notin {"idle", "ungate"}, pc \notin {"verify", "ungate"},
                      pc = "acquire" => L(x).w.phase # "Stopping",
                      pc = "stop" => L(x).w.phase = "Active",
                      pc \in DrainPC => L(x).w.phase = "Stopping",
                      pc \in {"release", "clear"} => \A p \in L(x).w.pods : Over(p)
               PROVE  LET u == [worker[x] EXCEPT !.pc = pc]
                      IN u \in Local /\ u.l = L(x) /\ Knows(x, u) /\ u.pc = pc
  <2> USE <1>KnowsMoved
  <2>1. PICK u : u = [worker[x] EXCEPT !.pc = pc]
    BY Zenon
  <2>2. worker[x] \in Local /\ Knows(x, worker[x])
    BY CopyIs, Zenon
  <2>3. u \in Local /\ u.pc = pc /\ u.l = L(x) /\ u.todo = worker[x].todo /\ u.reply = worker[x].reply
    BY <2>1, <2>2, MovedIs, Zenon DEF L
  <2>4. L(x).fin /\ L(x).exists /\ pc # "verify" /\ pc # "ungate"
    BY <2>2, Zenon DEF Knows, L
  <2>5. Knows(x, u)
    BY <2>2, <2>3, <2>4, Zenon DEF Knows, L
  <2> QED BY <2>1, <2>3, <2>5, Zenon
\* What the reconcilers' requests leave alone.
<1>OthersKept. ASSUME RInv, UNCHANGED <<service, orphans, ident>>
               PROVE  LeaseTypes' /\ setup' = setup /\ orphans' \in SUBSET Orphan /\ ident' = ident
  <2> USE <1>OthersKept
  <2>1. LeaseTypes /\ setup \in Setups /\ orphans \in SUBSET Orphan
    BY Zenon DEF RInv, ObjectTypes
  <2>2. UNCHANGED <<leaseVars, clock>> /\ setup' = setup
    BY DEF service
  <2> QED BY <2>1, <2>2, LeaseKept, Zenon
\* A copy of the current version may be replaced by anything that keeps its Pods
\* unless they are over, as long as nothing but cleanup follows Stopping.
<1>CurrentFollows. ASSUME NEW l, NEW k, Fresh(l), k.rv = l.rv,
                          \A p \in l.w.pods : Over(p) \/ (k.exists /\ p \in k.w.pods),
                          l.w.phase = "Stopping" => Cleared(k) /\ \A p \in l.w.pods : Over(p)
                   PROVE  Current(k) => Follows(k)
  BY <1>CurrentFollows, Zenon DEF Fresh, Current, Follows
\* A reconciler starts the cleanup.
<1>StopSaved. ASSUME RInv, Others, NEW x \in Worker, x # "pods", NEW l \in Berth,
                     Fresh(l), Sound(l), l.fin, l.exists, l.w.phase # "Stopping",
                     Save(x, Stopping(l), With(Stopping(l), "stopTarget"))
              PROVE  RInv'
  <2> USE <1>StopSaved
  <2>1. PICK k : k = Stopping(l)
    OBVIOUS
  <2>2. /\ k \in Berth /\ k.rv = l.rv /\ k.fin /\ k.exists /\ k.w.phase = "Stopping"
        /\ k.w.pods = l.w.pods /\ Sound(k)
    BY <2>1, StoppingIs, Zenon
  <2>3. berth \in Berth /\ l.rv <= berth.rv /\ setup \in Setups
    BY CopyIs, Zenon DEF Fresh
  <2>4. PICK b : b = Written(k)
    OBVIOUS
  <2>5. b \in Berth /\ Sound(b) /\ b.fin /\ b.exists /\ b.w = k.w
    BY <2>2, <2>3, <2>4, WrittenIs, Zenon
  <2>6. PICK u : u = [Idle EXCEPT !.pc = "stopTarget", !.l = b]
    OBVIOUS
  <2>7. "stopTarget" \in PC /\ "stopTarget" \notin {"permit", "ungate", "release", "clear", "verify", "acquire", "stop"}
    BY DEF PC, DrainPC
  <2>8. u \in Local /\ u.l = b
    BY <2>3, <2>5, <2>6, <2>7, AtIs, Zenon
  <2>9. Knows(x, u)
    BY <2>2, <2>3, <2>5, <2>6, <2>7, <1>KnowsAt, Zenon
  <2>10. Current(k) => Follows(k)
    BY <2>2, <1>CurrentFollows, Zenon
  <2>11. Save(x, k, u)
    BY <2>1, <2>4, <2>6, Zenon DEF With
  <2> QED BY <2>2, <2>3, <2>4, <2>8, <2>9, <2>10, <2>11, <1>SaveStep, Zenon
\* Reconcile keeps the invariant.
<1>RReconcile. ASSUME RInv, NEW x \in Worker, Reconcile(x)
               PROVE  RInv'
  <2> USE <1>RReconcile
  <2>1. x = "lease" /\ x # "pods" /\ berth.exists /\ Others
    BY Zenon DEF Reconcile
  <2>2. Sound(berth) /\ Fresh(berth) /\ berth \in Berth /\ setup \in Setups /\ berth.rv <= berth.rv
    BY CopyIs DEF RInv, Fresh
  <2>3. ASSUME ~berth.fin, Save(x, [berth EXCEPT !.fin = TRUE], Idle) PROVE RInv'
    <3>1. PICK k : k = [berth EXCEPT !.fin = TRUE]
      BY Zenon
    <3>2. k = [exists |-> berth.exists, rv |-> berth.rv, fin |-> TRUE, deleting |-> berth.deleting,
               valid |-> berth.valid, w |-> berth.w]
      BY <2>2, <3>1, Zenon DEF Berth
    <3>3. k \in Berth /\ k.fin /\ k.exists = berth.exists /\ k.rv = berth.rv /\ k.w = berth.w
      BY <2>2, <3>2, Zenon DEF Berth
    <3>4. Sound(k) /\ berth.w.phase # "Stopping"
      BY <2>2, <2>3, <3>3, Zenon DEF Sound
    <3>5. Current(k) => Follows(k)
      BY <2>1, <2>2, <3>3, <3>4, <1>CurrentFollows, Zenon
    <3>6. Idle \in Local /\ Idle.l = NoBerth /\ Knows(x, Idle)
      BY <2>2, Nothing, Zenon
    <3> QED BY <2>1, <2>2, <2>3, <3>1, <3>3, <3>4, <3>5, <3>6, <1>SaveStep, Zenon
  <2>4. ASSUME berth.fin, berth.w.phase # "Stopping", Save(x, Stopping(berth), With(Stopping(berth), "stopTarget"))
        PROVE  RInv'
    BY <2>1, <2>2, <2>4, <1>StopSaved, Zenon
  <2>5. ASSUME NEW pc \in {"stopTarget", "verify"}, berth.fin, pc = "stopTarget" => berth.w.phase = "Stopping",
               pc = "verify" => berth.w.phase # "Stopping",
               Goto(x, [Idle EXCEPT !.pc = pc, !.l = berth]), UNCHANGED <<objects, late, faults>>
        PROVE  RInv'
    <3>1. PICK u : u = [Idle EXCEPT !.pc = pc, !.l = berth]
      OBVIOUS
    <3>2. pc \in PC /\ pc \notin {"permit", "ungate", "release", "clear", "stop"}
          /\ (pc \in DrainPC => pc = "stopTarget") /\ (pc \in {"verify", "acquire"} => pc = "verify")
      BY DEF PC, DrainPC
    <3>3. u \in Local /\ u.l = berth
      BY <2>2, <3>1, <3>2, AtIs, Zenon
    <3>4. Knows(x, u)
      BY <2>1, <2>2, <2>5, <3>1, <3>2, <1>KnowsAt, Zenon
    <3>5. berth' = berth /\ pods' = pods /\ target' \in TargetObject /\ late' = late
      BY <2>5, CopyIs, Zenon DEF objects
    <3>6. LeaseTypes' /\ setup' = setup /\ orphans' \in SUBSET Orphan /\ ident' = ident
      BY <2>1, <1>OthersKept, Zenon DEF Others
    <3>7. worker' = [worker EXCEPT ![x] = u]
      BY <2>5, <3>1, Zenon DEF Goto
    <3> QED BY <2>2, <3>3, <3>4, <3>5, <3>6, <3>7, <1>LocalStep, Zenon
  <2>6. berth.w.phase = "Stopping" => MustStop(berth)
    BY Zenon DEF MustStop
  <2> QED BY <2>3, <2>4, <2>5, <2>6, Zenon DEF Reconcile
\* verifyTarget keeps it.
<1>RVerify. ASSUME RInv, NEW x \in Worker, Verify(x)
            PROVE  RInv'
  <2> USE <1>RVerify
  <2>1. /\ Knows(x, worker[x]) /\ worker[x] \in Local /\ L(x) \in Berth /\ setup \in Setups
        /\ target \in TargetObject /\ worker[x].pc = "verify" /\ worker[x].pc \notin {"idle", "permit", "ungate"}
    BY CopyIs DEF Verify, At
  <2>2. x # "pods" /\ L(x).w.phase # "Stopping" /\ worker[x].reply = NoReply /\ L(x).fin /\ L(x).exists
    BY <2>1, Zenon DEF Knows, L
  <2>3. LeaseTypes' /\ setup' = setup /\ orphans' \in SUBSET Orphan /\ ident' = ident
        /\ berth' = berth /\ pods' = pods /\ target' \in TargetObject /\ late' = late
    BY <2>1, <1>OthersKept, Zenon DEF Verify, ReadsOnly, objects
  <2>4. ASSUME Goto(x, [worker[x] EXCEPT !.pc = "acquire", !.started = Now]) PROVE RInv'
    <3>1. Now \in Int
      BY <2>1, SetupTypes DEF Now, RInv, LeaseTypes
    <3>2. PICK u : u = [worker[x] EXCEPT !.pc = "acquire", !.started = Now]
      OBVIOUS
    <3>3. u \in Local /\ u.pc = "acquire" /\ u.l = L(x) /\ u.reply = NoReply /\ u.todo = worker[x].todo
      BY <2>1, <2>2, <3>1, <3>2, RequestIs, Zenon DEF L
    <3>4. "acquire" \notin {"stop", "ungate", "release", "clear", "verify"} /\ "acquire" \notin DrainPC
      BY DEF DrainPC
    <3>5. Knows(x, u)
      BY <2>1, <2>2, <3>3, <3>4, Zenon DEF Knows, L
    <3> QED BY <2>3, <2>4, <3>2, <3>3, <3>5, <1>KeepStep, Zenon
  <2>5. ASSUME NEW pc \in {"stop", "quarantine"}, pc = "stop" => L(x).w.phase = "Active", Step(x, pc) PROVE RInv'
    <3>1. PICK u : u = [worker[x] EXCEPT !.pc = pc]
      BY Zenon
    <3>2. pc \in PC /\ pc \notin {"ungate", "release", "clear", "verify"} /\ pc # "acquire" /\ pc \notin DrainPC
      BY DEF PC, DrainPC
    <3>3. u \in Local /\ u.l = L(x) /\ Knows(x, u)
      BY <2>1, <2>2, <2>5, <3>1, <3>2, <1>KnowsMoved, Zenon
    <3> QED BY <2>3, <2>5, <3>1, <3>3, <1>KeepStep, Zenon DEF Step
  <2> QED BY <2>4, <2>5, Zenon DEF Verify
\* So does the service's answer to the request for the lease,
<1>RServeAcquire. ASSUME RInv, NEW x \in Worker, ServeAcquire(x)
                  PROVE  RInv'
  <2> USE <1>RServeAcquire
  <2>1. /\ Knows(x, worker[x]) /\ worker[x] \in Local /\ setup \in Setups
        /\ target \in TargetObject /\ worker[x].pc = "acquire" /\ ident \in Holder /\ LeaseTypes
        /\ orphans \in SUBSET Orphan
    BY CopyIs, SetupTypes, Zenon DEF ServeAcquire, At, RInv, ObjectTypes
  <2>2. berth' = berth /\ pods' = pods /\ target' \in TargetObject /\ late' = late /\ setup' = setup
        /\ clock' = clock /\ orphans' \in SUBSET Orphan /\ ident' = ident
    BY <2>1, Zenon DEF ServeAcquire, objects
  <2>3. ASSUME NEW r \in Reply, r.res = "granted" => r.token > 0, Goto(x, [worker[x] EXCEPT !.reply = r]), LeaseTypes'
        PROVE  RInv'
    <3>1. PICK u : u = [worker[x] EXCEPT !.reply = r]
      BY Zenon
    <3>2. /\ u \in Local /\ u.pc = "acquire" /\ u.l = L(x) /\ u.reply = r /\ u.todo = worker[x].todo
          /\ u.head = worker[x].head
      BY <2>1, <3>1, RequestIs, Zenon DEF L
    <3>3. "acquire" # "verify"
      OBVIOUS
    <3>4. Knows(x, u)
      BY <2>1, <2>3, <3>2, <3>3, Zenon DEF Knows, L
    <3> QED BY <2>2, <2>3, <3>1, <3>2, <3>4, <1>KeepStep, Zenon
  <2>4. ASSUME Grants(ident),
               Goto(x, [worker[x] EXCEPT !.reply =
                 [res |-> "granted", token |-> token'[Lease], expires |-> expires'[Lease]]])
        PROVE  RInv'
    <3>1. LeaseTypes' /\ token'[Lease] \in Nat /\ token'[Lease] > 0 /\ expires'[Lease] \in Int
      BY <2>1, <2>2, <2>4, LeaseKept, Zenon
    <3>2. PICK r : r = [res |-> "granted", token |-> token'[Lease], expires |-> expires'[Lease]]
      BY Zenon
    <3>3. r \in Reply /\ r.token > 0
      BY <3>1, <3>2 DEF Reply
    <3> QED BY <2>3, <2>4, <3>1, <3>2, <3>3, Zenon
  <2>5. ASSUME Denies(ident), Goto(x, [worker[x] EXCEPT !.reply = [NoReply EXCEPT !.res = "denied"]])
        PROVE  RInv'
    <3>1. LeaseTypes'
      BY <2>1, <2>2, <2>5, LeaseKept, Zenon DEF Denies
    <3>2. PICK r : r = [NoReply EXCEPT !.res = "denied"]
      BY Zenon
    <3>3. r = [res |-> "denied", token |-> 0, expires |-> 0]
      BY <3>2 DEF NoReply
    <3>4. r \in Reply /\ r.res # "granted"
      BY <3>3 DEF Reply
    <3> QED BY <2>3, <2>5, <3>1, <3>2, <3>4, Zenon
  <2> QED BY <2>4, <2>5, Zenon DEF ServeAcquire
\* the failure of that request,
<1>RAcquireError. ASSUME RInv, NEW x \in Worker, AcquireError(x)
                  PROVE  RInv'
  <2> USE <1>RAcquireError
  <2>1. /\ Knows(x, worker[x]) /\ worker[x] \in Local /\ setup \in Setups /\ L(x) \in Berth /\ Sound(L(x))
        /\ target \in TargetObject /\ worker[x].pc = "acquire" /\ ident \in Holder /\ LeaseTypes
        /\ orphans \in SUBSET Orphan /\ Idle \in Local /\ Knows(x, Idle)
    BY CopyIs, SetupTypes, Nothing, Zenon DEF AcquireError, At, RInv, ObjectTypes
  <2>2. "acquire" \notin {"idle", "ungate", "permit"}
    OBVIOUS
  <2>3. x # "pods" /\ L(x).fin /\ L(x).exists
    BY <2>1, <2>2, Zenon DEF Knows, L
  <2>4. berth' = berth /\ pods' = pods /\ target' \in TargetObject /\ late' = late /\ setup' = setup
        /\ ident' = ident /\ LeaseTypes'
    BY <2>1, LeaseKept, Zenon DEF AcquireError, objects, service
  <2>5. orphans' \in SUBSET Orphan
    <3>1. PICK m : m = [op |-> "acquire", holder |-> ident, token |-> 0]
      BY Zenon
    <3>2. m \in Orphan
      BY <2>1, <3>1 DEF Orphan
    <3> QED BY <2>1, <3>1, <3>2, Zenon DEF AcquireError
  <2>6. ASSUME L(x).w.phase = "Active", Goto(x, [Idle EXCEPT !.pc = "stop", !.l = L(x)]) PROVE RInv'
    <3>1. PICK u : u = [Idle EXCEPT !.pc = "stop", !.l = L(x)]
      OBVIOUS
    <3>2. "stop" \in PC /\ "stop" \notin {"permit", "ungate", "release", "clear"} /\ "stop" \notin DrainPC
          /\ "stop" \notin {"verify", "acquire"}
      BY DEF PC, DrainPC
    <3>3. u \in Local /\ u.l = L(x)
      BY <2>1, <3>1, <3>2, AtIs, Zenon
    <3>4. Knows(x, u)
      BY <2>1, <2>3, <2>6, <3>1, <3>2, <1>KnowsAt, Zenon
    <3> QED BY <2>4, <2>5, <2>6, <3>1, <3>3, <3>4, <1>KeepStep, Zenon
  <2>7. ASSUME Return(x) PROVE RInv'
    BY <2>1, <2>4, <2>5, <2>7, <1>KeepStep, Zenon DEF Return
  <2> QED BY <2>6, <2>7, Zenon DEF AcquireError
\* what Reconcile does with the answer,
<1>RAcquireReturns. ASSUME RInv, NEW x \in Worker, AcquireReturns(x)
                    PROVE  RInv'
  <2> USE <1>RAcquireReturns
  <2>1. /\ Knows(x, worker[x]) /\ worker[x] \in Local /\ setup \in Setups /\ L(x) \in Berth /\ Sound(L(x))
        /\ target \in TargetObject /\ worker[x].pc = "acquire" /\ ident \in Identity /\ Identity \subseteq Holder
        /\ Idle \in Local /\ Knows(x, Idle) /\ Fresh(L(x)) /\ berth \in Berth /\ L(x).rv <= berth.rv
        /\ L(x).w \in Workload /\ L(x).w.pods \in SUBSET Pod
    BY CopyIs, SetupTypes, Nothing, Zenon DEF AcquireReturns, At, RInv, ObjectTypes, Workload
  <2>2. "acquire" \notin {"idle", "ungate", "permit"} /\ Others
    BY DEF AcquireReturns
  <2>3. x # "pods" /\ L(x).fin /\ L(x).exists /\ L(x).w.phase # "Stopping"
    BY <2>1, <2>2, Zenon DEF Knows, L
  <2>4. ASSUME Return(x), UNCHANGED <<objects, late, faults>> PROVE RInv'
    <3>1. berth' = berth /\ pods' = pods /\ target' \in TargetObject /\ late' = late
      BY <2>1, <2>4, Zenon DEF objects
    <3>2. LeaseTypes' /\ setup' = setup /\ orphans' \in SUBSET Orphan /\ ident' = ident
      BY <2>2, <1>OthersKept, Zenon DEF Others
    <3> QED BY <2>1, <2>4, <3>1, <3>2, <1>KeepStep, Zenon DEF Return
  <2>5. ASSUME Save(x, Stopping(L(x)), With(Stopping(L(x)), "stopTarget")) PROVE RInv'
    BY <2>1, <2>2, <2>3, <2>5, <1>StopSaved, Zenon
  <2> DEFINE r == worker[x].reply
             w == L(x).w
             renewed == [L(x) EXCEPT !.w =
               [w EXCEPT !.phase = "Active", !.holder = ident, !.token = r.token,
                         !.deadline = Deadline(x), !.pods = pruned(w.pods)]]
  <2>6. ASSUME r.res = "granted", Save(x, renewed, With(renewed, "activate")) PROVE RInv'
    <3>1. PICK k : k = renewed
      BY Zenon
    <3>2. k = [L(x) EXCEPT !.w = Renewal(L(x).w, ident, worker[x].reply.token, Deadline(x), pruned(L(x).w.pods))]
      BY <3>1, Zenon DEF Renewal
    <3> HIDE DEF renewed
    <3>3. /\ k \in Berth /\ k.rv = L(x).rv /\ k.fin /\ k.exists /\ Sound(k)
          /\ k.w.phase = "Active" /\ k.w.pods = pruned(w.pods)
      BY <2>1, <2>6, <3>2, RenewedIs, Zenon DEF At
    <3>4. \A p \in w.pods : Over(p) \/ p \in pruned(w.pods)
      BY <2>1, PrunedIs, Zenon DEF Sound
    <3>5. Current(k) => Follows(k)
      BY <2>1, <2>3, <3>3, <3>4, <1>CurrentFollows, Zenon
    <3>6. PICK b : b = Written(k)
      OBVIOUS
    <3>7. b \in Berth /\ Sound(b) /\ b.fin /\ b.exists /\ b.w = k.w
      BY <2>1, <3>3, <3>6, WrittenIs, Zenon
    <3>8. PICK u : u = [Idle EXCEPT !.pc = "activate", !.l = b]
      OBVIOUS
    <3>9. "activate" \in PC /\ "activate" \notin {"permit", "ungate", "release", "clear"}
          /\ "activate" \notin {"verify", "acquire"} /\ "activate" # "stop" /\ "activate" \notin DrainPC
      BY DEF PC, DrainPC
    <3>10. u \in Local /\ u.l = b
      BY <2>1, <3>7, <3>8, <3>9, AtIs, Zenon
    <3>11. Knows(x, u)
      BY <2>1, <2>3, <3>7, <3>8, <3>9, <1>KnowsAt, Zenon
    <3>12. Save(x, k, u) /\ k.rv <= berth.rv
      BY <2>1, <2>6, <3>1, <3>3, <3>6, <3>8, Zenon DEF With
    <3> QED BY <2>2, <3>3, <3>5, <3>6, <3>10, <3>11, <3>12, <1>SaveStep, Zenon
  <2> QED BY <2>4, <2>5, <2>6, Zenon DEF AcquireReturns
\* Changes of single fields of the target.
<1>TargetIs. ASSUME NEW t \in TargetObject
             PROVE  /\ \A a \in BOOLEAN : [t EXCEPT !.active = a] \in TargetObject
                    /\ [t EXCEPT !.rv = t.rv + 1] \in TargetObject
                    /\ \A f \in Nat : [t EXCEPT !.active = FALSE, !.fence = f] \in TargetObject
                    /\ NoTarget \in TargetObject
  <2> USE <1>TargetIs
  <2>1. ASSUME NEW v \in TargetObject, NEW a \in BOOLEAN PROVE [v EXCEPT !.active = a] \in TargetObject
    BY DEF TargetObject
  <2>2. ASSUME NEW v \in TargetObject, NEW f \in Nat PROVE [v EXCEPT !.fence = f] \in TargetObject
    BY DEF TargetObject
  <2>3. [t EXCEPT !.rv = t.rv + 1] \in TargetObject
    BY DEF TargetObject
  <2>4. ASSUME NEW f \in Nat PROVE [t EXCEPT !.active = FALSE, !.fence = f] \in TargetObject
    <3>1. PICK v : v = [t EXCEPT !.active = FALSE]
      BY Zenon
    <3>2. [t EXCEPT !.active = FALSE, !.fence = f] = [v EXCEPT !.fence = f]
      BY <3>1
    <3>3. FALSE \in BOOLEAN
      OBVIOUS
    <3>4. v \in TargetObject
      BY <2>1, <3>1, <3>3, Zenon
    <3> QED BY <2>2, <3>2, <3>4, Zenon
  <2>5. NoTarget \in TargetObject
    BY DEF NoTarget, TargetObject
  <2> QED BY <2>1, <2>3, <2>4, <2>5, Zenon
\* A reconciler's patch of the target: accepted, refused or delayed.
<1>PatchStep. ASSUME RInv, Others, NEW x \in Worker, NEW t \in TargetObject, NEW rec \in Local, Patch(x, t, rec),
                     Knows(x, rec), rec = Idle \/ rec.l = L(x)
              PROVE  RInv'
  <2> USE <1>PatchStep
  <2>1. LeaseTypes' /\ setup' = setup /\ orphans' \in SUBSET Orphan /\ ident' = ident
    BY <1>OthersKept, Zenon DEF Others
  <2>2. target \in TargetObject /\ Idle \in Local /\ Knows(x, Idle)
    BY CopyIs, Nothing, Zenon
  <2>3. CASE target' = [t EXCEPT !.rv = t.rv + 1] /\ Goto(x, rec) /\ UNCHANGED <<berth, pods, jobs, late, faults>>
    <3>1. target' \in TargetObject /\ berth' = berth /\ pods' = pods /\ late' = late /\ Goto(x, rec)
      BY <2>3, <1>TargetIs, Zenon
    <3> QED BY <2>1, <3>1, <1>KeepStep, Zenon
  <2>4. CASE Return(x) /\ UNCHANGED <<objects, late, faults>>
    <3>1. target' \in TargetObject /\ berth' = berth /\ pods' = pods /\ late' = late
      BY <2>2, <2>4, Zenon DEF objects
    <3> QED BY <2>1, <2>2, <2>4, <3>1, <1>KeepStep, Zenon DEF Return
  <2>5. CASE Delay(x, [kind |-> "target", t |-> t, admitted |-> ~increasesActivity(t)])
    <3>1. PICK m : m = [kind |-> "target", t |-> t, admitted |-> ~increasesActivity(t)]
      BY Zenon
    <3>2. (~increasesActivity(t)) \in BOOLEAN
      BY Zenon
    <3>3. m \in Harmless
      BY <3>1, <3>2, Zenon DEF Harmless, TargetWrite
    <3>4. target' \in TargetObject /\ berth' = berth /\ pods' = pods /\ late' = late \cup {m} /\ Goto(x, Idle)
      BY <2>2, <2>5, <3>1, Zenon DEF Delay, objects, Return
    <3> QED BY <2>1, <2>2, <3>3, <3>4, <1>KeepStep, Zenon
  <2> QED BY <2>3, <2>4, <2>5, Zenon DEF Patch
\* applyActionForUID,
<1>RActivate. ASSUME RInv, NEW x \in Worker, Activate(x)
              PROVE  RInv'
  <2> USE <1>RActivate
  <2>1. /\ Knows(x, worker[x]) /\ worker[x].pc = "activate" /\ Others /\ target \in TargetObject
        /\ Idle \in Local /\ Knows(x, Idle)
    BY CopyIs, Nothing, Zenon DEF Activate, At
  <2>2. "activate" \notin {"idle", "permit", "ungate"} /\ "list" \in PC /\ "list" \notin {"verify", "ungate"}
        /\ "list" # "acquire" /\ "list" # "stop" /\ "list" \notin DrainPC /\ "list" \notin {"release", "clear"}
    BY DEF PC, DrainPC
  <2>3. x # "pods"
    BY <2>1, <2>2, Zenon DEF Knows
  <2>4. PICK u : u = [worker[x] EXCEPT !.pc = "list"]
    BY Zenon
  <2>5. u \in Local /\ u.l = L(x) /\ Knows(x, u)
    BY <2>1, <2>2, <2>3, <2>4, <1>KnowsMoved, Zenon
  <2>6. LeaseTypes' /\ setup' = setup /\ orphans' \in SUBSET Orphan /\ ident' = ident
    BY <2>1, <1>OthersKept, Zenon DEF Others
  <2>7. ASSUME NEW v \in {u, Idle}, Goto(x, v), UNCHANGED <<objects, late, faults>> PROVE RInv'
    <3>1. target' \in TargetObject /\ berth' = berth /\ pods' = pods /\ late' = late
      BY <2>1, <2>7, Zenon DEF objects
    <3> QED BY <2>1, <2>5, <2>6, <2>7, <3>1, <1>KeepStep, Zenon
  <2>8. ASSUME Patch(x, [target EXCEPT !.active = TRUE], u) PROVE RInv'
    <3>1. TRUE \in BOOLEAN
      OBVIOUS
    <3>2. [target EXCEPT !.active = TRUE] \in TargetObject
      BY <2>1, <3>1, <1>TargetIs, Zenon
    <3> QED BY <2>1, <2>5, <2>8, <3>2, <1>PatchStep, Zenon
  <2> QED BY <2>4, <2>7, <2>8, Zenon DEF Activate, Return
\* the list of permitPods,
<1>RListPods. ASSUME RInv, NEW x \in Worker, ListPods(x)
              PROVE  RInv'
  <2> USE <1>RListPods
  <2>1. /\ Knows(x, worker[x]) /\ worker[x].pc = "list" /\ target \in TargetObject /\ pods \in [Pod -> PodObject]
    BY CopyIs, Zenon DEF ListPods, At
  <2>2. "list" \notin {"idle", "ungate"}
    OBVIOUS
  <2>3. L(x).fin /\ L(x).exists
    BY <2>1, <2>2, Zenon DEF Knows, L
  <2>4. PICK T : T = {Seen(p) : p \in Stored}
    BY Zenon
  <2>5. T \in Pending /\ \A s \in T : Known(s.pod)
    BY <2>1, <2>4 DEF Pending, Seen, Stored, Known, PodObject
  <2>6. LeaseTypes' /\ setup' = setup /\ orphans' \in SUBSET Orphan /\ ident' = ident
        /\ target' \in TargetObject /\ berth' = berth /\ pods' = pods /\ late' = late
    BY <2>1, <1>OthersKept, Zenon DEF ListPods, ReadsOnly, objects
  <2>7. PICK u : u = Permitting(x, T)
    OBVIOUS
  <2>8. u \in Local /\ (u = Idle \/ u.l = L(x)) /\ Knows(x, u)
    BY <2>3, <2>5, <2>7, PermittingIs, Zenon
  <2>9. Goto(x, u)
    BY <2>4, <2>7, Zenon DEF ListPods
  <2> QED BY <2>6, <2>8, <2>9, <1>KeepStep, Zenon
\* permitPod up to the registration keeps the invariant,
<1>RPermit. ASSUME RInv, NEW x \in Worker, Permit(x)
            PROVE  RInv'
  <2> USE <1>RPermit
  <2>1. PICK s \in worker[x].todo : permitPod(x, s)
    BY Zenon DEF Permit
  <2>2. /\ Knows(x, worker[x]) /\ worker[x] \in Local /\ setup \in Setups /\ L(x) \in Berth /\ Sound(L(x))
        /\ target \in TargetObject /\ Idle \in Local /\ Knows(x, Idle) /\ Fresh(L(x)) /\ berth \in Berth
        /\ L(x).rv <= berth.rv /\ worker[x].todo \in Pending /\ s.pod \in Pod /\ Idle.l = NoBerth
    BY CopyIs, Nothing, Zenon DEF Local, Pending
  <2>3. L(x).fin /\ L(x).exists /\ Known(s.pod) /\ \A r \in worker[x].todo : Known(r.pod)
    BY <2>2, Zenon DEF Knows, L
  <2>4. Others /\ LeaseTypes' /\ setup' = setup /\ orphans' \in SUBSET Orphan /\ ident' = ident
    BY <1>OthersKept, Zenon DEF Permit, Others
  <2>5. ASSUME NEW v \in Local, Goto(x, v), v.l \in {NoBerth, L(x)}, Knows(x, v), UNCHANGED <<objects, late, faults>>
        PROVE  RInv'
    <3>1. target' \in TargetObject /\ berth' = berth /\ pods' = pods /\ late' = late
          /\ worker' = [worker EXCEPT ![x] = v]
      BY <2>2, <2>5, Zenon DEF objects, Goto
    <3>2. v.l = NoBerth \/ Fresh(v.l)
      BY <2>2, <2>5, Zenon
    <3> QED BY <2>4, <2>5, <3>1, <3>2, <1>LocalStep, Zenon
  <2>6. ASSUME Return(x), UNCHANGED <<objects, late, faults>> PROVE RInv'
    BY <2>2, <2>5, <2>6, Zenon DEF Return
  <2>7. ASSUME Goto(x, Ungating(x, s, L(x))), UNCHANGED <<objects, late, faults>> PROVE RInv'
    BY <2>2, <2>3, <2>5, <2>7, UngatingIs, Zenon
  <2>8. ASSUME Goto(x, Permitting(x, worker[x].todo \ {s})), UNCHANGED <<objects, late, faults>> PROVE RInv'
    <3>1. PICK T, u : T = worker[x].todo \ {s} /\ u = Permitting(x, T)
      BY Zenon
    <3>2. T \in Pending /\ \A r \in T : Known(r.pod)
      BY <2>2, <2>3, <3>1, Zenon DEF Pending
    <3>3. u \in Local /\ (u = Idle \/ u.l = L(x)) /\ Knows(x, u)
      BY <2>3, <3>1, <3>2, PermittingIs, Zenon
    <3> QED BY <2>2, <2>5, <2>8, <3>1, <3>3, Zenon
  <2> DEFINE more == [L(x) EXCEPT !.w.pods = @ \cup {s.pod}]
  <2>9. ASSUME ~permitRefuses(L(x), s), activeAt(L(x), Now), s.st # "leaving", s.pod \notin L(x).w.pods,
               Save(x, more, Ungating(x, s, Written(more)))
        PROVE  RInv'
    <3>1. ~(Cardinality(L(x).w.pods) >= MaxPermittedPods) /\ Counts
      BY <2>2, <2>9, Zenon DEF permitRefuses, RInv
    <3>2. L(x).w.phase = "Active"
      BY <2>9, Zenon DEF activeAt
    <3>3. PICK l, q, k : l = L(x) /\ q = s.pod /\ k = [l EXCEPT !.w.pods = @ \cup {q}]
      BY Zenon
    <3>4. k = more
      BY <3>3, Zenon
    <3>5. /\ l \in Berth /\ q \in Pod /\ Sound(l) /\ Known(q) /\ l.fin /\ l.exists /\ l.w.phase = "Active"
          /\ Counts /\ ~(Cardinality(l.w.pods) >= MaxPermittedPods)
      BY <2>2, <2>3, <3>1, <3>2, <3>3, Zenon
    <3>6. /\ k \in Berth /\ k.rv = l.rv /\ k.fin /\ k.exists /\ k.w.pods = l.w.pods \cup {q} /\ Sound(k)
      BY <2>2, <3>3, <3>5, RegistrationIs, Zenon
    <3> HIDE DEF more
    <3>7. Current(k) => Follows(k)
      <4>1. "Active" # "Stopping"
        OBVIOUS
      <4> QED BY <2>2, <3>2, <3>3, <3>6, <4>1, <1>CurrentFollows, Zenon
    <3>8. PICK b, u : b = Written(k) /\ u = Ungating(x, s, b)
      OBVIOUS
    <3>9. b \in Berth /\ Sound(b) /\ b.fin /\ b.exists
      BY <2>2, <3>6, <3>8, WrittenIs, Zenon
    <3>10. u \in Local /\ u.l \in {NoBerth, b} /\ Knows(x, u)
      BY <3>8, <3>9, UngatingIs, Zenon
    <3>11. Save(x, k, u) /\ k.rv <= berth.rv
      BY <2>2, <2>9, <3>3, <3>4, <3>6, <3>8, Zenon
    <3> QED BY <2>4, <3>6, <3>7, <3>8, <3>10, <3>11, <1>SaveStep, Zenon
  <2> QED BY <2>1, <2>6, <2>7, <2>8, <2>9, Zenon DEF permitPod
\* the removal of the gate,
<1>RUngate. ASSUME RInv, NEW x \in Worker, Ungate(x)
            PROVE  RInv'
  <2> USE <1>RUngate
  <2>1. /\ Knows(x, worker[x]) /\ worker[x] \in Local /\ setup \in Setups /\ worker[x].pc = "ungate"
        /\ target \in TargetObject /\ pods \in [Pod -> PodObject] /\ Idle \in Local /\ Knows(x, Idle)
        /\ Idle.l = NoBerth /\ Fresh(L(x)) /\ worker[x].todo \in Pending
    BY CopyIs, Nothing, Zenon DEF Ungate, At, Local, Pending
  <2>2. PICK p \in Pod : p = worker[x].head
    BY <2>1, Zenon DEF Knows
  <2>3. Others /\ LeaseTypes' /\ setup' = setup /\ orphans' \in SUBSET Orphan /\ ident' = ident
    BY <1>OthersKept, Zenon DEF Ungate, Others
  <2>4. ASSUME pods[p].st = "gated", PermitValid(p), Opened(p), Goto(x, Permitting(x, worker[x].todo)),
               UNCHANGED <<berth, target, jobs, late, faults>>
        PROVE  RInv'
    <3>1. PICK u : u = Permitting(x, worker[x].todo)
      OBVIOUS
    <3>2. u \in Local /\ (u = Idle \/ u.l = L(x)) /\ Knows(x, u)
      BY <2>1, <3>1, PermittingIs, Zenon DEF Knows, L
    <3>3. "open" \in PodStates /\ pods[p].st \notin {"done", "gone"} /\ "open" \notin {"none", "creating"}
      BY <2>4 DEF PodStates
    <3>4. pods' \in [Pod -> PodObject] /\ Onward /\ \A q \in Pod : q # p => (Runnable(q)' => Runnable(q))
      BY <2>1, <2>4, <3>3, MovedOnward, Zenon DEF Opened
    <3>5. Registered(p)
      BY <2>4, Zenon DEF PermitValid, Registered, activeAt
    <3>6. /\ berth' = berth /\ target' \in TargetObject /\ late' = late /\ worker' = [worker EXCEPT ![x] = u]
          /\ (u.l = NoBerth \/ Fresh(u.l))
      BY <2>1, <2>4, <3>1, <3>2, Zenon DEF Goto
    <3> QED BY <2>3, <3>2, <3>4, <3>5, <3>6, <1>PodsStep, Zenon
  <2>5. ASSUME Return(x), UNCHANGED <<objects, late, faults>> PROVE RInv'
    <3>1. target' \in TargetObject /\ berth' = berth /\ pods' = pods /\ late' = late
      BY <2>1, <2>5, Zenon DEF objects
    <3> QED BY <2>1, <2>3, <2>5, <3>1, <1>KeepStep, Zenon DEF Return
  <2>6. ASSUME Delay(x, [kind |-> "ungate", pod |-> p, admitted |-> FALSE]) PROVE RInv'
    <3>1. PICK m : m = [kind |-> "ungate", pod |-> p, admitted |-> FALSE]
      BY Zenon
    <3>2. m \in Harmless
      BY <3>1 DEF Harmless, UngateWrite
    <3>3. target' \in TargetObject /\ berth' = berth /\ pods' = pods /\ late' = late \cup {m} /\ Goto(x, Idle)
      BY <2>1, <2>6, <3>1, Zenon DEF Delay, objects, Return
    <3> QED BY <2>1, <2>3, <3>2, <3>3, <1>KeepStep, Zenon
  <2> QED BY <2>2, <2>4, <2>5, <2>6, Zenon DEF Ungate
\* the reconciler of the Pods,
<1>RPodReconcile. ASSUME RInv, NEW x \in Worker, NEW p \in Pod, PodReconcile(x, p)
                  PROVE  RInv'
  <2> USE <1>RPodReconcile
  <2>1. /\ Knows(x, worker[x]) /\ worker[x] \in Local /\ setup \in Setups /\ berth \in Berth /\ Sound(berth)
        /\ target \in TargetObject /\ pods \in [Pod -> PodObject] /\ Fresh(L(x)) /\ p \in Stored /\ x = "pods"
        /\ worker \in [Worker -> Local]
    BY CopyIs, Zenon DEF PodReconcile, RInv, ObjectTypes
  <2>2. LeaseTypes' /\ setup' = setup /\ orphans' \in SUBSET Orphan /\ ident' = ident
        /\ berth' = berth /\ target' \in TargetObject /\ late' = late
    BY <2>1, <1>OthersKept, Zenon DEF PodReconcile
  <2>3. ASSUME pods' = Deleted({p}), UNCHANGED worker PROVE RInv'
    <3>1. pods' \in [Pod -> PodObject] /\ Onward /\ \A q \in Pod : Runnable(q)' => Runnable(q)
      BY <2>1, <2>3, DeletedIs, Zenon
    <3>2. worker' = [worker EXCEPT ![x] = worker[x]]
      BY <2>1, <2>3
    <3>3. PICK v \in Local : v = worker[x]
      BY <2>1, Zenon
    <3>4. worker' = [worker EXCEPT ![x] = v] /\ Knows(x, v) /\ Fresh(v.l)
      BY <2>1, <3>2, <3>3, Zenon DEF L
    <3> QED BY <2>2, <3>1, <3>4, <1>PodsStep, Zenon
  <2>4. ASSUME activeAt(berth, Now), Goto(x, [Idle EXCEPT !.pc = "permit", !.l = berth, !.todo = {Seen(p)}]), UNCHANGED pods
        PROVE  RInv'
    <3>1. PICK a : a = [Idle EXCEPT !.pc = "permit", !.l = berth]
      OBVIOUS
    <3>2. PICK u : u = [Idle EXCEPT !.pc = "permit", !.l = berth, !.todo = {Seen(p)}]
      OBVIOUS
    <3>3. u = [a EXCEPT !.todo = {Seen(p)}]
      BY <3>1, <3>2
    <3>4. "permit" \in PC /\ "permit" \notin {"verify", "acquire"} /\ "permit" # "stop"
          /\ "permit" \notin DrainPC /\ "permit" \notin {"release", "clear"} /\ "permit" # "ungate"
          /\ "permit" \in {"idle", "permit", "ungate"} /\ "permit" # "verify" /\ "Active" # ""
          /\ NoReply.res # "granted"
      BY DEF PC, DrainPC, NoReply
    <3>5. a \in Local /\ a.pc = "permit" /\ a.l = berth /\ a.reply = NoReply
      <4>1. setup \in Setups /\ berth \in Berth /\ "permit" \in PC
        BY <2>1, <3>4, Zenon
      <4> QED BY <3>1, <4>1, AtIs, Zenon
    <3>6. {Seen(p)} \in Pending /\ \A s \in {Seen(p)} : Known(s.pod)
      BY <2>1 DEF Pending, Seen, PodObject, Stored, Known
    <3>7. PICK T : T = {Seen(p)}
      BY Zenon
    <3>8. u \in Local /\ u.pc = a.pc /\ u.l = a.l /\ u.reply = a.reply /\ u.todo = T /\ T \in Pending
          /\ \A s \in T : Known(s.pod)
      BY <3>3, <3>5, <3>6, <3>7, LocalIs, Zenon
    <3>9. berth.exists /\ berth.fin
      BY <2>1, <2>4, <3>4, Zenon DEF activeAt, Sound
    <3>10. Knows(x, u)
      BY <2>1, <3>4, <3>5, <3>8, <3>9, Zenon DEF Knows
    <3>11. Fresh(berth)
      BY <2>1 DEF Fresh, Berth
    <3> QED BY <2>2, <2>4, <3>2, <3>5, <3>8, <3>10, <3>11, <1>LocalStep, Zenon DEF Goto
  <2> QED BY <2>3, <2>4, Zenon DEF PodReconcile
\* the status write stopAndRelease starts with,
<1>RStop. ASSUME RInv, NEW x \in Worker, Stop(x)
          PROVE  RInv'
  <2> USE <1>RStop
  <2>1. /\ Knows(x, worker[x]) /\ L(x) \in Berth /\ Sound(L(x)) /\ Fresh(L(x)) /\ worker[x].pc = "stop" /\ Others
        /\ Save(x, Stopping(L(x)), With(Stopping(L(x)), "stopTarget"))
    BY CopyIs, Zenon DEF Stop, At
  <2>2. "stop" \notin {"idle", "ungate"} /\ "stop" \notin {"idle", "permit", "ungate"} /\ "Active" # "Stopping"
    OBVIOUS
  <2>3. x # "pods" /\ L(x).fin /\ L(x).exists /\ L(x).w.phase # "Stopping"
    BY <2>1, <2>2, Zenon DEF Knows, L
  <2> QED BY <2>1, <2>3, <1>StopSaved, Zenon
\* stopTarget,
<1>RStopTarget. ASSUME RInv, NEW x \in Worker, StopTarget(x)
                PROVE  RInv'
  <2> USE <1>RStopTarget
  <2>1. /\ Knows(x, worker[x]) /\ worker[x].pc \in {"stopTarget", "quarantine"} /\ Others /\ target \in TargetObject
        /\ Idle \in Local /\ Knows(x, Idle) /\ L(x).rv \in Nat
    BY CopyIs, Nothing, Zenon DEF StopTarget, At
  <2>2. /\ worker[x].pc \notin {"idle", "ungate"} /\ worker[x].pc \notin {"idle", "permit", "ungate"}
        /\ "drainJobs" \in PC /\ "drainJobs" \notin {"verify", "ungate"} /\ "drainJobs" # "acquire"
        /\ "drainJobs" # "stop" /\ "drainJobs" \notin {"release", "clear"}
        /\ (worker[x].pc = "stopTarget" => worker[x].pc \in DrainPC)
    BY <2>1 DEF PC, DrainPC
  <2>3. x # "pods" /\ (worker[x].pc = "stopTarget" => L(x).w.phase = "Stopping")
    BY <2>1, <2>2, Zenon DEF Knows, L
  <2>4. PICK u : u = IF At(x, "stopTarget") THEN [worker[x] EXCEPT !.pc = "drainJobs"] ELSE Idle
    BY Zenon
  <2>5. u \in Local /\ (u = Idle \/ u.l = L(x)) /\ Knows(x, u)
    <3>1. CASE At(x, "stopTarget")
      <4>1. u = [worker[x] EXCEPT !.pc = "drainJobs"] /\ L(x).w.phase = "Stopping"
        BY <2>3, <2>4, <3>1, Zenon DEF At
      <4>2. PICK n : n = [worker[x] EXCEPT !.pc = "drainJobs"]
        BY Zenon
      <4>3. n \in Local /\ n.l = L(x) /\ Knows(x, n)
        BY <2>2, <2>3, <4>1, <4>2, <1>KnowsMoved, Zenon
      <4> QED BY <4>1, <4>2, <4>3, Zenon
    <3>2. CASE ~At(x, "stopTarget")
      BY <2>1, <2>4, <3>2, Zenon
    <3> QED BY <3>1, <3>2, Zenon
  <2>6. LeaseTypes' /\ setup' = setup /\ orphans' \in SUBSET Orphan /\ ident' = ident
    BY <2>1, <1>OthersKept, Zenon DEF Others
  <2>7. ASSUME Goto(x, u), UNCHANGED <<objects, late, faults>> PROVE RInv'
    <3>1. target' \in TargetObject /\ berth' = berth /\ pods' = pods /\ late' = late
      BY <2>1, <2>7, Zenon DEF objects
    <3> QED BY <2>5, <2>6, <2>7, <3>1, <1>KeepStep, Zenon
  <2>8. ASSUME Patch(x, [target EXCEPT !.active = FALSE, !.fence = L(x).rv], u) PROVE RInv'
    <3>1. [target EXCEPT !.active = FALSE, !.fence = L(x).rv] \in TargetObject
      BY <2>1, <1>TargetIs, Zenon
    <3> QED BY <2>1, <2>5, <2>8, <3>1, <1>PatchStep, Zenon
  <2> QED BY <2>4, <2>7, <2>8, Zenon DEF StopTarget
\* drainJobs,
<1>RDrainJobs. ASSUME RInv, NEW x \in Worker, DrainJobs(x)
               PROVE  RInv'
  <2> USE <1>RDrainJobs
  <2>1. /\ Knows(x, worker[x]) /\ worker[x].pc = "drainJobs" /\ target \in TargetObject /\ worker[x] \in Local
        /\ Idle \in Local /\ Knows(x, Idle)
    BY CopyIs, Nothing, Zenon DEF DrainJobs, At
  <2>2. /\ "drainJobs" \notin {"idle", "ungate"} /\ "drainJobs" \notin {"idle", "permit", "ungate"}
        /\ "drainPods" \in PC /\ "drainPods" \notin {"verify", "ungate"} /\ "drainPods" # "acquire"
        /\ "drainPods" # "stop" /\ "drainPods" \notin {"release", "clear"} /\ "drainJobs" \in DrainPC
        /\ "drainPods" # "verify" /\ "drainPods" # "ungate" /\ "drainPods" \notin {"verify", "acquire"}
    BY DEF PC, DrainPC
  <2>3. x # "pods" /\ L(x).w.phase = "Stopping" /\ L(x).fin /\ L(x).exists
    BY <2>1, <2>2, Zenon DEF Knows, L
  <2>4. LeaseTypes' /\ setup' = setup /\ orphans' \in SUBSET Orphan /\ ident' = ident
        /\ berth' = berth /\ target' \in TargetObject /\ pods' = pods /\ late' = late
    BY <2>1, <1>OthersKept, Zenon DEF DrainJobs
  <2>5. ASSUME NEW b \in BOOLEAN, Goto(x, [worker[x] EXCEPT !.pc = "drainPods", !.done = b]) PROVE RInv'
    <3>1. PICK a : a = [worker[x] EXCEPT !.pc = "drainPods"]
      BY Zenon
    <3>2. PICK u : u = [worker[x] EXCEPT !.pc = "drainPods", !.done = b]
      OBVIOUS
    <3>3. u = [a EXCEPT !.done = b]
      BY <3>1, <3>2
    <3>4. a \in Local /\ a.pc = "drainPods" /\ a.l = worker[x].l /\ a.reply = worker[x].reply /\ a.todo = worker[x].todo
      BY <2>1, <2>2, <3>1, MovedIs, Zenon
    <3>5. u \in Local /\ u.pc = a.pc /\ u.l = a.l /\ u.reply = a.reply /\ u.todo = a.todo
      BY <3>3, <3>4, LocalIs, Zenon
    <3>6. u.pc = "drainPods" /\ u.l = L(x) /\ u.reply = worker[x].reply /\ u.todo = worker[x].todo
      BY <3>4, <3>5, Zenon DEF L
    <3>7. Knows(x, u)
      BY <2>1, <2>2, <2>3, <3>6, Zenon DEF Knows, L
    <3> QED BY <2>4, <2>5, <3>2, <3>5, <3>6, <3>7, <1>KeepStep, Zenon
  <2>6. ASSUME Return(x) PROVE RInv'
    BY <2>1, <2>4, <2>6, <1>KeepStep, Zenon DEF Return
  <2>7. (\A j \in Job : jobs[j] \in {"none", "gone"}) \in BOOLEAN
    BY Zenon
  <2> QED BY <2>5, <2>6, <2>7, Zenon DEF DrainJobs
\* drainPods,
<1>RDrainPods. ASSUME RInv, NEW x \in Worker, DrainPods(x)
               PROVE  RInv'
  <2> USE <1>RDrainPods
  <2>1. /\ Knows(x, worker[x]) /\ worker[x].pc = "drainPods" /\ target \in TargetObject /\ worker[x] \in Local
        /\ Idle \in Local /\ Knows(x, Idle) /\ Idle.l = NoBerth /\ Sound(L(x)) /\ Fresh(L(x))
        /\ pods \in [Pod -> PodObject] /\ L(x).w.pods \subseteq Pod
    BY CopyIs, Nothing, Zenon DEF DrainPods, At, Berth, Workload
  <2>2. /\ "drainPods" \notin {"idle", "ungate"} /\ "drainPods" \notin {"idle", "permit", "ungate"}
        /\ "release" \in PC /\ "release" \notin {"verify", "ungate"} /\ "release" # "acquire"
        /\ "release" # "stop" /\ "drainPods" \in DrainPC /\ "release" # "verify" /\ "release" # "ungate"
        /\ "release" \notin {"verify", "acquire"} /\ FALSE \in BOOLEAN
    BY DEF PC, DrainPC
  <2>3. x # "pods" /\ L(x).w.phase = "Stopping" /\ L(x).fin /\ L(x).exists
    BY <2>1, <2>2, Zenon DEF Knows, L
  <2>4. LeaseTypes' /\ setup' = setup /\ orphans' \in SUBSET Orphan /\ ident' = ident
        /\ berth' = berth /\ target' \in TargetObject /\ late' = late
    BY <2>1, <1>OthersKept, Zenon DEF DrainPods
  <2>5. PICK S : pods' = Deleted(S)
    BY Zenon DEF DrainPods
  <2>6. pods' \in [Pod -> PodObject] /\ Onward /\ \A q \in Pod : Runnable(q)' => Runnable(q)
    BY <2>1, <2>5, DeletedIs, Zenon
  <2>7. ASSUME Return(x) PROVE RInv'
    BY <2>1, <2>4, <2>6, <2>7, <1>PodsStep, Zenon DEF Return, Goto
  <2>8. ASSUME Drained, Goto(x, [worker[x] EXCEPT !.pc = "release", !.done = FALSE]) PROVE RInv'
    <3>1. PICK a : a = [worker[x] EXCEPT !.pc = "release"]
      BY Zenon
    <3>2. PICK u : u = [worker[x] EXCEPT !.pc = "release", !.done = FALSE]
      OBVIOUS
    <3>3. u = [a EXCEPT !.done = FALSE]
      BY <3>1, <3>2
    <3>4. a \in Local /\ a.pc = "release" /\ a.l = worker[x].l /\ a.reply = worker[x].reply /\ a.todo = worker[x].todo
      BY <2>1, <2>2, <3>1, MovedIs, Zenon
    <3>5. u \in Local /\ u.pc = a.pc /\ u.l = a.l /\ u.reply = a.reply /\ u.todo = a.todo
      BY <2>2, <3>3, <3>4, LocalIs, Zenon
    <3>6. u.pc = "release" /\ u.l = L(x) /\ u.reply = worker[x].reply /\ u.todo = worker[x].todo
      BY <3>4, <3>5, Zenon DEF L
    <3>7. \A p \in L(x).w.pods : Over(p)
      <4>1. ASSUME NEW p \in Pod, Known(p) PROVE Over(p)
        BY <2>8, <4>1 DEF Drained, Stored, Terminal, Over, Known
      <4> QED BY <2>1, <4>1, Zenon DEF Sound
    <3>8. Knows(x, u)
      BY <2>1, <2>2, <2>3, <3>6, <3>7, Zenon DEF Knows, L
    <3> QED BY <2>1, <2>4, <2>6, <2>8, <3>2, <3>5, <3>6, <3>8, <1>PodsStep, Zenon DEF Goto
  <2> QED BY <2>7, <2>8, Zenon DEF DrainPods
\* the Release,
<1>RRelease. ASSUME RInv, NEW x \in Worker, Release(x)
             PROVE  RInv'
  <2> USE <1>RRelease
  <2>1. /\ Knows(x, worker[x]) /\ worker[x].pc = "release" /\ target \in TargetObject /\ setup \in Setups
        /\ Idle \in Local /\ Knows(x, Idle) /\ LeaseTypes /\ orphans \in SUBSET Orphan
        /\ L(x).w.holder \in Holder \cup {NoHolder} /\ L(x).w.token \in Nat /\ Sound(L(x))
        /\ Identity \subseteq Holder
    BY CopyIs, Nothing, SetupTypes, Zenon DEF Release, At, RInv, ObjectTypes, Workload
  <2>2. /\ "release" \notin {"idle", "ungate"} /\ "release" \notin {"idle", "permit", "ungate"}
        /\ "clear" \in PC /\ "clear" \notin {"verify", "ungate"} /\ "clear" # "acquire"
        /\ "clear" # "stop" /\ "release" \in DrainPC /\ "release" \in {"release", "clear"}
    BY DEF PC, DrainPC
  <2>3. x # "pods" /\ L(x).w.phase = "Stopping" /\ \A p \in L(x).w.pods : Over(p)
    BY <2>1, <2>2, Zenon DEF Knows, L
  <2>4. setup' = setup /\ ident' = ident /\ clock' = clock
        /\ berth' = berth /\ target' \in TargetObject /\ pods' = pods /\ late' = late
    BY <2>1, Zenon DEF Release, objects
  <2>5. ASSUME LeaseTypes', orphans' \in SUBSET Orphan, Step(x, "clear") PROVE RInv'
    <3>1. PICK u : u = [worker[x] EXCEPT !.pc = "clear"]
      BY Zenon
    <3>2. u \in Local /\ u.l = L(x) /\ Knows(x, u)
      BY <2>1, <2>2, <2>3, <3>1, <1>KnowsMoved, Zenon
    <3> QED BY <2>4, <2>5, <3>1, <3>2, <1>KeepStep, Zenon DEF Step
  <2>6. ASSUME UNCHANGED leaseVars, Step(x, "clear"), UNCHANGED orphans PROVE RInv'
    BY <2>1, <2>4, <2>5, <2>6, LeaseKept, Zenon
  <2>7. ASSUME Releases(L(x).w.holder, L(x).w.token), Step(x, "clear"), UNCHANGED orphans PROVE RInv'
    BY <2>1, <2>4, <2>5, <2>7, LeaseKept, Zenon
  <2>8. ASSUME NEW m \in orphans, Grants(m.holder), orphans' = orphans \ {m}, Step(x, "clear") PROVE RInv'
    <3>1. m.holder \in Holder
      BY <2>1, <2>8, Zenon DEF Orphan
    <3> QED BY <2>1, <2>4, <2>5, <2>8, <3>1, LeaseKept, Zenon
  <2>9. ASSUME L(x).w.token > 0, UNCHANGED leaseVars, Return(x),
               orphans' = orphans \cup {[op |-> "release", holder |-> L(x).w.holder, token |-> L(x).w.token]}
        PROVE  RInv'
    <3>1. L(x).w.holder \in Holder
      BY <2>1, <2>9, Zenon DEF Sound
    <3>2. PICK m : m = [op |-> "release", holder |-> L(x).w.holder, token |-> L(x).w.token]
      BY Zenon
    <3>3. m \in Orphan
      BY <2>1, <3>1, <3>2, Zenon DEF Orphan
    <3>4. orphans' \in SUBSET Orphan /\ LeaseTypes'
      BY <2>1, <2>4, <2>9, <3>2, <3>3, LeaseKept, Zenon
    <3> QED BY <2>1, <2>4, <2>9, <3>4, <1>KeepStep, Zenon DEF Return
  <2> QED BY <2>6, <2>7, <2>8, <2>9, Zenon DEF Release
\* the last write of the cleanup,
<1>RClear. ASSUME RInv, NEW x \in Worker, Clear(x)
           PROVE  RInv'
  <2> USE <1>RClear
  <2>1. /\ Knows(x, worker[x]) /\ worker[x].pc = "clear" /\ setup \in Setups /\ Idle \in Local /\ Knows(x, Idle)
        /\ Idle.l = NoBerth /\ Sound(L(x)) /\ Fresh(L(x)) /\ L(x) \in Berth /\ L(x).rv <= berth.rv
        /\ L(x).w.uid \in Target \cup {None}
    BY CopyIs, Nothing, Zenon DEF Clear, At, Workload
  <2>2. /\ "clear" \notin {"idle", "ungate"} /\ "clear" \in DrainPC /\ "clear" \in {"release", "clear"}
    BY DEF DrainPC
  <2>3. L(x).w.phase = "Stopping" /\ L(x).fin /\ L(x).exists /\ \A p \in L(x).w.pods : Over(p)
    BY <2>1, <2>2, Zenon DEF Knows, L
  <2>4. PICK l : l = L(x)
    OBVIOUS
  <2>5. ASSUME NEW k \in Berth, k.rv = l.rv, k.fin, Sound(k), Cleared(k), Save(x, k, Idle) PROVE RInv'
    <3>1. Current(k) => Follows(k)
      BY <2>1, <2>3, <2>4, <2>5, <1>CurrentFollows, Zenon
    <3> QED BY <2>1, <2>4, <2>5, <3>1, <1>SaveStep, Zenon DEF Clear
  <2>6. ASSUME Save(x, [l EXCEPT !.exists = FALSE], Idle) PROVE RInv'
    <3>1. PICK k : k = [l EXCEPT !.exists = FALSE]
      BY Zenon
    <3>2. k \in Berth /\ ~k.exists /\ k.rv = l.rv /\ k.fin = l.fin /\ k.w = l.w
      BY <2>1, <2>4, <3>1, LeaseIs, ZenonT(60)
    <3>3. Sound(k) /\ Cleared(k) /\ k.fin
      BY <2>1, <2>3, <2>4, <3>2, Zenon DEF Sound, Cleared
    <3> QED BY <2>5, <2>6, <3>1, <3>2, <3>3, Zenon
  <2>7. ASSUME Save(x, [l EXCEPT !.w = [NoWorkload EXCEPT !.uid = l.w.uid]], Idle) PROVE RInv'
    <3>1. PICK v : v = [NoWorkload EXCEPT !.uid = l.w.uid]
      BY Zenon
    <3>2. NoWorkload \in Workload /\ l.w.uid \in Target \cup {None}
      BY <2>1, <2>4, NothingRecorded, Zenon
    <3>3. v \in Workload /\ v.phase = "" /\ v.token = 0 /\ v.pods = {}
      BY <3>1, <3>2, WorkloadIs, Zenon
    <3>4. PICK k : k = [l EXCEPT !.w = v]
      BY Zenon
    <3>5. k \in Berth /\ k.w = v /\ k.rv = l.rv /\ k.fin = l.fin /\ k.exists = l.exists
      <4>1. l \in Berth /\ v \in Workload
        BY <2>1, <2>4, <3>3, Zenon
      <4>2. LET n == [l EXCEPT !.w = v]
            IN n \in Berth /\ n.w = v /\ n.rv = l.rv /\ n.fin = l.fin /\ n.exists = l.exists
        BY <4>1, LeaseIs, Zenon
      <4> QED BY <3>4, <4>2, Zenon
    <3>6. ~(0 > 0) /\ "" # "Active"
      OBVIOUS
    <3>7. Sound(k) /\ Cleared(k) /\ k.fin
      BY <2>3, <2>4, <3>3, <3>5, <3>6, Zenon DEF Sound, Cleared
    <3> QED BY <2>5, <2>7, <3>1, <3>4, <3>5, <3>7, Zenon
  <2> QED BY <2>4, <2>6, <2>7, Zenon DEF Clear
\* and the death of a reconciler.
<1>RFail. ASSUME RInv, NEW x \in Worker, Fail(x)
          PROVE  RInv'
  <2> USE <1>RFail
  <2>1. target \in TargetObject /\ Idle \in Local /\ Knows(x, Idle)
    BY CopyIs, Nothing, Zenon
  <2>2. LeaseTypes' /\ setup' = setup /\ orphans' \in SUBSET Orphan /\ ident' = ident
        /\ berth' = berth /\ target' \in TargetObject /\ pods' = pods /\ late' = late
    BY <2>1, <1>OthersKept, Zenon DEF Fail, objects
  <2> QED BY <2>1, <2>2, <1>KeepStep, Zenon DEF Fail, Return
\* A step of the world outside that leaves the lease and the reconcilers alone.
<1>WorldStep. ASSUME RInv, LeaseTypes', setup' = setup, berth' = berth,
                     pods' \in [Pod -> PodObject], Onward, \A p \in Pod : Runnable(p)' => Runnable(p) \/ Registered(p),
                     target' \in TargetObject, orphans' \in SUBSET Orphan, ident' = ident,
                     worker' = worker, late' \subseteq late \cup Harmless
              PROVE  RInv'
  <2> USE <1>WorldStep
  <2>1. "lease" \in Worker
    BY DEF Worker
  <2>2. PICK v : v = worker["lease"]
    OBVIOUS
  <2>3. v \in Local /\ Knows("lease", v) /\ Fresh(v.l) /\ worker \in [Worker -> Local]
    BY <2>1, <2>2, CopyIs, Zenon DEF L, RInv, ObjectTypes
  <2>4. worker' = [worker EXCEPT !["lease"] = v]
    BY <2>1, <2>2, <2>3
  <2> QED BY <2>1, <2>3, <2>4, <1>PodsStep, Zenon
\* The case where the Pods stay as they are, too.
<1>QuietStep. ASSUME RInv, LeaseTypes', setup' = setup, berth' = berth, pods' = pods,
                     target' \in TargetObject, orphans' \in SUBSET Orphan, ident' = ident,
                     worker' = worker, late' \subseteq late \cup Harmless
              PROVE  RInv'
  <2> USE <1>QuietStep
  <2>1. pods' \in [Pod -> PodObject] /\ Onward /\ \A p \in Pod : Runnable(p)' => Runnable(p)
    BY Zenon DEF Onward, Over, Known, Runnable, RInv, ObjectTypes
  <2> QED BY <2>1, <1>WorldStep, Zenon
\* A step of the world outside that replaces the lease.
<1>BerthStep. ASSUME RInv, LeaseTypes', setup' = setup, NEW k \in Berth, berth' = k, k.rv > berth.rv, Sound(k),
                     \A p \in Pod : Registered(p) => Over(p) \/ (k.exists /\ p \in k.w.pods),
                     pods' = pods, target' = target, orphans' = orphans, ident' = ident,
                     worker' = worker, late' \subseteq late \cup CreateWrite
              PROVE  RInv'
  <2> USE <1>BerthStep
  <2>1. ObjectTypes /\ Identity' = Identity /\ berth \in Berth
    BY Zenon DEF RInv, Identity, ObjectTypes
  <2>2. berth'.rv > 0 /\ berth.rv < berth'.rv
    BY <2>1 DEF Berth
  <2>3. ObjectTypes'
    BY <2>1, <2>2, Zenon DEF ObjectTypes
  <2>4. Onward /\ \A p : Over(p)' = Over(p) /\ Runnable(p)' = Runnable(p)
    BY Zenon DEF Onward, Over, Known, Runnable
  <2>5. Sound(berth)'
    <3>1. Sound(k)'
      BY <2>4, <1>Lasting, Zenon
    <3> QED BY <3>1, Zenon DEF Sound
  <2>6. \A p \in Pod : Registered(p) => Over(p)' \/ Registered(p)'
    BY <2>4, Zenon DEF Registered
  <2>7. ASSUME NEW m \in late', m \notin late PROVE m.kind # "lease" /\ m.kind # "ungate"
    <3>1. m \in CreateWrite
      BY <2>7, Zenon
    <3> QED BY <3>1 DEF CreateWrite
  <2> QED BY <2>2, <2>3, <2>4, <2>5, <2>6, <2>7, <1>Glue, Zenon
\* Requests that arrive late.
<1>RArrive. ASSUME RInv, NEW m \in late, Arrive(m)
            PROVE  RInv'
  <2> USE <1>RArrive
  <2>1. /\ setup \in Setups /\ berth \in Berth /\ target \in TargetObject /\ pods \in [Pod -> PodObject] /\ berth.rv \in Nat
        /\ m \in LeaseWrite \cup TargetWrite \cup UngateWrite \cup CreateWrite
    BY Zenon DEF RInv, ObjectTypes, Berth
  <2>2. LeaseTypes' /\ setup' = setup /\ orphans' \in SUBSET Orphan /\ ident' = ident
        /\ worker' = worker /\ late' \subseteq late /\ orphans' = orphans
    BY <1>OthersKept, Zenon DEF Arrive
  <2>3. ASSUME LateLease(m) PROVE RInv'
    <3>1. m.l \in Berth /\ Write(m.l) /\ Accepts(m.l) /\ berth' = Written(m.l) /\ pods' = pods /\ target' = target
      BY <2>1, <2>3, Zenon DEF LateLease, LeaseWrite, TargetWrite, UngateWrite, CreateWrite, RInv
    <3>2. PICK k : k = Written(m.l)
      OBVIOUS
    <3>3. /\ k \in Berth /\ k.w = m.l.w /\ k.exists = m.l.exists /\ Sound(k)
          /\ (m.l # berth => k.rv = m.l.rv + 1) /\ (m.l = berth => k = berth)
      BY <2>1, <3>1, <3>2, WrittenIs, Zenon DEF Write
    <3>4. CASE m.l = berth
      BY <2>1, <2>2, <3>1, <3>2, <3>3, <3>4, <1>QuietStep, Zenon
    <3>5. CASE m.l # berth
      <4>1. m.l.rv = berth.rv /\ berth.exists /\ Follows(m.l)
        BY <3>1, Zenon DEF Accepts, Write, Current
      <4>2. k.rv > berth.rv
        BY <2>1, <3>3, <3>5, <4>1
      <4>3. \A p \in Pod : Registered(p) => Over(p) \/ (k.exists /\ p \in k.w.pods)
        BY <3>3, <4>1, Zenon DEF Registered, Follows
      <4> QED BY <2>2, <3>1, <3>2, <3>3, <4>2, <4>3, <1>BerthStep, Zenon
    <3> QED BY <3>4, <3>5, Zenon
  <2>4. ASSUME LateTarget(m) PROVE RInv'
    <3>1. m.t \in TargetObject
      BY <2>1, <2>4, Zenon DEF LateTarget, LeaseWrite, TargetWrite, UngateWrite, CreateWrite
    <3>2. target' \in TargetObject /\ berth' = berth /\ pods' = pods
      BY <2>4, <3>1, <1>TargetIs, Zenon DEF LateTarget
    <3> QED BY <2>2, <3>2, <1>QuietStep, Zenon
  <2>5. ASSUME LateUngate(m) PROVE RInv'
    <3>1. m.pod \in Pod /\ Ungates(m) /\ m.admitted /\ pods[m.pod].st = "gated" /\ Opened(m.pod)
          /\ berth' = berth /\ target' = target
      BY <2>1, <2>5, Zenon DEF LateUngate, LeaseWrite, TargetWrite, UngateWrite, CreateWrite, RInv
    <3>2. "open" \in PodStates /\ pods[m.pod].st \notin {"done", "gone"} /\ "open" \notin {"none", "creating"}
      BY <3>1 DEF PodStates
    <3>3. Registered(m.pod)
      BY <3>1, <3>2, Zenon DEF Ungates, Over
    <3>4. pods' \in [Pod -> PodObject] /\ Onward /\ \A q \in Pod : q # m.pod => (Runnable(q)' => Runnable(q))
      BY <2>1, <3>1, <3>2, MovedOnward, Zenon DEF Opened
    <3> QED BY <2>1, <2>2, <3>1, <3>3, <3>4, <1>WorldStep, Zenon
  <2>6. ASSUME LateCreate(m) PROVE RInv'
    <3>1. m.uid \in Target
      BY <2>1, <2>6, Zenon DEF LateCreate, LeaseWrite, TargetWrite, UngateWrite, CreateWrite
    <3>2. PICK a \in BOOLEAN : target' = [uid |-> m.uid, rv |-> 1, bound |-> TRUE, active |-> a, fence |-> 0]
      BY <2>6, Zenon DEF LateCreate
    <3>3. target' \in TargetObject
      BY <3>1, <3>2 DEF TargetObject
    <3> QED BY <2>2, <2>6, <3>3, <1>QuietStep, Zenon DEF LateCreate
  <2> QED BY <2>3, <2>4, <2>5, <2>6, Zenon DEF Arrive
\* Admission of a removal of the gate finds the Pod registered.
<1>RAdmit. ASSUME RInv, NEW m \in late, Admit(m)
           PROVE  RInv'
  <2> USE <1>RAdmit
  <2>1. /\ setup \in Setups /\ target \in TargetObject /\ ObjectTypes
        /\ m \in LeaseWrite \cup TargetWrite \cup UngateWrite \cup CreateWrite
    BY Zenon DEF RInv, ObjectTypes
  <2>2. LeaseTypes' /\ setup' = setup /\ orphans' \in SUBSET Orphan /\ ident' = ident
        /\ worker' = worker /\ berth' = berth /\ target' = target /\ pods' = pods
    BY <1>OthersKept, Zenon DEF Admit, objects
  <2>3. PICK n : n = [m EXCEPT !.admitted = TRUE]
    BY Zenon
  <2>4. late' \subseteq late \cup {n}
    BY <2>3, Zenon DEF Admit
  <2>5. ASSUME m.kind = "target" PROVE RInv'
    <3>1. m \in TargetWrite
      BY <2>1, <2>5 DEF LeaseWrite, UngateWrite, CreateWrite
    <3>2. n \in TargetWrite
      <4>1. \A b \in BOOLEAN : [m EXCEPT !.admitted = b] \in TargetWrite
        BY <3>1 DEF TargetWrite
      <4> QED BY <2>3, <4>1, Zenon
    <3> QED BY <2>1, <2>2, <2>4, <3>2, <1>QuietStep, Zenon DEF Harmless
  <2>6. ASSUME m.kind = "ungate", PermitValid(m.pod) PROVE RInv'
    <3>1. m \in UngateWrite
      BY <2>1, <2>6 DEF LeaseWrite, TargetWrite, CreateWrite
    <3>2. n \in UngateWrite /\ n.pod = m.pod /\ n.kind = "ungate"
      <4>1. \A b \in BOOLEAN : LET u == [m EXCEPT !.admitted = b]
                               IN u \in UngateWrite /\ u.pod = m.pod /\ u.kind = "ungate"
        BY <2>6, <3>1 DEF UngateWrite
      <4> QED BY <2>3, <4>1, Zenon
    <3>3. Registered(m.pod)
      BY <2>6, Zenon DEF PermitValid, Registered, activeAt
    <3>4. Registered(n.pod)'
      BY <2>2, <3>2, <3>3, Zenon DEF Registered
    <3>5. ObjectTypes' /\ Onward /\ \A q \in Pod : Runnable(q)' => Runnable(q)
      BY <2>1, <2>2, <2>4, <3>2, Zenon DEF ObjectTypes, Identity, Onward, Over, Known, Runnable
    <3>6. n.kind # "lease"
      BY <3>2
    <3>7. \A x \in Worker : worker'[x] = worker[x]
      BY <2>2, Zenon
    <3>8. \A k \in late' : k \in late \/ (k.kind # "lease" /\ Registered(k.pod)')
      BY <2>4, <3>4, <3>6, Zenon
    <3>9. \A k \in late' : \/ k \in late
                           \/ (k.kind = "lease" => Write(k.l)') /\ (k.kind = "ungate" => Ungates(k)')
      BY <3>8, Zenon DEF Ungates
    <3> QED BY <2>2, <3>5, <3>7, <3>9, <1>Glue, Zenon
  <2> QED BY <2>5, <2>6, Zenon DEF Admit
\* Dropping a request changes nothing.
<1>RReject. ASSUME RInv, NEW m \in late, Reject(m)
            PROVE  RInv'
  <2> USE <1>RReject
  <2>1. target \in TargetObject
    BY Zenon DEF RInv, ObjectTypes
  <2>2. LeaseTypes' /\ setup' = setup /\ orphans' \in SUBSET Orphan /\ ident' = ident
        /\ worker' = worker /\ berth' = berth /\ target' = target /\ pods' = pods
    BY <1>OthersKept, Zenon DEF Reject, objects
  <2> QED BY <2>1, <2>2, <1>QuietStep, Zenon DEF Reject
\* What happens at the service alone is of no account.
<1>RService. ASSUME RInv, Rival \/ Tick \/ \E m \in orphans : ServeOrphan(m)
             PROVE  RInv'
  <2> USE <1>RService
  <2>1. target \in TargetObject /\ setup \in Setups /\ LeaseTypes /\ orphans \in SUBSET Orphan
    BY Zenon DEF RInv, ObjectTypes
  <2>2. setup' = setup /\ berth' = berth /\ pods' = pods /\ target' = target /\ ident' = ident
        /\ worker' = worker /\ late' = late /\ orphans' \in SUBSET Orphan
    BY <2>1, Zenon DEF Rival, Tick, ServeOrphan, objects, System
  <2>3. LeaseTypes'
    <3>1. ASSUME NEW m \in orphans, ServeOrphan(m) PROVE LeaseTypes'
      <4>1. m.holder \in Holder /\ clock' = clock
        BY <2>1, <3>1, Zenon DEF Orphan, ServeOrphan
      <4>2. ASSUME Denies(m.holder) PROVE LeaseTypes'
        BY <2>1, <4>1, <4>2, LeaseKept DEF Denies
      <4> QED BY <2>1, <3>1, <4>1, <4>2, LeaseKept, Zenon DEF ServeOrphan
    <3> QED BY <2>1, <3>1, LeaseKept, Zenon
  <2> QED BY <2>1, <2>2, <2>3, <1>QuietStep, Zenon
\* Jobs are of no account to the Pods that are registered.
<1>RJobs. ASSUME RInv, \/ \E j \in Job : JobReconcile(j)
                       \/ \E j, from, to : Jobs(j, from, to)
          PROVE  RInv'
  <2> USE <1>RJobs
  <2>1. target \in TargetObject
    BY Zenon DEF RInv, ObjectTypes
  <2>2. UNCHANGED <<service, orphans, ident>> /\ berth' = berth /\ target' = target /\ pods' = pods
        /\ worker' = worker /\ late' = late
    BY Zenon DEF JobReconcile, Jobs, System
  <2>3. LeaseTypes' /\ setup' = setup /\ orphans' \in SUBSET Orphan /\ ident' = ident
    BY <2>2, <1>OthersKept, Zenon
  <2> QED BY <2>1, <2>2, <2>3, <1>QuietStep, Zenon
\* A user's write to the lease that keeps the status.
<1>UserStep. ASSUME RInv, NEW l \in Berth, UserWrites(l), System, l.w = berth.w, l.fin = berth.fin,
                    l.exists \/ berth.w.pods = {}
             PROVE  RInv'
  <2> USE <1>UserStep
  <2>1. berth \in Berth /\ berth.rv \in Nat /\ Sound(berth)
    BY Zenon DEF RInv, ObjectTypes, Berth
  <2>2. PICK n, k : n = berth.rv + 1 /\ k = [l EXCEPT !.rv = n]
    BY Zenon
  <2>3. n \in Nat /\ n > berth.rv
    BY <2>1, <2>2
  <2>4. k \in Berth /\ k.exists = l.exists /\ k.rv = n /\ k.fin = l.fin /\ k.w = l.w
    BY <2>2, <2>3, LeaseIs, Zenon
  <2>5. berth' = k /\ UNCHANGED <<service, target, pods, late, worker, orphans, ident>>
    BY <2>2, Zenon DEF UserWrites, System
  <2>6. Sound(k)
    BY <2>1, <2>4, Zenon DEF Sound
  <2>7. LeaseTypes' /\ setup' = setup
    BY <2>5, <1>OthersKept, Zenon
  <2>8. \A p \in Pod : Registered(p) => k.exists /\ p \in k.w.pods
    BY <2>4, Zenon DEF Registered
  <2> QED BY <2>3, <2>4, <2>5, <2>6, <2>7, <2>8, <1>BerthStep, Zenon
\* Users delete and edit the lease, create, delete and scale its target.
<1>RUser. ASSUME RInv, User
          PROVE  RInv'
  <2> USE <1>RUser
  <2>1. /\ setup \in Setups /\ berth \in Berth /\ target \in TargetObject /\ berth.rv \in Nat /\ Sound(berth)
        /\ berth.valid \in BOOLEAN /\ berth.w.pods \subseteq Pod
    BY Zenon DEF RInv, ObjectTypes, Berth, Workload
  <2>2. ASSUME DeleteLease PROVE RInv'
    <3>1. CASE berth.fin
      <4>1. PICK k : k = [berth EXCEPT !.deleting = TRUE]
        BY Zenon
      <4>2. k \in Berth /\ k.exists = berth.exists /\ k.rv = berth.rv /\ k.fin = berth.fin /\ k.w = berth.w
        BY <2>1, <4>1, LeaseIs, Zenon
      <4>3. UserWrites(k) /\ System /\ berth.exists
        BY <2>2, <3>1, <4>1, Zenon DEF DeleteLease, UserWrites
      <4> QED BY <4>2, <4>3, <1>UserStep, Zenon
    <3>2. CASE ~berth.fin
      <4>1. PICK k : k = [berth EXCEPT !.exists = FALSE]
        BY Zenon
      <4>2. k \in Berth /\ ~k.exists /\ k.rv = berth.rv /\ k.fin = berth.fin /\ k.w = berth.w
        BY <2>1, <4>1, LeaseIs, Zenon
      <4>3. UserWrites(k) /\ System
        BY <2>2, <3>2, <4>1, Zenon DEF DeleteLease
      <4>4. berth.w.pods = {}
        <5>1. berth.w.token = 0
          BY <2>1, <3>2, Zenon DEF Sound
        <5>2. ~(0 > 0)
          OBVIOUS
        <5> QED BY <2>1, <5>1, <5>2, Zenon DEF Sound
      <4> QED BY <4>2, <4>3, <4>4, <1>UserStep, Zenon
    <3> QED BY <3>1, <3>2, Zenon
  <2>3. ASSUME EditSpec PROVE RInv'
    <3>1. PICK k : k = [berth EXCEPT !.valid = ~berth.valid]
      BY Zenon
    <3>2. k \in Berth /\ k.exists = berth.exists /\ k.fin = berth.fin /\ k.w = berth.w
      <4>1. (~berth.valid) \in BOOLEAN
        OBVIOUS
      <4> QED BY <2>1, <3>1, <4>1, LeaseIs, Zenon
    <3>3. UserWrites(k) /\ System /\ berth.exists
      BY <2>3, <3>1, Zenon DEF EditSpec, UserWrites
    <3> QED BY <3>2, <3>3, <1>UserStep, Zenon
  <2>4. ASSUME DeleteTarget PROVE RInv'
    <3>1. UNCHANGED <<service, orphans, ident>> /\ berth' = berth /\ target' = NoTarget /\ pods' = pods
          /\ worker' = worker /\ late' = late
      BY <2>4, Zenon DEF DeleteTarget, System
    <3> QED BY <2>1, <3>1, <1>TargetIs, <1>OthersKept, <1>QuietStep, Zenon
  <2>5. ASSUME NEW a \in BOOLEAN, Scale(a) PROVE RInv'
    <3>1. UNCHANGED <<service, orphans, ident>> /\ berth' = berth /\ target' = target /\ pods' = pods
          /\ worker' = worker
      BY <2>5, Zenon DEF Scale, System, objects
    <3>2. PICK t : t = [target EXCEPT !.active = a]
      BY Zenon
    <3>3. t \in TargetObject
      BY <2>1, <3>2, <1>TargetIs, Zenon
    <3>4. PICK m : m = [kind |-> "target", t |-> t, admitted |-> TRUE]
      BY Zenon
    <3>5. m \in TargetWrite
      BY <3>3, <3>4 DEF TargetWrite
    <3>6. late' = late \cup {m}
      BY <2>5, <3>2, <3>4, Zenon DEF Scale
    <3>7. LeaseTypes' /\ setup' = setup /\ orphans' \in SUBSET Orphan /\ ident' = ident
      BY <3>1, <1>OthersKept, Zenon
    <3> QED BY <2>1, <3>1, <3>5, <3>6, <3>7, <1>QuietStep, Zenon DEF Harmless
  <2>6. ASSUME NEW u \in Target \cap Created, CreateTarget(u) PROVE RInv'
    <3>1. PICK n, v : n = berth.rv + 1 /\ v = [NoWorkload EXCEPT !.uid = u]
      BY Zenon
    <3>2. v \in Workload /\ v.phase = "" /\ v.token = 0 /\ v.pods = {}
      BY <3>1, NothingRecorded, WorkloadIs, Zenon
    <3>3. n \in Nat /\ n > berth.rv
      BY <2>1, <3>1
    <3>4. PICK k : k = [berth EXCEPT !.w = v]
      BY Zenon
    <3>5. k \in Berth /\ k.w = v /\ k.exists = berth.exists
      BY <2>1, <3>2, <3>4, LeaseIs, Zenon
    <3>6. PICK b : b = [k EXCEPT !.rv = n]
      BY Zenon
    <3>7. b \in Berth /\ b.w = v /\ b.rv = n
      BY <3>3, <3>5, <3>6, LeaseIs, Zenon
    <3>8. b = [berth EXCEPT !.w = v, !.rv = n]
      BY <3>4, <3>6
    <3>9. berth' = b /\ berth.w.pods = {}
      BY <2>6, <3>1, <3>8, Zenon DEF CreateTarget, recordTarget
    <3>10. Sound(b)
      <4>1. ~(0 > 0) /\ "" # "Active"
        OBVIOUS
      <4> QED BY <3>2, <3>7, <4>1, Zenon DEF Sound
    <3>11. UNCHANGED <<service, orphans, ident>> /\ target' = target /\ pods' = pods /\ worker' = worker
      BY <2>6, Zenon DEF CreateTarget, System
    <3>12. late' \subseteq late \cup CreateWrite
      <4>1. [kind |-> "create", uid |-> u] \in CreateWrite
        BY <2>6 DEF CreateWrite
      <4> QED BY <2>6, <4>1, Zenon DEF CreateTarget
    <3>13. LeaseTypes' /\ setup' = setup /\ orphans' = orphans /\ ident' = ident
      BY <3>11, <1>OthersKept, Zenon
    <3>14. \A p \in Pod : ~Registered(p)
      BY <3>9, Zenon DEF Registered
    <3> QED BY <3>3, <3>7, <3>9, <3>10, <3>11, <3>12, <3>13, <3>14, <1>BerthStep, Zenon
  <2> QED BY <2>2, <2>3, <2>4, <2>5, <2>6, Zenon DEF User
\* Kubernetes creates, binds and removes Pods and Jobs.
<1>RKubernetes. ASSUME RInv, Kubernetes
                PROVE  RInv'
  <2> USE <1>RKubernetes
  <2>1. target \in TargetObject /\ pods \in [Pod -> PodObject] /\ target.uid \in Target \cup {None}
    BY Zenon DEF RInv, ObjectTypes, TargetObject
  <2>2. ASSUME UNCHANGED <<service, orphans, ident>>, berth' = berth, target' = target,
               worker' = worker, late' = late, pods' \in [Pod -> PodObject], Onward,
               \A p \in Pod : Runnable(p)' => Runnable(p)
        PROVE  RInv'
    BY <2>1, <2>2, <1>OthersKept, <1>WorldStep, Zenon
  <2>3. ASSUME NEW p \in Pod, NEW from, NEW to \in PodStates, Pods(p, from, to),
               from \notin {"done", "gone"},
               from \notin {"none", "creating"} => to \notin {"none", "creating"},
               from \in {"open", "bound", "leaving"} \/ to \notin {"open", "bound", "leaving"}
        PROVE  RInv'
    <3>1. UNCHANGED <<service, orphans, ident>> /\ berth' = berth /\ target' = target
          /\ worker' = worker /\ late' = late /\ pods[p].st = from /\ pods' = [pods EXCEPT ![p].st = to]
      BY <2>3, Zenon DEF Pods, System
    <3>2. pods' \in [Pod -> PodObject] /\ Onward
          /\ (\A q \in Pod : q # p => (Runnable(q)' => Runnable(q)))
          /\ (to \notin {"open", "bound", "leaving"} => ~Runnable(p)')
      BY <2>1, <2>3, <3>1, MovedOnward, Zenon DEF Known
    <3>3. \A q \in Pod : Runnable(q)' => Runnable(q)
      BY <2>3, <3>1, <3>2, Zenon DEF Runnable
    <3> QED BY <2>2, <3>1, <3>2, <3>3, Zenon
  <2>4. ASSUME NEW p \in Pod, PodCreated(p) \/ PodBind(p) \/ PodFinish(p) \/ PodTerminated(p) PROVE RInv'
    <3>1. /\ "gated" \in PodStates /\ "creating" \notin {"done", "gone"}
          /\ "gated" \notin {"open", "bound", "leaving"} /\ "creating" \in {"none", "creating"}
      BY DEF PodStates
    <3>2. ASSUME PodCreated(p) PROVE RInv'
      BY <2>3, <3>1, <3>2, Zenon DEF PodCreated
    <3>3. /\ {"bound", "done", "gone"} \subseteq PodStates /\ {"open", "bound", "leaving"} \cap {"done", "gone"} = {}
          /\ "bound" \notin {"none", "creating"} /\ "done" \notin {"none", "creating"}
          /\ "gone" \notin {"none", "creating"}
      BY DEF PodStates
    <3> QED BY <2>3, <2>4, <3>2, <3>3, Zenon DEF PodBind, PodFinish, PodTerminated
  <2>5. ASSUME NEW p \in Pod, PodDelete(p) PROVE RInv'
    <3>1. UNCHANGED <<service, orphans, ident>> /\ berth' = berth /\ target' = target
          /\ worker' = worker /\ late' = late /\ pods' = Deleted({p})
      BY <2>5, Zenon DEF PodDelete, System
    <3>2. pods' \in [Pod -> PodObject] /\ Onward /\ \A q \in Pod : Runnable(q)' => Runnable(q)
      BY <2>1, <3>1, DeletedIs, Zenon
    <3> QED BY <2>2, <3>1, <3>2, Zenon
  <2>6. ASSUME NEW p \in Pod, PodAdmit(p) PROVE RInv'
    <3>1. UNCHANGED <<service, orphans, ident>> /\ berth' = berth /\ target' = target
          /\ worker' = worker /\ late' = late /\ pods[p].st = "none"
          /\ pods' = [pods EXCEPT ![p] = [st |-> "creating", root |-> target.uid]]
      BY <2>6, Zenon DEF PodAdmit, System
    <3>2. PICK o : o = [st |-> "creating", root |-> target.uid]
      BY Zenon
    <3>3. o \in PodObject /\ o.st = "creating"
      BY <2>1, <3>2 DEF PodObject, PodStates
    <3>4. pods' \in [Pod -> PodObject] /\ pods'[p] = o /\ \A q \in Pod : q # p => pods'[q] = pods[q]
      BY <2>1, <3>1, <3>2, <3>3, Zenon
    <3>5. "creating" \notin {"open", "bound", "leaving"} /\ "none" \notin {"done", "gone"} /\ "none" \in {"none", "creating"}
      OBVIOUS
    <3>6. Onward /\ \A q \in Pod : Runnable(q)' => Runnable(q)
      BY <3>1, <3>3, <3>4, <3>5, Zenon DEF Onward, Over, Known, Runnable
    <3> QED BY <2>2, <3>1, <3>4, <3>6, Zenon
  <2>7. ASSUME NEW j \in Job, JobCreate(j) \/ JobRemoved(j) PROVE RInv'
    BY <2>7, <1>RJobs, Zenon DEF JobCreate, JobRemoved
  <2> QED BY <2>4, <2>5, <2>6, <2>7, Zenon DEF Kubernetes
\* A restart forgets what the reconcilers knew.
<1>RReconfigure. ASSUME RInv, Reconfigure
                 PROVE  RInv'
  <2> USE <1>RReconfigure
  <2>1. setup \in Setups /\ ObjectTypes /\ LeaseTypes /\ berth \in Berth /\ berth.rv \in Nat /\ berth.rv > 0
    BY Zenon DEF RInv, ObjectTypes, Berth
  <2>2. UNCHANGED <<service, objects, late, orphans>> /\ ident' \in Identity /\ worker' = [x \in Worker |-> Idle]
    BY Zenon DEF Reconfigure
  <2>3. setup' = setup /\ berth' = berth /\ target' = target /\ pods' = pods /\ UNCHANGED <<leaseVars, clock>>
    BY <2>2 DEF service, objects
  <2>4. Idle \in Local /\ Idle.l = NoBerth /\ NoBerth.rv = 0 /\ \A x : Knows(x, Idle)
    BY <2>1, Nothing, Zenon
  <2>5. Identity' = Identity /\ LeaseTypes'
    BY <2>1, <2>3, LeaseKept, Zenon DEF Identity
  <2>6. worker' \in [Worker -> Local] /\ \A x \in Worker : worker'[x] = Idle
    BY <2>2, <2>4, Zenon
  <2>7. ObjectTypes'
    BY <2>1, <2>2, <2>3, <2>5, <2>6, Zenon DEF ObjectTypes
  <2>8. Onward /\ \A p \in Pod : Runnable(p)' => Runnable(p)
    BY <2>3, Zenon DEF Onward, Over, Known, Runnable
  <2>9. ASSUME NEW x \in Worker PROVE Copy(x)'
    <3>1. Knows(x, Idle)'
      BY <2>3, <2>4, <2>8, <1>Lasting, Zenon
    <3>2. NoBerth.rv <= berth.rv /\ NoBerth.rv # berth.rv
      BY <2>1, <2>4
    <3>3. Fresh(Idle.l)'
      BY <2>3, <2>4, <3>2, Zenon DEF Fresh
    <3> QED BY <2>6, <3>1, <3>3, Zenon DEF Copy, Knows, Fresh
  <2> QED BY <2>2, <2>3, <2>5, <2>7, <2>8, <2>9, <1>Glue, Zenon
\* Stuttering.
<1>RStutter. ASSUME RInv, UNCHANGED vars
             PROVE  RInv'
  <2> USE <1>RStutter
  <2>1. target \in TargetObject
    BY Zenon DEF RInv, ObjectTypes
  <2>2. UNCHANGED <<service, orphans, ident>> /\ berth' = berth /\ target' = target /\ pods' = pods
        /\ worker' = worker /\ late' = late
    BY DEF vars, objects
  <2> QED BY <2>1, <2>2, <1>OthersKept, <1>QuietStep, Zenon
<1>Step. ASSUME RInv, [Next]_vars
         PROVE  RInv'
  <2> USE <1>Step
  <2>1. ASSUME NEW x \in Worker, LeaseStepOf(x) \/ StopStepOf(x) \/ PermitStepOf(x) \/ Fail(x) PROVE RInv'
    BY <2>1, <1>RReconcile, <1>RVerify, <1>RServeAcquire, <1>RAcquireError, <1>RAcquireReturns,
        <1>RActivate, <1>RListPods,
       <1>RStop, <1>RStopTarget, <1>RDrainJobs, <1>RDrainPods, <1>RRelease, <1>RClear, <1>RPermit, <1>RUngate, <1>RPodReconcile, <1>RFail,
       Zenon DEF LeaseStepOf, StopStepOf, PermitStepOf
  <2>2. ASSUME Act PROVE RInv'
    BY <2>1, <2>2, <1>RJobs, <1>RArrive, <1>RAdmit, <1>RService, <1>RUser, <1>RKubernetes,
        <1>RReconfigure, <1>RStutter,
       Zenon DEF Act, Finished
  <2> QED BY <2>2, <1>RReject, <1>RStutter, Zenon DEF Next
<1> QED BY <1>Step, Zenon

\* Nothing is registered and nobody runs at the start.
LEMMA RInit ==
  ASSUME Init, Counts
  PROVE  RInv
<1> USE OperatorAssumption
<1>1. setup \in Setups /\ LeaseInit /\ ident \in Identity /\ worker = [x \in Worker |-> Idle]
      /\ late = {} /\ orphans = {} /\ pods = [p \in Pod |-> [st |-> "none", root |-> None]]
  BY Zenon DEF Init
<1>2. LeaseTypes
  <2>1. holder = [k \in Key |-> NoHolder] /\ Lease \in Key
    BY <1>1 DEF LeaseInit, Unclaimed
  <2>2. holder[Lease] = NoHolder /\ holder \in [Key -> Holder \cup {NoHolder}]
    BY <2>1, Zenon
  <2>3. token \in [Key -> Nat] /\ expires \in [Key -> Int] /\ clock \in Int
    BY <1>1 DEF LeaseInit, Unclaimed
  <2> QED BY <2>2, <2>3, Zenon DEF LeaseTypes
<1>3. /\ Idle \in Local /\ Idle.l = NoBerth /\ NoBerth.rv = 0 /\ \A x : Knows(x, Idle)
      /\ NoBerth \in Berth /\ Sound(NoBerth) /\ NoWorkload \in Workload /\ NoBerth.w = NoWorkload
  BY <1>1, Nothing DEF NoBerth
<1>4. pods \in [Pod -> PodObject] /\ \A p \in Pod : ~Runnable(p)
  BY <1>1 DEF PodObject, PodStates, Runnable
<1>5. ASSUME berth = [NoBerth EXCEPT !.exists = TRUE, !.rv = 1],
             target \in {NoTarget} \cup
               {[uid |-> u, rv |-> 1, bound |-> FALSE, active |-> TRUE, fence |-> 0] : u \in Target \cap Created}
      PROVE  berth \in Berth /\ Sound(berth) /\ target \in TargetObject /\ berth.rv = 1
  <2>1. berth = [exists |-> TRUE, rv |-> 1, fin |-> FALSE, deleting |-> FALSE, valid |-> TRUE, w |-> NoWorkload]
    BY <1>5, Zenon DEF NoBerth
  <2>2. berth \in Berth /\ berth.w = NoWorkload /\ berth.rv = 1 /\ berth.fin = FALSE /\ NoBerth.fin = FALSE
    BY <1>3, <2>1 DEF Berth, NoBerth
  <2>3. Sound(berth)
    BY <1>3, <2>2, Zenon DEF Sound
  <2>4. target \in TargetObject
    <3>1. NoTarget \in TargetObject
      BY DEF TargetObject, NoTarget
    <3>2. ASSUME NEW u \in Target
          PROVE  [uid |-> u, rv |-> 1, bound |-> FALSE, active |-> TRUE, fence |-> 0] \in TargetObject
      BY DEF TargetObject
    <3> QED BY <1>5, <3>1, <3>2, Zenon
  <2> QED BY <2>2, <2>3, <2>4, Zenon
<1>6. ASSUME NEW u \in Target \cap Created,
             berth = [NoBerth EXCEPT !.exists = TRUE, !.rv = 1, !.fin = TRUE, !.w.uid = u],
             target = [uid |-> u, rv |-> 1, bound |-> TRUE, active |-> TRUE, fence |-> 0]
      PROVE  berth \in Berth /\ Sound(berth) /\ target \in TargetObject /\ berth.rv = 1
  <2>1. PICK v : v = [NoWorkload EXCEPT !.uid = u]
    BY Zenon
  <2>2. v \in Workload /\ v.phase = "" /\ v.token = 0 /\ v.pods = {}
    BY <1>3, <2>1, WorkloadIs, Zenon
  <2>3. berth = [exists |-> TRUE, rv |-> 1, fin |-> TRUE, deleting |-> FALSE, valid |-> TRUE, w |-> v]
    BY <1>6, <2>1, Zenon DEF NoBerth
  <2>4. berth \in Berth /\ berth.w = v /\ berth.rv = 1 /\ berth.fin = TRUE
    BY <2>2, <2>3, Zenon DEF Berth
  <2>5. Sound(berth)
    <3>1. ~(0 > 0) /\ "" # "Active"
      OBVIOUS
    <3> QED BY <2>2, <2>4, <3>1, Zenon DEF Sound
  <2>6. target \in TargetObject
    BY <1>6 DEF TargetObject
  <2> QED BY <2>4, <2>5, <2>6, Zenon
<1>7. berth \in Berth /\ Sound(berth) /\ target \in TargetObject /\ berth.rv = 1
  BY <1>5, <1>6, Zenon DEF Init
<1>8. berth.rv > 0 /\ NoBerth.rv <= berth.rv /\ NoBerth.rv # berth.rv
  BY <1>3, <1>7
<1>9. worker \in [Worker -> Local] /\ \A x \in Worker : worker[x] = Idle
  BY <1>1, <1>3, Zenon
<1>10. ObjectTypes
  BY <1>1, <1>4, <1>7, <1>8, <1>9, Zenon DEF ObjectTypes
<1>11. ASSUME NEW x \in Worker PROVE Copy(x)
  BY <1>3, <1>8, <1>9, Zenon DEF Copy, Fresh
<1> QED BY <1>1, <1>2, <1>4, <1>7, <1>10, <1>11, Zenon DEF RInv

-----------------------------------------------------------------------------
(* Stopping: what is on its way to the target when it is stopped.          *)

\* A write that would scale the target up as it is now.
Raises(m) == m.kind = "target" /\ m.admitted /\ m.t.active /\ AcceptsTarget(m.t)

\* The admitted target is stopped and such a write is on its way.
Threat ==
  /\ target.uid # None /\ target.uid = berth.w.uid /\ ~target.active
  /\ \E m \in late : Raises(m)

\* After stopTarget.
Draining == {"drainJobs", "drainPods", "release", "clear"}

\* A write that ends the cleanup was built after the fence.
Ends(l) ==
  Current(l) => /\ l.w.uid = berth.w.uid
                /\ Cleared(l) => berth.w.phase # "Active" /\ ~Threat

\* A fence with the version of the cleanup stands until the cleanup ends.
TInv ==
  /\ Threat => berth.exists /\ berth.w.phase # ""
  /\ \A x \in Worker : worker[x].pc \in Draining /\ Current(worker[x].l) => ~Threat
  /\ target.fence <= berth.rv
  /\ target.fence = berth.rv /\ berth.exists /\ berth.w.phase = "Stopping" => ~Threat
  /\ \A m \in late : /\ m.kind = "target" => m.t.fence <= berth.rv
                     /\ m.kind = "lease" => Ends(m.l)

\* What may be sent.
Sent(m) ==
  /\ m.kind = "target" => /\ m.t.fence <= berth.rv
                          /\ m.admitted /\ m.t.active => target.active \/ activeAt(berth, Now)
  /\ m.kind = "lease" => Ends(m.l)

\* Nothing that waits for the target is outdated, or it would be refused first.
UpToDate == \A m \in late : m.kind = "target" => m.t.uid = target.uid /\ m.t.rv = target.rv

\* Where a reconciler may go that changes nothing by its step.
Onto(x, v) ==
  v.pc \in Draining =>
    (worker[x].pc \in Draining /\ v.l = worker[x].l) \/ (Current(v.l) => ~Threat)

\* The fields of a changed target.
LEMMA TargetIs ==
  ASSUME NEW t \in TargetObject
  PROVE  /\ \A a \in BOOLEAN : LET u == [t EXCEPT !.active = a]
              IN u \in TargetObject /\ u.uid = t.uid /\ u.rv = t.rv /\ u.fence = t.fence /\ u.active = a
         /\ LET u == [t EXCEPT !.rv = t.rv + 1]
            IN u \in TargetObject /\ u.uid = t.uid /\ u.rv = t.rv + 1 /\ u.fence = t.fence /\ u.active = t.active
         /\ \A f \in Nat : LET u == [t EXCEPT !.active = FALSE, !.fence = f]
              IN u \in TargetObject /\ u.uid = t.uid /\ u.rv = t.rv /\ u.fence = f /\ u.active = FALSE
<1>1. ASSUME NEW v \in TargetObject, NEW a \in BOOLEAN
      PROVE  LET u == [v EXCEPT !.active = a]
             IN u \in TargetObject /\ u.uid = v.uid /\ u.rv = v.rv /\ u.fence = v.fence /\ u.active = a
  BY Zenon DEF TargetObject
<1>2. ASSUME NEW v \in TargetObject, NEW f \in Nat
      PROVE  LET u == [v EXCEPT !.fence = f]
             IN u \in TargetObject /\ u.uid = v.uid /\ u.rv = v.rv /\ u.fence = f /\ u.active = v.active
  BY Zenon DEF TargetObject
<1>3. ASSUME NEW n \in Nat
      PROVE  LET u == [t EXCEPT !.rv = n]
             IN u \in TargetObject /\ u.uid = t.uid /\ u.rv = n /\ u.fence = t.fence /\ u.active = t.active
  BY Zenon DEF TargetObject
<1>4. t.rv + 1 \in Nat
  BY DEF TargetObject
<1>5. ASSUME NEW f \in Nat
      PROVE  LET u == [t EXCEPT !.active = FALSE, !.fence = f]
             IN u \in TargetObject /\ u.uid = t.uid /\ u.rv = t.rv /\ u.fence = f /\ u.active = FALSE
  <2>1. PICK v : v = [t EXCEPT !.active = FALSE]
    BY Zenon
  <2>2. [t EXCEPT !.active = FALSE, !.fence = f] = [v EXCEPT !.fence = f]
    BY <2>1
  <2>3. FALSE \in BOOLEAN
    OBVIOUS
  <2>4. v \in TargetObject /\ v.uid = t.uid /\ v.rv = t.rv /\ v.active = FALSE
    BY <1>1, <2>1, <2>3, Zenon
  <2>5. PICK u : u = [v EXCEPT !.fence = f]
    BY Zenon
  <2>6. u \in TargetObject /\ u.uid = v.uid /\ u.rv = v.rv /\ u.fence = f /\ u.active = v.active
    BY <1>2, <2>4, <2>5, Zenon
  <2>7. [t EXCEPT !.active = FALSE, !.fence = f] = u
    BY <2>2, <2>5, Zenon
  <2> QED BY <2>4, <2>6, <2>7, Zenon
<1> QED BY <1>1, <1>3, <1>4, <1>5, Zenon

\* A step that leaves the lease and the target alone.
LEMMA TQuiet ==
  ASSUME RInv, RInv', TInv, berth' = berth, target' = target,
         \A m \in late' : m \in late \/ Sent(m),
         \A x \in Worker : worker'[x] = worker[x] \/ Onto(x, worker'[x])
  PROVE  TInv'
<1>1. Threat' => Threat \/ (berth.exists /\ berth.w.phase = "Active")
  BY Zenon DEF Threat, Raises, AcceptsTarget, Sent, activeAt
<1>2. "Active" # "" /\ "Active" # "Stopping"
  OBVIOUS
<1>3. Threat' => berth.exists /\ berth.w.phase # ""
  BY <1>1, <1>2, Zenon DEF TInv
<1>4. ASSUME NEW x \in Worker, worker'[x].pc \in Draining, Current(worker[x].l)' PROVE ~Threat'
  <2>1. Current(worker'[x].l)
    BY <1>4, Zenon DEF Current
  <2>2. ~Threat
    BY <1>4, <2>1, Zenon DEF TInv, Onto
  <2>3. worker'[x].pc \in DrainPC
    BY <1>4 DEF Draining, DrainPC
  <2>4. worker'[x].l.w.phase = "Stopping" /\ worker'[x].l = berth
    BY <1>4, <2>1, <2>3, Zenon DEF RInv, Copy, Knows, Fresh, Current
  <2> QED BY <1>1, <1>2, <2>2, <2>4, Zenon
<1>5. ASSUME NEW l, Ends(l) PROVE Ends(l)'
  BY <1>1, <1>5, Zenon DEF Ends, Current, Cleared
<1>6. ASSUME NEW m \in late' PROVE (m.kind = "target" => m.t.fence <= berth.rv) /\ (m.kind = "lease" => Ends(m.l)')
  BY <1>5, Zenon DEF TInv, Sent
<1>7. target.fence = berth.rv /\ berth.exists /\ berth.w.phase = "Stopping" => ~Threat'
  BY <1>1, <1>2, Zenon DEF TInv
<1> QED BY <1>3, <1>4, <1>6, <1>7, Zenon DEF TInv

\* A step that moves the version of the lease.
LEMMA TLease ==
  ASSUME RInv, RInv', TInv, target' = target, berth'.rv > berth.rv,
         berth'.w.uid = berth.w.uid \/ target.uid = None, Cleared(berth') => ~Threat,
         \A m \in late' : m \in late \/ m.kind \notin {"lease", "target"},
         \A x \in Worker : worker'[x] = worker[x] \/ worker'[x].pc \notin Draining
  PROVE  TInv'
<1>1. berth.rv \in Nat /\ berth'.rv \in Nat /\ target.fence \in Nat
  BY Zenon DEF RInv, ObjectTypes, Berth, TargetObject
<1>2. "target" \in {"lease", "target"} /\ "lease" \in {"lease", "target"}
  OBVIOUS
<1>3. Threat' => Threat
  BY <1>2, Zenon DEF Threat, Raises, AcceptsTarget
<1>4. ASSUME NEW n \in Nat, n <= berth.rv PROVE n <= berth'.rv /\ n # berth'.rv
  BY <1>1, <1>4
<1>5. ASSUME NEW x \in Worker, worker'[x].pc \in Draining PROVE ~Current(worker[x].l)'
  <2>1. worker[x].l.rv \in Nat /\ worker[x].l.rv <= berth.rv
    BY CopyIs, Zenon DEF L
  <2> QED BY <1>4, <1>5, <2>1, Zenon DEF Current
<1>6. ASSUME NEW m \in late', m.kind = "lease" PROVE Ends(m.l)'
  <2>1. m \in late
    BY <1>2, <1>6, Zenon
  <2>2. m.l \in Berth /\ m.l.rv <= berth.rv
    BY <1>6, <2>1, Zenon DEF RInv, Write, ObjectTypes, LeaseWrite, TargetWrite, UngateWrite, CreateWrite
  <2>3. m.l.rv # berth'.rv
    BY <1>4, <2>2, Zenon DEF Berth
  <2> QED BY <2>3, Zenon DEF Ends, Current
<1>7. ASSUME NEW m \in late', m.kind = "target" PROVE m.t.fence <= berth'.rv
  <2>1. m \in late
    BY <1>2, <1>7, Zenon
  <2>2. m.t.fence \in Nat /\ m.t.fence <= berth.rv
    BY <1>7, <2>1, Zenon DEF RInv, TInv, ObjectTypes, LeaseWrite, TargetWrite, UngateWrite,
        CreateWrite, TargetObject
  <2> QED BY <1>4, <2>2, Zenon
<1>8. target.fence <= berth'.rv /\ target.fence # berth'.rv
  BY <1>1, <1>4, Zenon DEF TInv
<1>9. Threat' => berth'.exists /\ berth'.w.phase # ""
  BY <1>3, Zenon DEF Cleared
<1> QED BY <1>5, <1>6, <1>7, <1>8, <1>9, Zenon DEF TInv

\* A step that changes the target, after which nothing on its way fits it.
LEMMA TTarget ==
  ASSUME RInv, TInv, berth' = berth, late' \subseteq late, target'.fence <= berth.rv,
         \/ target'.uid = None
         \/ \A m \in late' : m.kind = "target" => m.t.uid # target'.uid \/ m.t.rv # target'.rv
  PROVE  TInv'
<1>1. ~Threat'
  BY Zenon DEF Threat, Raises, AcceptsTarget
<1>2. ASSUME NEW m \in late', m.kind = "lease" PROVE Ends(m.l)'
  BY <1>1, <1>2, Zenon DEF TInv, Ends, Current, Cleared
<1> QED BY <1>1, <1>2, Zenon DEF TInv

\* stopTarget's fence is kept, and no cleanup ends before it, by every step.
LEMMA TNext ==
  RInv /\ RInv' /\ TInv /\ [Next]_vars => TInv'
<1> SUFFICES ASSUME RInv, RInv', TInv, [Next]_vars PROVE TInv'
  BY Zenon
<1>Types. /\ setup \in Setups /\ berth \in Berth /\ berth.rv \in Nat /\ target \in TargetObject /\ Sound(berth)
          /\ target.rv \in Nat /\ target.fence \in Nat /\ worker \in [Worker -> Local] /\ Idle.pc = "idle"
          /\ late \in SUBSET (LeaseWrite \cup TargetWrite \cup UngateWrite \cup CreateWrite)
  BY Zenon DEF RInv, ObjectTypes, Berth, TargetObject, Idle
\* Where a reconciler is before stopTarget and where it is not draining.
<1>Before. {"idle", "verify", "acquire", "activate", "list", "permit", "ungate", "stop", "quarantine",
            "stopTarget"} \cap Draining = {}
  BY DEF Draining
<1>Idles. "idle" \notin Draining /\ \A x : Onto(x, Idle)
  BY <1>Before, <1>Types, Zenon DEF Onto
\* What a reconciler knows of a lease it has a current copy of.
<1>Copied. ASSUME NEW x \in Worker PROVE L(x) \in Berth /\ (Current(L(x)) => L(x) = berth)
  BY CopyIs, Zenon DEF Fresh, Current
\* A reconciler goes on, with nothing changed but what it sends.
<1>Local. ASSUME NEW x \in Worker, NEW v, worker' = [worker EXCEPT ![x] = v], Onto(x, v),
                 berth' = berth, target' = target, \A m \in late' : m \in late \/ Sent(m)
          PROVE  TInv'
  <2>1. \A y \in Worker : worker'[y] = worker[y] \/ (y = x /\ worker'[y] = v)
    BY <1>Local, <1>Types, Zenon
  <2>2. \A y \in Worker : worker'[y] = worker[y] \/ Onto(y, worker'[y])
    BY <1>Local, <2>1, Zenon DEF Onto
  <2> QED BY <1>Local, <2>2, TQuiet, Zenon
\* The lease is replaced by a write that was built from it.
<1>Stored. ASSUME NEW l \in Berth, Accepts(l), Ends(l), berth' = Written(l), target' = target,
                  late' \subseteq late,
                  \A x \in Worker : worker'[x] = worker[x] \/ worker'[x].pc \notin Draining
           PROVE  TInv'
  <2>1. /\ Written(l).w = l.w /\ Written(l).exists = l.exists
        /\ (l # berth => Written(l).rv = l.rv + 1) /\ (l = berth => Written(l) = l)
    BY <1>Types, WrittenIs, Zenon
  <2>2. Current(l) /\ l.rv = berth.rv
    BY <1>Stored, Zenon DEF Accepts, Current
  <2>3. CASE l = berth
    <3>1. \A x \in Worker : worker'[x] = worker[x] \/ Onto(x, worker'[x])
      BY <1>Stored, Zenon DEF Onto
    <3> QED BY <1>Stored, <2>1, <2>3, <3>1, TQuiet, Zenon
  <2>4. CASE l # berth
    <3>1. berth'.rv > berth.rv
      BY <1>Types, <1>Stored, <2>1, <2>2, <2>4
    <3>2. berth'.w.uid = berth.w.uid /\ (Cleared(berth') => ~Threat)
      BY <1>Stored, <2>1, <2>2, Zenon DEF Ends, Cleared
    <3> QED BY <1>Stored, <3>1, <3>2, TLease, Zenon
  <2> QED BY <2>3, <2>4, Zenon
\* An Update of the lease.
<1>Saved. ASSUME NEW x \in Worker, NEW l \in Berth, NEW v, Save(x, l, v), Ends(l), v.pc \notin Draining
          PROVE  TInv'
  <2> USE <1>Saved
  <2>1. ASSUME Accepts(l), berth' = Written(l), Goto(x, v), UNCHANGED <<target, pods, jobs, late, faults>>
        PROVE  TInv'
    <3>1. \A y \in Worker : worker'[y] = worker[y] \/ worker'[y].pc \notin Draining
      BY <1>Types, <2>1, Zenon DEF Goto
    <3> QED BY <2>1, <3>1, <1>Stored, Zenon
  <2>2. ASSUME Return(x), UNCHANGED <<objects, late, faults>> PROVE TInv'
    <3>1. berth' = berth /\ target' = target /\ late' = late /\ worker' = [worker EXCEPT ![x] = Idle]
      BY <2>2, Zenon DEF Return, Goto, objects
    <3> QED BY <1>Idles, <1>Local, <3>1, Zenon
  <2>3. ASSUME Delay(x, [kind |-> "lease", l |-> l]) PROVE TInv'
    <3>1. PICK m : m = [kind |-> "lease", l |-> l]
      BY Zenon
    <3>2. m.kind = "lease" /\ m.l = l /\ "lease" # "target"
      BY <3>1
    <3>3. berth' = berth /\ target' = target /\ late' = late \cup {m} /\ worker' = [worker EXCEPT ![x] = Idle]
      BY <2>3, <3>1, Zenon DEF Delay, Return, Goto, objects
    <3>4. Sent(m)
      BY <3>2, Zenon DEF Sent
    <3> QED BY <1>Idles, <1>Local, <3>3, <3>4, Zenon
  <2> QED BY <2>1, <2>2, <2>3, Zenon DEF Save
\* A write of a reconciler that goes on with the activation.
<1>GoesOn. ASSUME NEW x \in Worker, NEW k, k.rv = L(x).rv, k.w.uid = L(x).w.uid, k.exists, k.w.phase # ""
           PROVE  Ends(k)
  BY <1>GoesOn, <1>Copied, Zenon DEF Ends, Current, Cleared
<1>StopSaved. ASSUME NEW x \in Worker, NEW l \in Berth, l.exists, Current(l) => l = berth,
                     Save(x, Stopping(l), With(Stopping(l), "stopTarget"))
              PROVE  TInv'
  <2> USE <1>StopSaved
  <2>1. PICK k : k = Stopping(l)
    BY Zenon
  <2>2. k \in Berth /\ k.rv = l.rv /\ k.exists = l.exists /\ k.w.phase = "Stopping"
        /\ k.w = [uid |-> l.w.uid, phase |-> "Stopping", deadline |-> l.w.deadline,
                  holder |-> l.w.holder, token |-> l.w.token, pods |-> l.w.pods]
    BY <2>1, StoppingIs, Zenon
  <2>3. k.w.uid = l.w.uid /\ "Stopping" # ""
    BY <2>2
  <2>4. Ends(k)
    BY <2>2, <2>3, Zenon DEF Ends, Current, Cleared
  <2>5. PICK v : v = With(k, "stopTarget")
    BY Zenon
  <2>6. v.pc = "stopTarget"
    <3>1. Written(k) \in Berth /\ "stopTarget" \in PC
      BY <1>Types, <2>2, WrittenIs DEF PC, DrainPC
    <3> QED BY <1>Types, <2>5, <3>1, AtIs, Zenon DEF With
  <2> QED BY <1>Before, <1>Saved, <2>1, <2>2, <2>4, <2>5, <2>6, Zenon
\* A patch of the target.
<1>Patched. ASSUME NEW x \in Worker, NEW t \in TargetObject, NEW v, Patch(x, t, v), UpToDate,
                   t.uid = target.uid, t.rv = target.rv, t.fence <= berth.rv
            PROVE  TInv'
  <2> USE <1>Patched
  <2>1. ASSUME target' = [t EXCEPT !.rv = t.rv + 1], UNCHANGED <<berth, pods, jobs, late, faults>> PROVE TInv'
    <3>1. target'.uid = t.uid /\ target'.rv = t.rv + 1 /\ target'.fence = t.fence
      BY <2>1, TargetIs, ZenonT(60)
    <3>2. target'.rv # target.rv
      BY <1>Types, <3>1
    <3> QED BY <2>1, <3>1, <3>2, TTarget, Zenon DEF UpToDate
  <2>2. ASSUME Return(x), UNCHANGED <<objects, late, faults>> PROVE TInv'
    <3>1. berth' = berth /\ target' = target /\ late' = late /\ worker' = [worker EXCEPT ![x] = Idle]
      BY <2>2, Zenon DEF Return, Goto, objects
    <3> QED BY <1>Idles, <1>Local, <3>1, Zenon
  <2>3. ASSUME Delay(x, [kind |-> "target", t |-> t, admitted |-> ~increasesActivity(t)]) PROVE TInv'
    <3>1. PICK m : m = [kind |-> "target", t |-> t, admitted |-> ~increasesActivity(t)]
      BY Zenon
    <3>2. m.kind # "lease" /\ m.t = t
      BY <3>1
    <3>3. m.admitted => ~increasesActivity(t)
      BY <3>1, Zenon
    <3>4. berth' = berth /\ target' = target /\ late' = late \cup {m} /\ worker' = [worker EXCEPT ![x] = Idle]
      BY <2>3, <3>1, Zenon DEF Delay, Return, Goto, objects
    <3>5. Sent(m)
      BY <3>2, <3>3, Zenon DEF Sent, increasesActivity
    <3> QED BY <1>Idles, <1>Local, <3>4, <3>5, Zenon
  <2> QED BY <2>1, <2>2, <2>3, Zenon DEF Patch
\* The steps of a reconciler.
<1>TReconcile. ASSUME NEW x \in Worker, Reconcile(x) PROVE TInv'
  <2> USE <1>TReconcile
  <2>1. berth.exists
    BY Zenon DEF Reconcile
  <2> DEFINE at(pc) == [Idle EXCEPT !.pc = pc, !.l = berth]
  <2>2. ASSUME ~berth.fin, Save(x, [berth EXCEPT !.fin = TRUE], Idle) PROVE TInv'
    <3>1. PICK k : k = [berth EXCEPT !.fin = TRUE]
      BY Zenon
    <3>2. k \in Berth /\ k.w = berth.w /\ k.rv = berth.rv /\ k.exists = berth.exists
      BY <1>Types, <3>1, Zenon DEF Berth
    <3>3. Ends(k)
      <4>1. "" # "Active"
        OBVIOUS
      <4> QED BY <2>1, <3>2, <4>1, Zenon DEF Ends, Cleared, TInv
    <3> QED BY <1>Types, <1>Idles, <1>Saved, <2>2, <3>1, <3>2, <3>3, Zenon
  <2>3. ASSUME Save(x, Stopping(berth), With(Stopping(berth), "stopTarget")) PROVE TInv'
    BY <1>Types, <1>StopSaved, <2>1, <2>3, Zenon
  <2>4. ASSUME NEW pc \in {"stopTarget", "verify"}, Goto(x, at(pc)), UNCHANGED <<objects, late, faults>> PROVE TInv'
    <3>1. berth' = berth /\ target' = target /\ late' = late /\ worker' = [worker EXCEPT ![x] = at(pc)]
      BY <2>4, Zenon DEF Goto, objects
    <3>2. pc \in PC
      BY <2>4 DEF PC, DrainPC
    <3>3. at(pc).pc = pc
      BY <1>Types, <3>2, AtIs, Zenon
    <3>4. Onto(x, at(pc))
      BY <1>Before, <2>4, <3>3, Zenon DEF Onto
    <3> HIDE DEF at
    <3> QED BY <1>Local, <3>1, <3>4, Zenon
  <2> QED
    <3>1. \A b : (IF b THEN "stopTarget" ELSE "verify") \in {"stopTarget", "verify"}
      OBVIOUS
    <3> QED BY <2>2, <2>3, <2>4, <3>1, Zenon DEF Reconcile
<1>Reads. ASSUME NEW x \in Worker, NEW v, Goto(x, v), v.pc \notin Draining, UNCHANGED <<objects, late>> PROVE TInv'
  <2>1. berth' = berth /\ target' = target /\ late' = late /\ worker' = [worker EXCEPT ![x] = v]
    BY <1>Reads, Zenon DEF Goto, objects
  <2>2. Onto(x, v)
    BY <1>Reads, Zenon DEF Onto
  <2> QED BY <1>Local, <2>1, <2>2, Zenon
\* A change of place alone.
<1>Steps. ASSUME NEW x \in Worker, NEW pc \in PC, pc \notin Draining, Step(x, pc), UNCHANGED <<objects, late>>
          PROVE  TInv'
  <2>1. worker[x] \in Local
    BY <1>Types, <1>Steps, Zenon
  <2>2. PICK v : v = [worker[x] EXCEPT !.pc = pc]
    BY Zenon
  <2>3. v.pc = pc
    BY <1>Steps, <2>1, <2>2, MovedIs, Zenon
  <2> QED BY <1>Reads, <1>Steps, <2>2, <2>3, Zenon DEF Step
<1>TVerify. ASSUME NEW x \in Worker, Verify(x) PROVE TInv'
  <2> USE <1>TVerify
  <2>1. UNCHANGED <<objects, late>> /\ worker[x] \in Local /\ Now \in Int
    <3>1. worker[x] \in Local
      BY <1>Types, Zenon
    <3>2. Offset \in Int /\ clock \in Int
      BY <1>Types, SetupTypes, Zenon DEF RInv, LeaseTypes
    <3>3. Now \in Int
      BY <3>2 DEF Now
    <3> QED BY <3>1, <3>3, Zenon DEF Verify, ReadsOnly
  <2>2. {"stop", "quarantine"} \subseteq PC /\ "stop" \notin Draining /\ "quarantine" \notin Draining
    BY DEF PC, Draining
  <2>3. ASSUME Goto(x, [worker[x] EXCEPT !.pc = "acquire", !.started = Now]) PROVE TInv'
    <3>1. PICK v : v = [worker[x] EXCEPT !.pc = "acquire", !.started = Now]
      BY Zenon
    <3>2. v.pc = "acquire"
      BY <2>1, <3>1, RequestIs, Zenon
    <3> QED BY <1>Before, <1>Reads, <2>1, <2>3, <3>1, <3>2, Zenon
  <2> QED BY <1>Steps, <2>1, <2>2, <2>3, Zenon DEF Verify
<1>TServeAcquire. ASSUME NEW x \in Worker, ServeAcquire(x) PROVE TInv'
  <2> USE <1>TServeAcquire
  <2>1. worker[x] \in Local /\ worker[x].pc = "acquire" /\ UNCHANGED <<objects, late>>
    BY <1>Types, Zenon DEF ServeAcquire, At
  <2>2. PICK r : Goto(x, [worker[x] EXCEPT !.reply = r])
    BY Zenon DEF ServeAcquire
  <2>3. PICK v : v = [worker[x] EXCEPT !.reply = r]
    BY Zenon
  <2>4. v.pc = "acquire"
    BY <2>1, <2>3 DEF Local
  <2> QED BY <1>Before, <1>Reads, <2>1, <2>2, <2>3, <2>4, Zenon
<1>TAcquireError. ASSUME NEW x \in Worker, AcquireError(x) PROVE TInv'
  <2> USE <1>TAcquireError
  <2>1. UNCHANGED <<objects, late>>
    BY Zenon DEF AcquireError
  <2>2. PICK v : v = [Idle EXCEPT !.pc = "stop", !.l = L(x)]
    BY Zenon
  <2>3. v.pc = "stop"
    <3>1. "stop" \in PC
      BY DEF PC
    <3> QED BY <1>Types, <1>Copied, <2>2, <3>1, AtIs, Zenon
  <2> QED BY <1>Before, <1>Types, <1>Reads, <2>1, <2>2, <2>3, Zenon DEF AcquireError, Return
<1>TAcquireReturns. ASSUME NEW x \in Worker, AcquireReturns(x) PROVE TInv'
  <2> USE <1>TAcquireReturns
  <2>1. L(x).exists /\ At(x, "acquire") /\ L(x) \in Berth /\ L(x).w \in Workload
    <3>1. worker[x].pc = "acquire" /\ Knows(x, worker[x]) /\ "acquire" \notin {"idle", "ungate"}
          /\ L(x) \in Berth /\ L(x).w \in Workload
      BY CopyIs, Zenon DEF AcquireReturns, At
    <3> QED BY <3>1, Zenon DEF Knows, L, At
  <2>2. ASSUME Return(x), UNCHANGED <<objects, late, faults>> PROVE TInv'
    BY <1>Types, <1>Idles, <1>Reads, <2>2, Zenon DEF Return
  <2>3. ASSUME Save(x, Stopping(L(x)), With(Stopping(L(x)), "stopTarget")) PROVE TInv'
    BY <1>StopSaved, <1>Copied, <2>1, <2>3, Zenon
  <2> DEFINE r == worker[x].reply
             w == L(x).w
             renewed == [L(x) EXCEPT !.w =
               [w EXCEPT !.phase = "Active", !.holder = ident, !.token = r.token,
                         !.deadline = Deadline(x), !.pods = pruned(w.pods)]]
  <2>4. ASSUME r.res = "granted", Save(x, renewed, With(renewed, "activate")) PROVE TInv'
    <3>1. PICK u, k : u = Renewal(L(x).w, ident, worker[x].reply.token, Deadline(x), pruned(L(x).w.pods))
                      /\ k = [L(x) EXCEPT !.w = u]
      BY Zenon
    <3>2. k = renewed
      BY <3>1, Zenon DEF Renewal
    <3> HIDE DEF renewed
    <3>3. k \in Berth /\ k.rv = L(x).rv /\ k.exists /\ k.w.phase = "Active" /\ "Active" # ""
      BY <2>1, <2>4, <3>1, RenewedIs, Zenon
    <3>4. k.w = u
      BY <2>1, <3>1 DEF Berth
    <3>5. u.uid = w.uid
      <4>1. PICK v, h, n, d, S : v = L(x).w /\ h = ident /\ n = worker[x].reply.token /\ d = Deadline(x)
                                 /\ S = pruned(L(x).w.pods)
        BY Zenon
      <4>2. v \in Workload /\ u = Renewal(v, h, n, d, S)
        BY <2>1, <3>1, <4>1, Zenon
      <4>3. u.uid = v.uid
        BY <4>2 DEF Renewal, Workload
      <4> QED BY <4>1, <4>3
    <3>6. Ends(k)
      BY <1>GoesOn, <3>3, <3>4, <3>5, Zenon
    <3>7. PICK v : v = With(k, "activate")
      BY Zenon
    <3>8. v.pc = "activate"
      <4>1. Written(k) \in Berth /\ "activate" \in PC
        BY <1>Types, <3>3, WrittenIs DEF PC
      <4> QED BY <1>Types, <3>7, <4>1, AtIs, Zenon DEF With
    <3> QED BY <1>Before, <1>Saved, <2>4, <3>2, <3>3, <3>6, <3>7, <3>8, Zenon
  <2> QED BY <2>2, <2>3, <2>4, Zenon DEF AcquireReturns
<1>TActivate. ASSUME NEW x \in Worker, Activate(x), UpToDate PROVE TInv'
  <2> USE <1>TActivate
  <2>1. worker[x] \in Local /\ "list" \in PC
    BY <1>Types DEF PC
  <2>2. PICK u : u = [worker[x] EXCEPT !.pc = "list"]
    BY Zenon
  <2>3. u.pc = "list"
    BY <2>1, <2>2, MovedIs, Zenon
  <2>4. ASSUME NEW v \in {u, Idle}, Goto(x, v), UNCHANGED <<objects, late, faults>> PROVE TInv'
    BY <1>Before, <1>Types, <1>Reads, <2>3, <2>4, Zenon
  <2>5. ASSUME Patch(x, [target EXCEPT !.active = TRUE], u) PROVE TInv'
    <3>1. PICK t : t = [target EXCEPT !.active = TRUE]
      BY Zenon
    <3>2. TRUE \in BOOLEAN
      OBVIOUS
    <3>3. t \in TargetObject /\ t.uid = target.uid /\ t.rv = target.rv /\ t.fence = target.fence
      BY <1>Types, <3>1, <3>2, TargetIs, ZenonT(60)
    <3>4. t.fence <= berth.rv
      BY <3>3, Zenon DEF TInv
    <3> QED BY <1>Patched, <2>5, <3>1, <3>3, <3>4, Zenon
  <2> QED BY <2>2, <2>4, <2>5, Zenon DEF Activate, Return
\* The loop of permitPods, wherever it goes on.
<1>Permits. ASSUME NEW x \in Worker, NEW T PROVE Permitting(x, T).pc \in {"idle", "permit"}
  <2>1. worker[x] \in Local
    BY <1>Types, Zenon
  <2>2. [worker[x] EXCEPT !.pc = "permit", !.todo = T, !.head = None].pc = "permit"
    BY <2>1 DEF Local
  <2> QED BY <1>Types, <2>2, Zenon DEF Permitting
<1>Ungates. ASSUME NEW x \in Worker, NEW s, NEW l PROVE Ungating(x, s, l).pc = "ungate"
  BY DEF Ungating, Idle
<1>TListPods. ASSUME NEW x \in Worker, ListPods(x) PROVE TInv'
  BY <1>TListPods, <1>Before, <1>Permits, <1>Reads, Zenon DEF ListPods, ReadsOnly
<1>TPermit. ASSUME NEW x \in Worker, Permit(x) PROVE TInv'
  <2> USE <1>TPermit
  <2>1. PICK s \in worker[x].todo : permitPod(x, s)
    BY Zenon DEF Permit
  <2>2. /\ Knows(x, worker[x]) /\ worker[x] \in Local /\ setup \in Setups /\ L(x) \in Berth /\ Sound(L(x))
        /\ s.pod \in Pod /\ L(x).w \in Workload
    BY CopyIs, Zenon DEF Local
  <2>3. L(x).fin /\ L(x).exists /\ Known(s.pod)
    BY <2>2, Zenon DEF Knows, L
  <2>4. ASSUME NEW v, Goto(x, v), v.pc \in {"idle", "permit", "ungate"}, UNCHANGED <<objects, late, faults>> PROVE TInv'
    BY <1>Before, <1>Reads, <2>4, Zenon
  <2> DEFINE more == [L(x) EXCEPT !.w.pods = @ \cup {s.pod}]
  <2>5. ASSUME ~permitRefuses(L(x), s), activeAt(L(x), Now), s.st # "leaving", s.pod \notin L(x).w.pods,
               Save(x, more, Ungating(x, s, Written(more)))
        PROVE  TInv'
    <3>1. ~(Cardinality(L(x).w.pods) >= MaxPermittedPods) /\ Counts /\ L(x).w.phase = "Active"
      BY <2>5, Zenon DEF permitRefuses, RInv, activeAt
    <3>2. PICK l, q, k : l = L(x) /\ q = s.pod /\ k = [l EXCEPT !.w.pods = @ \cup {q}]
      BY Zenon
    <3>3. k = more
      BY <3>2, Zenon
    <3>4. k \in Berth /\ k.rv = l.rv /\ k.exists /\ k.w.phase = "Active" /\ "Active" # ""
      <4>1. /\ l \in Berth /\ q \in Pod /\ Sound(l) /\ Known(q) /\ l.fin /\ l.exists /\ l.w.phase = "Active"
            /\ Counts /\ ~(Cardinality(l.w.pods) >= MaxPermittedPods) /\ setup \in Setups
        BY <2>2, <2>3, <3>1, <3>2, Zenon
      <4>2. "Active" # ""
        OBVIOUS
      <4> QED BY <3>2, <4>1, <4>2, RegistrationIs, Zenon
    <3>5. k.w.uid = l.w.uid
      <4>1. l \in Berth /\ l.w \in Workload
        BY <2>2, <3>2, Zenon
      <4> QED BY <3>2, <4>1 DEF Berth, Workload
    <3> HIDE DEF more
    <3>6. Ends(k)
      BY <1>GoesOn, <3>2, <3>4, <3>5, Zenon
    <3>7. PICK v : v = Ungating(x, s, Written(k))
      BY Zenon
    <3>8. v.pc = "ungate"
      BY <1>Ungates, <3>7, Zenon
    <3> QED BY <1>Before, <1>Saved, <2>5, <3>3, <3>4, <3>6, <3>7, <3>8, Zenon
  <2>6. Idle.pc \in {"idle", "permit", "ungate"} /\ \A T : Permitting(x, T).pc \in {"idle", "permit", "ungate"}
    BY <1>Types, <1>Permits, Zenon
  <2>7. \A l : Ungating(x, s, l).pc \in {"idle", "permit", "ungate"}
    BY <1>Ungates, Zenon
  <2> QED BY <2>1, <2>4, <2>5, <2>6, <2>7, Zenon DEF permitPod, Return
\* Kubernetes is asked to do something that concerns neither lease nor target.
<1>Quiet. ASSUME berth' = berth, target' = target, worker' = worker, late' \subseteq late PROVE TInv'
  BY <1>Quiet, TQuiet, Zenon
<1>TUngate. ASSUME NEW x \in Worker, Ungate(x) PROVE TInv'
  <2> USE <1>TUngate
  <2> DEFINE p == worker[x].head
  <2>1. ASSUME Goto(x, Permitting(x, worker[x].todo)), UNCHANGED <<berth, target, jobs, late, faults>> PROVE TInv'
    <3>1. Onto(x, Permitting(x, worker[x].todo))
      BY <1>Before, <1>Permits, Zenon DEF Onto
    <3> QED BY <1>Local, <2>1, <3>1, Zenon DEF Goto
  <2>2. ASSUME Return(x), UNCHANGED <<objects, late, faults>> PROVE TInv'
    BY <1>Types, <1>Idles, <1>Reads, <2>2, Zenon DEF Return
  <2>3. ASSUME Delay(x, [kind |-> "ungate", pod |-> p, admitted |-> FALSE]) PROVE TInv'
    <3>1. PICK m : m = [kind |-> "ungate", pod |-> p, admitted |-> FALSE]
      BY Zenon
    <3>2. m.kind # "lease" /\ m.kind # "target"
      BY <3>1
    <3>3. berth' = berth /\ target' = target /\ late' = late \cup {m} /\ worker' = [worker EXCEPT ![x] = Idle]
      BY <2>3, <3>1, Zenon DEF Delay, Return, Goto, objects
    <3>4. Sent(m)
      BY <3>2, Zenon DEF Sent
    <3> QED BY <1>Idles, <1>Local, <3>3, <3>4, Zenon
  <2> QED BY <2>1, <2>2, <2>3, Zenon DEF Ungate
<1>TPodReconcile. ASSUME NEW x \in Worker, NEW p \in Pod, PodReconcile(x, p) PROVE TInv'
  <2> USE <1>TPodReconcile
  <2>1. berth' = berth /\ target' = target /\ late' = late
    BY Zenon DEF PodReconcile
  <2>2. ASSUME Goto(x, [Idle EXCEPT !.pc = "permit", !.l = berth, !.todo = {Seen(p)}]) PROVE TInv'
    <3>1. PICK v : v = [Idle EXCEPT !.pc = "permit", !.l = berth, !.todo = {Seen(p)}]
      BY Zenon
    <3>2. v.pc = "permit"
      BY <3>1 DEF Idle
    <3>3. Onto(x, v)
      BY <1>Before, <3>2, Zenon DEF Onto
    <3> QED BY <1>Local, <2>1, <2>2, <3>1, <3>3, Zenon DEF Goto
  <2> QED BY <1>Quiet, <2>1, <2>2, Zenon DEF PodReconcile
<1>TStop. ASSUME NEW x \in Worker, Stop(x) PROVE TInv'
  <2>1. Knows(x, worker[x]) /\ worker[x].pc = "stop" /\ "stop" \notin {"idle", "ungate"}
    BY <1>TStop, CopyIs, Zenon DEF Stop, At
  <2>2. L(x).exists
    BY <2>1, Zenon DEF Knows, L
  <2> QED BY <1>TStop, <1>Copied, <1>StopSaved, <2>2, Zenon DEF Stop
\* stopTarget leaves the target alone only if nothing can scale it up any more.
<1>TStopTarget. ASSUME NEW x \in Worker, StopTarget(x), UpToDate PROVE TInv'
  <2> USE <1>TStopTarget
  <2>1. /\ Knows(x, worker[x]) /\ worker[x] \in Local /\ L(x).rv \in Nat /\ L(x).rv <= berth.rv
        /\ {"stopTarget", "drainJobs"} \subseteq DrainPC /\ "drainJobs" \in PC
        /\ "stopTarget" \notin {"idle", "ungate"}
    <3>1. {"stopTarget", "drainJobs"} \subseteq DrainPC /\ "drainJobs" \in PC /\ "stopTarget" \notin {"idle", "ungate"}
      BY DEF DrainPC, PC
    <3> QED BY <3>1, CopyIs, Zenon
  <2>2. PICK u : u = [worker[x] EXCEPT !.pc = "drainJobs"]
    BY Zenon
  <2>3. u.l = L(x)
    BY <2>1, <2>2, MovedIs, Zenon DEF L
  <2> DEFINE next == IF At(x, "stopTarget") THEN [worker[x] EXCEPT !.pc = "drainJobs"] ELSE Idle
  <2>4. ASSUME NotOurs(L(x)) \/ AlreadyStopped(L(x)), Goto(x, next), UNCHANGED <<objects, late, faults>> PROVE TInv'
    <3>1. berth' = berth /\ target' = target /\ late' = late
      BY <2>4, Zenon DEF objects
    <3>2. CASE At(x, "stopTarget")
      <4>1. L(x).w.phase = "Stopping" /\ L(x).exists
        BY <2>1, <3>2, Zenon DEF Knows, L, At
      <4>2. ASSUME Current(L(x)) PROVE ~Threat
        <5>1. L(x) = berth
          BY <1>Copied, <4>2, Zenon
        <5>2. CASE NotOurs(L(x))
          BY <5>1, <5>2, Zenon DEF NotOurs, Threat
        <5>3. CASE AlreadyStopped(L(x))
          BY <4>1, <5>1, <5>3, Zenon DEF AlreadyStopped, TInv
        <5> QED BY <2>4, <5>2, <5>3, Zenon
      <4>3. Onto(x, u)
        BY <2>3, <4>2, Zenon DEF Onto
      <4>4. worker' = [worker EXCEPT ![x] = u]
        BY <2>2, <2>4, <3>2, Zenon DEF Goto
      <4> QED BY <1>Local, <3>1, <4>3, <4>4, Zenon
    <3>3. CASE ~At(x, "stopTarget")
      BY <1>Idles, <1>Local, <2>4, <3>1, <3>3, Zenon DEF Goto
    <3> QED BY <3>2, <3>3, Zenon
  <2>5. ASSUME Patch(x, [target EXCEPT !.active = FALSE, !.fence = L(x).rv], next) PROVE TInv'
    <3>1. PICK f, t : f = L(x).rv /\ t = [target EXCEPT !.active = FALSE, !.fence = f]
      BY Zenon
    <3>2. t \in TargetObject /\ t.uid = target.uid /\ t.rv = target.rv /\ t.fence = f
      <4>1. f \in Nat /\ target \in TargetObject
        BY <1>Types, <2>1, <3>1, Zenon
      <4>2. \A g \in Nat : LET k == [target EXCEPT !.active = FALSE, !.fence = g]
              IN k \in TargetObject /\ k.uid = target.uid /\ k.rv = target.rv /\ k.fence = g /\ k.active = FALSE
        BY <4>1, TargetIs, ZenonT(60)
      <4> QED BY <3>1, <4>1, <4>2, Zenon
    <3> QED BY <1>Patched, <2>1, <2>5, <3>1, <3>2, Zenon
  <2> QED BY <2>4, <2>5, Zenon DEF StopTarget
\* The cleanup goes on with the same copy.
<1>Drains. ASSUME NEW x \in Worker, NEW v, Goto(x, v), worker[x].pc \in Draining, v.l = worker[x].l,
                  berth' = berth, target' = target, late' = late
           PROVE  TInv'
  <2>1. Onto(x, v)
    BY <1>Drains, Zenon DEF Onto
  <2> QED BY <1>Drains, <1>Local, <2>1, Zenon DEF Goto
<1>Returns. ASSUME NEW x \in Worker, Return(x), berth' = berth, target' = target, late' = late PROVE TInv'
  BY <1>Returns, <1>Idles, <1>Local, Zenon DEF Return, Goto
<1>TDrainJobs. ASSUME NEW x \in Worker, DrainJobs(x) PROVE TInv'
  <2> USE <1>TDrainJobs
  <2>1. worker[x] \in Local /\ worker[x].pc = "drainJobs" /\ berth' = berth /\ target' = target /\ late' = late
    BY <1>Types, Zenon DEF DrainJobs, At
  <2>2. worker[x].pc \in Draining
    BY <2>1 DEF Draining
  <2>3. ASSUME NEW b PROVE [worker[x] EXCEPT !.pc = "drainPods", !.done = b].l = worker[x].l
    BY <2>1 DEF Local
  <2> QED BY <1>Drains, <1>Returns, <2>1, <2>2, <2>3, Zenon DEF DrainJobs
<1>TDrainPods. ASSUME NEW x \in Worker, DrainPods(x) PROVE TInv'
  <2> USE <1>TDrainPods
  <2>1. worker[x] \in Local /\ worker[x].pc = "drainPods" /\ berth' = berth /\ target' = target /\ late' = late
    BY <1>Types, Zenon DEF DrainPods, At
  <2>2. worker[x].pc \in Draining
    BY <2>1 DEF Draining
  <2>3. [worker[x] EXCEPT !.pc = "release", !.done = FALSE].l = worker[x].l
    BY <2>1 DEF Local
  <2> QED BY <1>Drains, <1>Returns, <2>1, <2>2, <2>3, Zenon DEF DrainPods
<1>TRelease. ASSUME NEW x \in Worker, Release(x) PROVE TInv'
  <2> USE <1>TRelease
  <2>1. worker[x] \in Local /\ worker[x].pc = "release" /\ berth' = berth /\ target' = target /\ late' = late
    BY <1>Types, Zenon DEF Release, At, objects
  <2>2. worker[x].pc \in Draining
    BY <2>1 DEF Draining
  <2>3. [worker[x] EXCEPT !.pc = "clear"].l = worker[x].l
    BY <2>1 DEF Local
  <2> QED BY <1>Drains, <1>Returns, <2>1, <2>2, <2>3, Zenon DEF Release, Step
<1>TClear. ASSUME NEW x \in Worker, Clear(x) PROVE TInv'
  <2> USE <1>TClear
  <2>1. /\ Knows(x, worker[x]) /\ worker[x].pc = "clear" /\ setup \in Setups /\ L(x) \in Berth /\ L(x).w \in Workload
        /\ L(x).w.uid \in Target \cup {None}
    BY CopyIs, Zenon DEF Clear, At, Workload
  <2>2. "clear" \in DrainPC /\ "clear" \in Draining /\ "Stopping" # "Active"
    BY DEF DrainPC, Draining
  <2>3. L(x).w.phase = "Stopping"
    BY <2>1, <2>2, Zenon DEF Knows, L
  <2>4. Current(L(x)) => ~Threat
    BY <2>1, <2>2, Zenon DEF TInv, L
  <2>5. PICK l : l = L(x)
    OBVIOUS
  <2>6. ASSUME NEW k \in Berth, k.rv = l.rv, k.w.uid = l.w.uid, Save(x, k, Idle) PROVE TInv'
    <3>1. Ends(k)
      BY <1>Copied, <2>2, <2>3, <2>4, <2>5, <2>6, Zenon DEF Ends, Current
    <3> QED BY <1>Types, <1>Idles, <1>Saved, <2>6, <3>1, Zenon
  <2>7. ASSUME Save(x, [l EXCEPT !.exists = FALSE], Idle) PROVE TInv'
    <3>1. PICK k : k = [l EXCEPT !.exists = FALSE]
      BY Zenon
    <3>2. k \in Berth /\ k.rv = l.rv /\ k.w = l.w
      BY <2>1, <2>5, <3>1, LeaseIs, ZenonT(60)
    <3> QED BY <2>6, <2>7, <3>1, <3>2, Zenon
  <2>8. ASSUME Save(x, [l EXCEPT !.w = [NoWorkload EXCEPT !.uid = l.w.uid]], Idle) PROVE TInv'
    <3>1. PICK v : v = [NoWorkload EXCEPT !.uid = l.w.uid]
      BY Zenon
    <3>2. NoWorkload \in Workload /\ l.w.uid \in Target \cup {None}
      BY <2>1, <2>5, NothingRecorded, Zenon
    <3>3. v \in Workload
      BY <3>1, <3>2, WorkloadIs, Zenon
    <3>4. v.uid = l.w.uid
      BY <3>1 DEF NoWorkload
    <3>5. PICK k : k = [l EXCEPT !.w = v]
      BY Zenon
    <3>6. k \in Berth /\ k.w = v /\ k.rv = l.rv
      <4>1. l \in Berth /\ v \in Workload
        BY <2>1, <2>5, <3>3, Zenon
      <4>2. LET n == [l EXCEPT !.w = v]
            IN n \in Berth /\ n.w = v /\ n.rv = l.rv /\ n.fin = l.fin /\ n.exists = l.exists
        BY <4>1, LeaseIs, ZenonT(60)
      <4> QED BY <3>5, <4>2, Zenon
    <3> QED BY <2>6, <2>8, <3>1, <3>4, <3>5, <3>6, Zenon
  <2> QED BY <2>5, <2>7, <2>8, Zenon DEF Clear
<1>TFail. ASSUME NEW x \in Worker, Fail(x) PROVE TInv'
  BY <1>TFail, <1>Returns, Zenon DEF Fail, objects
<1>TArrive. ASSUME NEW m \in late, Arrive(m), UpToDate PROVE TInv'
  <2> USE <1>TArrive
  <2>1. /\ m \in LeaseWrite \cup TargetWrite \cup UngateWrite \cup CreateWrite
        /\ worker' = worker /\ late' \subseteq late
    BY <1>Types, Zenon DEF Arrive
  <2>2. ASSUME LateLease(m) PROVE TInv'
    <3>1. m.l \in Berth /\ m.kind = "lease"
      BY <2>1, <2>2, Zenon DEF LateLease, LeaseWrite, TargetWrite, UngateWrite, CreateWrite
    <3>2. Ends(m.l)
      BY <3>1, Zenon DEF TInv
    <3> QED BY <1>Stored, <2>1, <2>2, <3>1, <3>2, Zenon DEF LateLease
  <2>3. ASSUME LateTarget(m) PROVE TInv'
    <3>1. m.t \in TargetObject /\ m.kind = "target" /\ berth' = berth
      BY <2>1, <2>3, Zenon DEF LateTarget, LeaseWrite, TargetWrite, UngateWrite, CreateWrite
    <3>2. m.t.fence <= berth.rv /\ m.t.uid = target.uid /\ m.t.rv = target.rv
      BY <3>1, Zenon DEF TInv, UpToDate
    <3>3. target'.uid = m.t.uid /\ target'.rv = m.t.rv + 1 /\ target'.fence = m.t.fence
      BY <2>3, <3>1, TargetIs, ZenonT(60) DEF LateTarget
    <3>4. target'.rv # target.rv
      BY <1>Types, <3>2, <3>3
    <3> QED BY <2>1, <3>1, <3>2, <3>3, <3>4, TTarget, Zenon DEF UpToDate
  <2>4. ASSUME LateUngate(m) PROVE TInv'
    BY <1>Quiet, <2>1, <2>4, Zenon DEF LateUngate
  <2>5. ASSUME LateCreate(m) PROVE TInv'
    <3>1. m.kind = "create" /\ target.uid = None /\ berth' = berth
      BY <2>5, Zenon DEF LateCreate
    <3>2. m.uid \in Target
      BY <2>1, <3>1, Zenon DEF LeaseWrite, TargetWrite, UngateWrite, CreateWrite
    <3>3. m.uid # None
      BY <3>2, OperatorAssumption
    <3>4. PICK a \in BOOLEAN : target' = [uid |-> m.uid, rv |-> 1, bound |-> TRUE, active |-> a, fence |-> 0]
      BY <2>5, Zenon DEF LateCreate
    <3>5. target'.uid = m.uid /\ target'.fence = 0
      BY <3>4
    <3>6. 0 <= berth.rv
      BY <1>Types
    <3> QED BY <2>1, <3>1, <3>3, <3>5, <3>6, TTarget, Zenon DEF UpToDate
  <2> QED BY <2>2, <2>3, <2>4, <2>5, Zenon DEF Arrive
<1>TAdmit. ASSUME NEW m \in late, Admit(m) PROVE TInv'
  <2> USE <1>TAdmit
  <2>1. /\ m \in LeaseWrite \cup TargetWrite \cup UngateWrite \cup CreateWrite
        /\ worker' = worker /\ berth' = berth /\ target' = target
    BY <1>Types, Zenon DEF Admit, objects
  <2>2. PICK n : n = [m EXCEPT !.admitted = TRUE]
    BY Zenon
  <2>3. ASSUME m.kind = "ungate" PROVE Sent(n)
    <3>1. m \in UngateWrite
      BY <2>1, <2>3, Zenon DEF LeaseWrite, TargetWrite, UngateWrite, CreateWrite
    <3>2. n.kind # "lease" /\ n.kind # "target"
      BY <2>2, <3>1 DEF UngateWrite
    <3> QED BY <3>2, Zenon DEF Sent
  <2>4. ASSUME m.kind = "target", UpdateValid(m.t) PROVE Sent(n)
    <3>1. m \in TargetWrite
      BY <2>1, <2>4, Zenon DEF LeaseWrite, TargetWrite, UngateWrite, CreateWrite
    <3>2. n.kind # "lease" /\ n.t = m.t
      BY <2>2, <3>1 DEF TargetWrite
    <3>3. m.t.fence <= berth.rv
      BY <2>4, Zenon DEF TInv
    <3> QED BY <2>4, <3>2, <3>3, Zenon DEF Sent, UpdateValid, increasesActivity
  <2>5. \A k \in late' : k \in late \/ Sent(k)
    BY <2>2, <2>3, <2>4, Zenon DEF Admit
  <2> QED BY <2>1, <2>5, TQuiet, Zenon
<1>TReject. ASSUME NEW m \in late, Reject(m) PROVE TInv'
  BY <1>TReject, <1>Quiet, Zenon DEF Reject, objects
\* A user changes the lease.
<1>UserStep. ASSUME NEW k \in Berth, UserWrites(k), System, k.w = berth.w, ~k.exists => ~Threat PROVE TInv'
  <2> USE <1>UserStep
  <2>1. PICK n : n = berth.rv + 1
    BY Zenon
  <2>2. n \in Nat /\ n > berth.rv
    BY <1>Types, <2>1
  <2>3. berth' = [k EXCEPT !.rv = n] /\ target' = target /\ late' = late /\ worker' = worker
    BY <2>1, Zenon DEF UserWrites, System
  <2>4. berth'.w = k.w /\ berth'.rv = n /\ berth'.exists = k.exists
    BY <2>2, <2>3, LeaseIs, ZenonT(60)
  <2>5. Cleared(berth') => ~Threat
    BY <2>4, Zenon DEF Cleared, TInv
  <2> QED BY <2>2, <2>3, <2>4, <2>5, TLease, Zenon
<1>TUser. ASSUME User PROVE TInv'
  <2> USE <1>TUser
  <2>1. ASSUME DeleteLease PROVE TInv'
    <3>1. CASE berth.fin
      <4>1. PICK k : k = [berth EXCEPT !.deleting = TRUE]
        BY Zenon
      <4>2. k \in Berth /\ k.exists = berth.exists /\ k.w = berth.w
        BY <1>Types, <4>1, LeaseIs, ZenonT(60)
      <4>3. UserWrites(k) /\ System /\ berth.exists
        BY <2>1, <3>1, <4>1, Zenon DEF DeleteLease, UserWrites
      <4> QED BY <1>UserStep, <4>2, <4>3, Zenon
    <3>2. CASE ~berth.fin
      <4>1. PICK k : k = [berth EXCEPT !.exists = FALSE]
        BY Zenon
      <4>2. k \in Berth /\ k.w = berth.w
        BY <1>Types, <4>1, LeaseIs, ZenonT(60)
      <4>3. UserWrites(k) /\ System
        BY <2>1, <3>2, <4>1, Zenon DEF DeleteLease
      <4>4. ~Threat
        BY <1>Types, <3>2, Zenon DEF Sound, TInv
      <4> QED BY <1>UserStep, <4>2, <4>3, <4>4, Zenon
    <3> QED BY <3>1, <3>2, Zenon
  <2>2. ASSUME EditSpec PROVE TInv'
    <3>1. PICK k : k = [berth EXCEPT !.valid = ~berth.valid]
      BY Zenon
    <3>2. k \in Berth /\ k.exists = berth.exists /\ k.w = berth.w
      <4>1. PICK b \in BOOLEAN : b = ~berth.valid
        OBVIOUS
      <4>2. berth \in Berth /\ k = [berth EXCEPT !.valid = b]
        BY <1>Types, <3>1, <4>1, Zenon
      <4>3. \A c \in BOOLEAN : LET n == [berth EXCEPT !.valid = c]
              IN n \in Berth /\ n.exists = berth.exists /\ n.rv = berth.rv /\ n.fin = berth.fin /\ n.w = berth.w
        BY <4>2, LeaseIs, ZenonT(60)
      <4> QED BY <4>1, <4>2, <4>3, Zenon
    <3>3. UserWrites(k) /\ System /\ berth.exists
      BY <2>2, <3>1, Zenon DEF EditSpec, UserWrites
    <3> QED BY <1>UserStep, <3>2, <3>3, Zenon
  <2>3. ASSUME DeleteTarget PROVE TInv'
    <3>1. berth' = berth /\ late' = late /\ target' = NoTarget
      BY <2>3, Zenon DEF DeleteTarget
    <3>2. target'.uid = None /\ target'.fence = 0
      BY <3>1 DEF NoTarget
    <3>3. 0 <= berth.rv
      BY <1>Types
    <3> QED BY <3>1, <3>2, <3>3, TTarget, Zenon
  <2>4. ASSUME NEW a \in BOOLEAN, Scale(a) PROVE TInv'
    <3>1. PICK t : t = [target EXCEPT !.active = a]
      BY Zenon
    <3>2. t.fence = target.fence
      <4>1. \A b \in BOOLEAN : LET u == [target EXCEPT !.active = b]
              IN u \in TargetObject /\ u.uid = target.uid /\ u.rv = target.rv /\ u.fence = target.fence /\ u.active = b
        BY <1>Types, TargetIs, ZenonT(60)
      <4> QED BY <2>4, <3>1, <4>1, Zenon
    <3>3. PICK m : m = [kind |-> "target", t |-> t, admitted |-> TRUE]
      BY Zenon
    <3>4. m.kind # "lease" /\ m.t = t
      BY <3>3
    <3>5. berth' = berth /\ target' = target /\ late' = late \cup {m} /\ worker' = worker /\ UpdateValid(t)
      BY <2>4, <3>1, <3>3, Zenon DEF Scale, System, objects
    <3>6. Sent(m)
      BY <3>2, <3>4, <3>5, Zenon DEF Sent, UpdateValid, increasesActivity, TInv
    <3> QED BY <3>5, <3>6, TQuiet, Zenon
  <2>5. ASSUME NEW u \in Target \cap Created, CreateTarget(u) PROVE TInv'
    <3>1. berth'.rv = berth.rv + 1
      BY <1>Types, <2>5 DEF CreateTarget, Berth
    <3>2. berth'.rv > berth.rv
      BY <1>Types, <3>1
    <3>3. target' = target /\ target.uid = None /\ worker' = worker
      BY <2>5, Zenon DEF CreateTarget, recordTarget, System
    <3>4. [kind |-> "create", uid |-> u].kind \notin {"lease", "target"}
      OBVIOUS
    <3>5. \A m \in late' : m \in late \/ m.kind \notin {"lease", "target"}
      BY <2>5, <3>4, Zenon DEF CreateTarget
    <3> QED BY <3>2, <3>3, <3>5, TLease, Zenon DEF Threat
  <2> QED BY <2>1, <2>2, <2>3, <2>4, <2>5, Zenon DEF User
<1>TKubernetes. ASSUME Kubernetes PROVE TInv'
  <2>1. berth' = berth /\ target' = target /\ worker' = worker /\ late' = late
    BY <1>TKubernetes, Zenon DEF Kubernetes, PodAdmit, PodCreated, PodBind, PodFinish,
        PodTerminated, PodDelete,
       JobCreate, JobRemoved, Pods, Jobs, System
  <2> QED BY <1>Quiet, <2>1, Zenon
<1>TService. ASSUME (\E m \in orphans : ServeOrphan(m)) \/ Rival \/ Tick \/ (\E j \in Job : JobReconcile(j)) PROVE TInv'
  <2>1. berth' = berth /\ target' = target /\ worker' = worker /\ late' = late
    BY <1>TService, Zenon DEF ServeOrphan, Rival, Tick, JobReconcile, System, objects
  <2> QED BY <1>Quiet, <2>1, Zenon
<1>TReconfigure. ASSUME Reconfigure PROVE TInv'
  <2>1. berth' = berth /\ target' = target /\ late' = late /\ \A x \in Worker : worker'[x] = Idle
    BY <1>TReconfigure, Zenon DEF Reconfigure, objects
  <2> QED BY <1>Idles, <2>1, TQuiet, Zenon
<1>TStutter. ASSUME UNCHANGED vars PROVE TInv'
  <2>1. berth' = berth /\ target' = target /\ worker' = worker /\ late' = late
    BY <1>TStutter DEF vars, objects
  <2> QED BY <1>Quiet, <2>1, Zenon
<1>1. ASSUME NEW x \in Worker, LeaseStepOf(x) \/ StopStepOf(x) \/ PermitStepOf(x) \/ Fail(x), UpToDate PROVE TInv'
  BY <1>1, <1>TReconcile, <1>TVerify, <1>TServeAcquire, <1>TAcquireError, <1>TAcquireReturns,
     <1>TActivate, <1>TListPods, <1>TStop, <1>TStopTarget, <1>TDrainJobs, <1>TDrainPods, <1>TRelease,
     <1>TClear, <1>TPermit, <1>TUngate, <1>TPodReconcile, <1>TFail, Zenon
     DEF LeaseStepOf, StopStepOf, PermitStepOf
<1>2. ASSUME Act, \A m \in late : ~Stale(m) PROVE TInv'
  <2>1. UpToDate
    BY <1>2, Zenon DEF UpToDate, Stale, AcceptsTarget
  <2> QED BY <1>1, <1>2, <2>1, <1>TArrive, <1>TAdmit, <1>TService, <1>TUser, <1>TKubernetes,
             <1>TReconfigure, <1>TStutter, Zenon DEF Act, Finished
<1> QED BY <1>2, <1>TReject, <1>TStutter, Zenon DEF Next

\* Nothing is on its way at the start, and nobody is cleaning up.
LEMMA TInit ==
  ASSUME Init, RInv
  PROVE  TInv
<1>1. late = {} /\ worker = [x \in Worker |-> Idle] /\ berth.rv \in Nat
  BY Zenon DEF Init, RInv, ObjectTypes, Berth
<1>2. \A x \in Worker : worker[x].pc \notin Draining
  BY <1>1 DEF Idle, Draining
<1>3. target.fence = 0
  <2>1. CASE target = NoTarget
    BY <2>1 DEF NoTarget
  <2>2. CASE \E u, b : target = [uid |-> u, rv |-> 1, bound |-> b, active |-> TRUE, fence |-> 0]
    BY <2>2
  <2> QED BY <2>1, <2>2, Zenon DEF Init
<1>4. target.fence <= berth.rv
  BY <1>1, <1>3
<1>5. ~Threat
  BY <1>1, Zenon DEF Threat
<1> QED BY <1>1, <1>2, <1>4, <1>5, Zenon DEF TInv

\* The admitted target is scaled up.
Rises ==
  /\ target.uid # None /\ target.uid = berth.w.uid /\ target'.uid = target.uid
  /\ ~target.active /\ target'.active

\* Only an activation and a late write scale it up.
LEMMA RisesActive ==
  ASSUME RInv, TInv, [Next]_vars, Rises
  PROVE  berth.exists /\ berth.w.phase # ""
<1>1. target' # target
  BY Zenon DEF Rises
<1>2. ~(UNCHANGED objects) /\ ~(UNCHANGED vars)
  BY <1>1 DEF objects, vars
<1>3. ASSUME NEW x, NEW l, NEW v PROVE ~Save(x, l, v)
  BY <1>1, <1>2, Zenon DEF Save, Delay
<1>4. ASSUME NEW x, NEW t \in TargetObject, NEW v, Patch(x, t, v) PROVE berth.exists /\ berth.w.phase # ""
  <2>1. UpdateValid(t) /\ target' = [t EXCEPT !.rv = t.rv + 1]
    BY <1>2, <1>4, Zenon DEF Patch, Delay
  <2>2. target'.active = t.active
    BY <1>4, <2>1, TargetIs, ZenonT(60)
  <2>3. activeAt(berth, Now)
    BY <2>1, <2>2, Zenon DEF UpdateValid, increasesActivity, Rises
  <2>4. "Active" # ""
    OBVIOUS
  <2> QED BY <2>3, <2>4, Zenon DEF activeAt
<1>5. target \in TargetObject
  BY Zenon DEF RInv, ObjectTypes
<1>6. ASSUME NEW x \in Worker, LeaseStepOf(x) PROVE berth.exists /\ berth.w.phase # ""
  <2>1. ASSUME Activate(x) PROVE berth.exists /\ berth.w.phase # ""
    <3>1. PICK b \in BOOLEAN : b = TRUE
      OBVIOUS
    <3>2. [target EXCEPT !.active = b] \in TargetObject
      BY <1>5, <3>1, TargetIs, ZenonT(60)
    <3> QED BY <1>2, <1>4, <2>1, <3>1, <3>2, Zenon DEF Activate
  <2>2. ~Reconcile(x) /\ ~AcquireReturns(x)
    BY <1>2, <1>3, Zenon DEF Reconcile, AcquireReturns
  <2>3. ~Verify(x) /\ ~ServeAcquire(x) /\ ~AcquireError(x) /\ ~ListPods(x)
    BY <1>2, Zenon DEF Verify, ServeAcquire, AcquireError, ListPods, ReadsOnly
  <2> QED BY <1>6, <2>1, <2>2, <2>3, Zenon DEF LeaseStepOf
<1>7. ASSUME NEW x \in Worker, StopStepOf(x) PROVE berth.exists /\ berth.w.phase # ""
  <2>1. ASSUME StopTarget(x) PROVE berth.exists /\ berth.w.phase # ""
    <3>1. PICK n : n = L(x).rv
      OBVIOUS
    <3>2. n \in Nat
      BY <1>7, <3>1, CopyIs, Zenon
    <3>3. \A g \in Nat : LET k == [target EXCEPT !.active = FALSE, !.fence = g]
            IN k \in TargetObject /\ k.uid = target.uid /\ k.rv = target.rv /\ k.fence = g /\ k.active = FALSE
      BY <1>5, TargetIs, ZenonT(60)
    <3>4. [target EXCEPT !.active = FALSE, !.fence = L(x).rv] \in TargetObject
      BY <3>1, <3>2, <3>3, Zenon
    <3> QED BY <1>2, <1>4, <2>1, <3>4, Zenon DEF StopTarget
  <2>2. ~Stop(x) /\ ~Clear(x)
    BY <1>3, Zenon DEF Stop, Clear
  <2>3. ~DrainJobs(x) /\ ~DrainPods(x) /\ ~Release(x)
    BY <1>1, <1>2, Zenon DEF DrainJobs, DrainPods, Release
  <2> QED BY <1>7, <2>1, <2>2, <2>3, Zenon DEF StopStepOf
<1>8. ASSUME NEW x \in Worker PROVE ~PermitStepOf(x) /\ ~Fail(x)
  <2>1. ~Permit(x)
    BY <1>2, <1>3, Zenon DEF Permit, permitPod
  <2>2. ~Ungate(x) /\ (\A p \in Pod : ~PodReconcile(x, p)) /\ ~Fail(x)
    BY <1>1, <1>2, Zenon DEF Ungate, PodReconcile, Fail, Delay
  <2> QED BY <2>1, <2>2, Zenon DEF PermitStepOf
<1>9. ASSUME NEW m \in late, Arrive(m) PROVE berth.exists /\ berth.w.phase # ""
  <2>1. LateTarget(m)
    BY <1>1, <1>9, Zenon DEF Arrive, LateLease, LateUngate, LateCreate, Rises
  <2>2. m.t \in TargetObject
    BY <1>9, <2>1, Zenon DEF LateTarget, RInv, ObjectTypes, LeaseWrite, TargetWrite, UngateWrite,
        CreateWrite
  <2>3. target'.active = m.t.active
    BY <2>1, <2>2, TargetIs, ZenonT(60) DEF LateTarget
  <2>4. Threat
    BY <1>9, <2>1, <2>3, Zenon DEF LateTarget, Threat, Raises, Rises
  <2> QED BY <2>4, Zenon DEF TInv
<1>10. ~User /\ ~Kubernetes /\ ~Reconfigure /\ ~Rival /\ ~Tick /\ ~Finished
  <2>1. ~DeleteTarget
    <3>1. NoTarget.uid = None
      BY DEF NoTarget
    <3> QED BY <3>1, Zenon DEF DeleteTarget, Rises
  <2>2. ~User
    BY <1>1, <1>2, <2>1, Zenon DEF User, DeleteLease, EditSpec, UserWrites, CreateTarget, Scale
  <2>3. ~Kubernetes
    BY <1>1, Zenon DEF Kubernetes, PodAdmit, PodCreated, PodBind, PodFinish, PodTerminated, PodDelete,
       JobCreate, JobRemoved, Pods, Jobs
  <2> QED BY <1>2, <2>2, <2>3, Zenon DEF Reconfigure, Rival, Tick, Finished
<1>11. /\ \A j \in Job : ~JobReconcile(j)
       /\ \A m \in late : ~Admit(m) /\ ~Reject(m)
       /\ \A m \in orphans : ~ServeOrphan(m)
  BY <1>1, <1>2, Zenon DEF JobReconcile, Admit, Reject, ServeOrphan
<1> QED BY <1>2, <1>6, <1>7, <1>8, <1>9, <1>10, <1>11, Zenon DEF Next, Act

=============================================================================
