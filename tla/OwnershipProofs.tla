--------------------------- MODULE OwnershipProofs ---------------------------
(***************************************************************************)
(* While the BerthLease says that Pods may start, this cluster has the     *)
(* lease; and the lease is not given back under a Pod that still executes. *)
(* Registration of Pods and the stopping of the target come first and      *)
(* last; they hold without a premise.                                      *)
(*                                                                         *)
(* The two about the lease fail if the service carries out an abandoned    *)
(* Acquire and then an abandoned Release: the first extends the tenure the *)
(* cleanup is about to give up, and the second ends it under the next      *)
(* activation, which has the same token.  So they are about behaviours in  *)
(* which no abandoned Acquire, or no abandoned Release, is on its way.     *)
(***************************************************************************)
EXTENDS OperatorProofs

W == worker["lease"]

Bounded == expires[Lease] <= clock + TTL

\* Until d, on the operator's clock, h has the lease under token tok.
Backed(h, tok, d) ==
  Now < d => holder[Lease] = h /\ token[Lease] = tok /\ d <= expires[Lease] + Offset

Live(l) == l.exists /\ l.w.phase = "Active" => Backed(l.w.holder, l.w.token, l.w.deadline)

\* The request for the lease and its answer.
Asks(v) ==
  v.pc = "acquire" =>
    /\ v.started <= Now
    /\ v.reply.res = "granted" => Backed(ident, v.reply.token, v.started + TTL)

\* Nothing is activated while the lease is being cleaned up.
Settled(v) ==
  v.pc \in DrainPC /\ berth.exists =>
    /\ berth.w.phase # "Active"
    /\ berth.w.phase = "Stopping" => berth.w = v.l.w
    /\ \A m \in late : m.kind = "lease" /\ Current(m.l) => Cleared(m.l)

OInv ==
  /\ Bounded
  /\ Live(berth)
  /\ \A m \in late : m.kind = "lease" /\ Current(m.l) => Live(m.l)
  /\ Asks(W) /\ Settled(W)

\* The tenure of w, a record with a holder and a token, is not over.
Unfinished(w) == w.token > 0 /\ token[Lease] = w.token /\ holder[Lease] = w.holder

\* Tokens on record were issued.
Issued(l) == l.w.token <= token[Lease]

NoLateAcquire == \A m \in orphans : m.op # "acquire"
NoLateRelease == \A m \in orphans : m.op # "release"

\* What is left of an abandoned Release concerns the cleanup it belongs to.
Concerns(n) ==
  /\ n.token <= token[Lease]
  /\ Unfinished(n) =>
       /\ W.pc \in DrainPC \cup {"idle"}
       /\ berth.exists => /\ berth.w.phase = "Stopping" /\ berth.w.token = n.token
                          /\ berth.w.holder = n.holder /\ \A p \in berth.w.pods : Over(p)

\* Cleanup ends only after the tenure.
Cleans(v) ==
  /\ v.pc = "clear" => ~Unfinished(v.l.w)
  /\ v.pc \in DrainPC /\ berth.exists /\ Unfinished(v.l.w) => berth.w.phase = "Stopping"

KInv ==
  /\ Issued(berth)
  /\ \A m \in late : m.kind = "lease" =>
       /\ Issued(m.l)
       /\ Current(m.l) /\ berth.w.phase = "Stopping" => ~Unfinished(berth.w)
  /\ \A x \in Worker : Issued(worker[x].l)
  /\ W.pc = "acquire" => W.reply.token <= token[Lease]
  /\ Cleans(W)
  /\ \A n \in orphans : n.op = "release" => Concerns(n)

-----------------------------------------------------------------------------
(* The forms of a step.                                                    *)

NoNewWrite == \A m \in late' : m.kind = "lease" => m \in late

\* The steps of the others: none of the lease, its writes or its reconciler.
Aside ==
  /\ UNCHANGED <<service, berth, orphans, ident>> /\ W' = W
  /\ NoNewWrite

\* Where the reconciler of the lease may go without a request for it: cleanup
\* ends with the reconciliation, and starts from what was just read.
Goes(v) ==
  /\ v.pc # "acquire"
  /\ v.pc \in DrainPC =>
       /\ v.pc # "clear"
       /\ \/ W.pc \in DrainPC /\ v.l = W.l
          \/ v.l = berth /\ berth.exists
  /\ W.pc \in DrainPC => v.pc \in DrainPC \cup {"idle"}
  /\ W.pc = "idle" /\ berth.w.phase = "Stopping" => v.pc \in DrainPC \cup {"idle"}
  /\ W.pc = "idle" => berth.exists

Proceeds ==
  /\ UNCHANGED <<service, berth, ident>> /\ NoNewWrite
  /\ \A n \in orphans' : n \in orphans \/ n.op = "acquire"
  /\ Goes(W')

\* The request starts.
Requests ==
  /\ UNCHANGED <<service, berth, late, orphans, ident>>
  /\ W.pc = "verify" /\ W'.started = Now /\ W'.reply = NoReply /\ W'.pc = "acquire"

\* What reconciler x may write as the lease.
MaySave(x, l) ==
  /\ \/ l.w.token \in {0, worker[x].l.w.token, berth.w.token}
     \/ x = "lease" /\ W.pc = "acquire" /\ l.w.token = W.reply.token
  /\ Current(l) /\ l.exists /\ l.w.phase = "Active" =>
       \/ /\ berth.w.phase = "Active" /\ l.w.holder = berth.w.holder
          /\ l.w.token = berth.w.token /\ l.w.deadline = berth.w.deadline
       \/ /\ W.pc = "acquire" /\ W.reply.res = "granted" /\ l.w.holder = ident
          /\ l.w.token = W.reply.token /\ l.w.deadline <= W.started + TTL
  /\ Current(l) /\ berth.w.phase = "Stopping" => x = "lease" /\ W.pc = "clear" /\ W.l = berth
  /\ x = "pods" /\ Current(l) => berth.w.phase = "Active"

\* The write is stored now, or later.
Saves(x, l) ==
  /\ UNCHANGED <<service, orphans, ident>>
  /\ MaySave(x, l)
  /\ x = "pods" => W' = W
  /\ \/ /\ Current(l) /\ berth' = Written(l) /\ late' = late
        /\ x = "lease" =>
             /\ W'.pc # "acquire" /\ W'.pc # "clear"
             /\ W'.pc \in DrainPC => W'.l = berth' /\ l # berth
     \/ /\ berth' = berth /\ late' = late \cup {[kind |-> "lease", l |-> l]}
        /\ x = "lease" => W' = Idle

\* Somebody else's write to the lease.
Edits ==
  /\ UNCHANGED <<service, orphans, ident>> /\ W' = W
  /\ NoNewWrite /\ berth.exists /\ berth'.rv > berth.rv
  /\ \/ berth'.w = berth.w /\ (berth'.exists \/ berth.w.phase = "")
     \/ berth.w.phase = "" /\ berth'.w.phase = "" /\ berth'.w.token = 0

\* A copy of the lease is new only if it is of the present version.
Copies == \A x \in Worker : worker'[x].l \in {NoBerth, berth', worker[x].l}

Form ==
  \/ Aside \/ Proceeds \/ Requests
  \/ \E x \in Worker : ServeAcquire(x) \/ Release(x)
  \/ \E x \in Worker, l \in Berth : Saves(x, l)
  \/ \E m \in late : LateLease(m) /\ Arrive(m)
  \/ \E m \in orphans : ServeOrphan(m)
  \/ Edits \/ Reconfigure \/ Rival \/ Tick

-----------------------------------------------------------------------------
(* The lease service.                                                      *)

\* The steps of the service that end no tenure of this cluster.
Keeping ==
  \/ UNCHANGED <<leaseVars, clock>>
  \/ clock' = clock /\ \E h \in Holder : Grants(h)
  \/ Rival \/ Tick

-----------------------------------------------------------------------------
(* Ownership is kept.                                                      *)

Lasts == \A h \in Identity, tok \in Nat, d \in Int : Backed(h, tok, d) => Backed(h, tok, d)'

\* The types of what the invariant is about.
LEMMA OTypes ==
  ASSUME RInv
  PROVE  /\ setup \in Setups /\ LeaseTypes /\ berth \in Berth /\ Sound(berth) /\ berth.rv \in Nat
         /\ W \in Local /\ W.l \in Berth /\ Sound(W.l) /\ Knows("lease", W) /\ Fresh(W.l) /\ ident \in Identity
         /\ Identity \subseteq Holder /\ NoHolder \notin Identity /\ TTL \in Nat /\ W.started \in Int
         /\ W.reply.token \in Nat /\ W.started + TTL \in Int
         /\ \A m \in late : m.kind = "lease" => m.l \in Berth /\ Write(m.l) /\ m.l.rv \in Nat /\ m.l.rv <= berth.rv
<1>1. "lease" \in Worker
  BY DEF Worker
<1>2. setup \in Setups /\ LeaseTypes /\ berth \in Berth /\ Sound(berth) /\ berth.rv \in Nat /\ ident \in Identity
  BY Zenon DEF RInv, ObjectTypes, Berth
<1>3. W \in Local /\ W.l \in Berth /\ Sound(W.l) /\ Knows("lease", W) /\ Fresh(W.l) /\ W.reply \in Reply /\ W.started \in Int
  BY <1>1, CopyIs, Zenon DEF W, L, Local
<1>4. Identity \subseteq Holder /\ NoHolder \notin Identity /\ TTL \in Nat
  BY <1>2, SetupTypes, Zenon
<1>5. W.reply.token \in Nat /\ W.started + TTL \in Int
  BY <1>3, <1>4 DEF Reply
<1>6. ASSUME NEW m \in late, m.kind = "lease"
      PROVE  m.l \in Berth /\ Write(m.l) /\ m.l.rv \in Nat /\ m.l.rv <= berth.rv
  BY <1>6, Zenon DEF RInv, ObjectTypes, LeaseWrite, TargetWrite, UngateWrite, CreateWrite, Write, Berth
<1> QED BY <1>2, <1>3, <1>4, <1>5, <1>6, Zenon

\* What follows when the service does nothing.
LEMMA Unserved ==
  ASSUME UNCHANGED service
  PROVE  /\ setup' = setup /\ Keeping /\ Now' = Now /\ TTL' = TTL
         /\ UNCHANGED <<holder, token, expires, clock>>
         /\ \A h, tok, d : Backed(h, tok, d)' <=> Backed(h, tok, d)
<1>1. setup' = setup /\ UNCHANGED <<holder, token, expires, clock>> /\ UNCHANGED <<leaseVars, clock>>
  BY DEF service, leaseVars
<1>2. Now' = Now /\ TTL' = TTL /\ Offset' = Offset
  BY <1>1 DEF Now, TTL, Offset
<1> QED BY <1>1, <1>2, Zenon DEF Keeping, Backed

\* The values of a reconciler that has nothing to do.
LEMMA IdleIs == Idle.pc = "idle" /\ Idle.l = NoBerth /\ NoReply.res # "granted" /\ "idle" \notin DrainPC /\ "idle" # "acquire"
BY DEF Idle, NoReply, DrainPC

\* Only the reconciler of the lease asks for it and gives it back.
LEMMA Which ==
  ASSUME RInv, NEW x \in Worker, worker[x].pc \in {"acquire", "release"}
  PROVE  x = "lease"
<1>1. x \in {"lease", "pods"} /\ "acquire" \notin {"idle", "permit", "ungate"} /\ "release" \notin {"idle", "permit", "ungate"}
  BY DEF Worker
<1>2. Knows(x, worker[x])
  BY CopyIs, Zenon
<1> QED BY <1>1, <1>2 DEF Knows

\* A new version of the lease leaves no write of the old one current.
LEMMA Outdated ==
  ASSUME RInv, berth'.rv \in Nat, berth'.rv > berth.rv
  PROVE  \A m \in late : m.kind = "lease" => ~Current(m.l)'
<1>1. ASSUME NEW m \in late, m.kind = "lease" PROVE m.l.rv # berth'.rv
  BY <1>1, OTypes
<1> QED BY <1>1, Zenon DEF Current

\* Storing l stores what it says.
LEMMA StoredIs ==
  ASSUME RInv, NEW l \in Berth, Current(l), berth' = Written(l)
  PROVE  /\ berth'.w = l.w /\ berth'.exists = l.exists /\ berth' \in Berth /\ berth'.rv \in Nat
         /\ l = berth => berth' = berth
         /\ l # berth => berth'.rv > berth.rv
<1>1. /\ Written(l) \in Berth /\ Written(l).w = l.w /\ Written(l).exists = l.exists
      /\ (l # berth => Written(l).rv = l.rv + 1) /\ (l = berth => Written(l) = l)
  BY OTypes, WrittenIs, Zenon
<1>2. l.rv = berth.rv /\ berth.rv \in Nat /\ berth'.rv \in Nat
  BY <1>1, OTypes, Zenon DEF Current, Berth
<1> QED BY <1>1, <1>2

\* Where the reconciler is after its Release.
LEMMA Released ==
  ASSUME RInv, NEW x \in Worker, Release(x)
  PROVE  /\ x = "lease" /\ W.pc = "release" /\ W.pc \in DrainPC /\ "clear" \in DrainPC /\ "clear" # "acquire"
         /\ setup' = setup /\ clock' = clock /\ berth' = berth /\ late' = late /\ ident' = ident
         /\ \/ W'.pc = "clear" /\ W'.l = W.l
            \/ W' = Idle
<1>1. x = "lease" /\ W.pc = "release"
  BY Which, Zenon DEF Release, At, W
<1>2. setup' = setup /\ clock' = clock /\ berth' = berth /\ late' = late /\ ident' = ident
  BY Zenon DEF Release, objects
<1>3. "release" \in DrainPC /\ "clear" \in DrainPC /\ "clear" \in PC /\ "clear" # "acquire"
  BY DEF DrainPC, PC
<1>4. worker \in [Worker -> Local] /\ W \in Local
  BY OTypes, Zenon DEF RInv, ObjectTypes
<1>5. ASSUME Step(x, "clear") PROVE W'.pc = "clear" /\ W'.l = W.l
  <2>1. W' = [W EXCEPT !.pc = "clear"]
    BY <1>1, <1>4, <1>5, Zenon DEF Step, Goto, W
  <2> QED BY <1>3, <1>4, <2>1, MovedIs, Zenon
<1>6. ASSUME Return(x) PROVE W' = Idle
  BY <1>1, <1>4, <1>6, Zenon DEF Return, Goto, W
<1> QED BY <1>1, <1>2, <1>3, <1>5, <1>6, Zenon DEF Release

\* Every form of a step keeps ownership.
LEMMA ONext ==
  RInv /\ RInv' /\ OInv /\ (KInv \/ NoLateRelease) /\ Form => OInv'
\* What backs this cluster goes on, and every deadline stays within a TTL.
<1>BackedKept. ASSUME LeaseTypes, setup \in Setups, setup' = setup, Bounded, Keeping
               PROVE  /\ Bounded' /\ Now \in Int /\ Now' \in Int /\ Now <= Now'
                      /\ \A h \in Identity, tok \in Nat, d \in Int : Backed(h, tok, d) => Backed(h, tok, d)'
  <2> USE <1>BackedKept
  <2> USE OperatorAssumption
  <2>1. /\ TTL \in Nat /\ clock \in Int /\ Lease \in Key /\ Offset \in Int /\ Identity \subseteq Holder
        /\ NoHolder \notin Identity /\ expires[Lease] \in Int /\ expires \in [Key -> Int]
        /\ holder \in [Key -> Holder \cup {NoHolder}] /\ token \in [Key -> Nat] /\ token[Lease] \in Nat
    BY SetupTypes DEF LeaseTypes
  <2>2. TTL' = TTL /\ Offset' = Offset
    BY DEF TTL, Offset
  <2>3. clock' = clock \/ clock' = clock + 1
    <3>1. CASE UNCHANGED <<leaseVars, clock>>
      BY <3>1
    <3> QED BY <3>1, Zenon DEF Keeping, Rival, Tick, Advance
  <2>4. Now \in Int /\ Now' \in Int /\ Now <= Now'
    BY <2>1, <2>2, <2>3 DEF Now
  <2>5. CASE UNCHANGED <<leaseVars, clock>>
    BY <2>1, <2>2, <2>4, <2>5 DEF Bounded, Backed, Now, leaseVars
  <2>6. ASSUME NEW a \in Holder, holder[Lease] = NoHolder \/ Expired, clock' = clock,
               expires' = [expires EXCEPT ![Lease] = clock + TTL]
        PROVE  /\ Bounded'
               /\ \A h \in Identity, tok \in Nat, d \in Int : Backed(h, tok, d) => Backed(h, tok, d)'
    BY <2>1, <2>2, <2>6 DEF Bounded, Backed, Now, Expired
  <2>7. ASSUME NEW a \in Holder, clock' = clock, Grants(a)
        PROVE  /\ Bounded'
               /\ \A h \in Identity, tok \in Nat, d \in Int : Backed(h, tok, d) => Backed(h, tok, d)'
    <3>1. expires' = [expires EXCEPT ![Lease] = clock + TTL]
      BY <2>7 DEF Grants
    <3>2. CASE Extend(Lease)
      BY <2>1, <2>2, <2>7, <3>1, <3>2 DEF Bounded, Backed, Now, Extend
    <3>3. CASE holder[Lease] = NoHolder \/ Expired
      BY <2>6, <2>7, <3>1, <3>3, Zenon
    <3> QED BY <2>7, <3>2, <3>3, Zenon DEF Grants
  <2>8. CASE Rival
    <3>1. clock' = clock
      BY <2>8, Zenon DEF Rival
    <3>2. ASSUME NEW a \in Holder \ Identity, holder[Lease] = NoHolder \/ Expired,
                 expires' = [expires EXCEPT ![Lease] = clock + TTL]
          PROVE  /\ Bounded'
                 /\ \A h \in Identity, tok \in Nat, d \in Int : Backed(h, tok, d) => Backed(h, tok, d)'
      BY <2>6, <3>1, <3>2, Zenon
    <3>3. ASSUME holder[Lease] \notin Identity, UNCHANGED expires
          PROVE  /\ Bounded'
                 /\ \A h \in Identity, tok \in Nat, d \in Int : Backed(h, tok, d) => Backed(h, tok, d)'
      BY <2>1, <2>2, <3>1, <3>3 DEF Bounded, Backed, Now
    <3> QED BY <2>4, <2>8, <3>2, <3>3, Zenon DEF Rival
  <2>9. CASE Tick
    <3>1. clock' = clock + 1 /\ UNCHANGED leaseVars
      BY <2>9, Zenon DEF Tick, Advance
    <3> QED BY <2>1, <2>2, <2>4, <3>1 DEF Bounded, Backed, Now, leaseVars
  <2> QED BY <2>4, <2>5, <2>7, <2>8, <2>9, Zenon DEF Keeping
\* What is backed stays so.
<1>LiveKept. ASSUME setup \in Setups, Lasts, NEW l \in Berth, Sound(l), Live(l)
             PROVE  Live(l)'
  <2> USE <1>LiveKept
  <2>1. ASSUME l.w.phase = "Active" PROVE l.w.holder \in Identity /\ l.w.token \in Nat /\ l.w.deadline \in Int
    BY <2>1, Zenon DEF Sound, Berth, Workload
  <2> QED BY <2>1, Zenon DEF Live, Lasts
\* A step keeps ownership if what is new among the lease, its writes and its
\* reconciler's knowledge is right.
<1>OGlue. ASSUME RInv, OInv, Bounded', Lasts,
                 berth' = berth \/ (berth'.rv \in Nat /\ berth.rv < berth'.rv /\ Live(berth)'),
                 \A m \in late' : m.kind = "lease" => m \in late \/ (Current(m.l)' => Live(m.l)'),
                 Asks(W)', Settled(W)'
          PROVE  OInv'
  <2> USE <1>OGlue
  <2>1. Live(berth)'
    <3>1. ASSUME berth' = berth PROVE Live(berth)'
      <4>1. PICK b : b = berth
        OBVIOUS
      <4>2. Live(b)' /\ berth' = b
        BY <3>1, <4>1, OTypes, <1>LiveKept, Zenon DEF OInv
      <4> QED BY <4>2, Zenon DEF Live
    <3> QED BY <3>1, Zenon
  <2>2. ASSUME NEW m \in late', m.kind = "lease", Current(m.l)' PROVE Live(m.l)'
    <3> SUFFICES ASSUME m \in late PROVE Live(m.l)'
      BY <2>2, Zenon
    <3>1. m.l \in Berth /\ Write(m.l) /\ Sound(m.l) /\ m.l.rv \in Nat /\ m.l.rv <= berth.rv /\ berth.rv \in Nat
      BY <2>2, OTypes, Zenon DEF Write
    <3>2. berth' = berth
      <4>1. m.l.rv = berth'.rv
        BY <2>2, Zenon DEF Current
      <4> QED BY <3>1, <4>1
    <3>3. Live(m.l)
      BY <2>2, <3>2, Zenon DEF OInv, Current
    <3> QED BY <3>1, <3>3, OTypes, <1>LiveKept, Zenon
  <2> QED BY <2>1, <2>2, Zenon DEF OInv
\* The request of a reconciler that does not move stays what it was, and so does
\* the cleanup if the lease does not change.
<1>StandsStill. ASSUME RInv, OInv, setup' = setup, Keeping, W' = W, ident' = ident
                PROVE  /\ Bounded' /\ Lasts /\ Asks(W)'
                       /\ berth' = berth /\ NoNewWrite => Settled(W)'
  <2> USE <1>StandsStill
  <2>1. Bounded' /\ Lasts /\ Now \in Int /\ Now' \in Int /\ Now <= Now'
    BY OTypes, <1>BackedKept, Zenon DEF OInv, Lasts
  <2>2. TTL' = TTL
    BY DEF TTL
  <2>3. Asks(W)'
    <3>1. ASSUME W.pc = "acquire" PROVE W.started <= Now'
      BY <2>1, <3>1, OTypes DEF OInv, Asks
    <3>2. ASSUME W.pc = "acquire", W.reply.res = "granted" PROVE Backed(ident, W.reply.token, W.started + TTL)'
      <4>1. PICK h, tok, d : h = ident /\ tok = W.reply.token /\ d = W.started + TTL
        OBVIOUS
      <4>2. Backed(h, tok, d) /\ h \in Identity /\ tok \in Nat /\ d \in Int
        BY <3>2, <4>1, OTypes, Zenon DEF OInv, Asks
      <4>3. Backed(h, tok, d)'
        BY <2>1, <4>2, Zenon DEF Lasts
      <4>4. (h = ident /\ tok = W.reply.token /\ d = W.started + TTL)'
        BY <2>2, <4>1, Zenon
      <4> QED BY <4>3, <4>4, Zenon DEF Backed
    <3> QED BY <3>1, <3>2, Zenon DEF Asks
  <2>4. ASSUME berth' = berth, NoNewWrite PROVE Settled(W)'
    BY <2>4, Zenon DEF OInv, Settled, NoNewWrite, Current, Cleared
  <2> QED BY <2>1, <2>3, <2>4, Zenon
\* Steps of the others, and of the service.
<1>OAside. ASSUME RInv, OInv, setup' = setup, Keeping, W' = W, ident' = ident, berth' = berth, NoNewWrite
           PROVE  OInv'
  BY <1>OAside, <1>StandsStill, <1>OGlue, Zenon DEF NoNewWrite
\* The reconciler goes on.
<1>OProceeds. ASSUME RInv, RInv', OInv, Proceeds
              PROVE  OInv'
  <2> USE <1>OProceeds
  <2>1. setup' = setup /\ Keeping /\ berth' = berth /\ ident' = ident /\ NoNewWrite
    BY Zenon DEF Proceeds, Goes, Keeping, service
  <2>2. Bounded' /\ Lasts
    BY <2>1, OTypes, <1>BackedKept, Zenon DEF OInv, Lasts
  <2>3. Asks(W)'
    BY Zenon DEF Asks, Proceeds, Goes
  <2>4. Settled(W)'
    <3> SUFFICES ASSUME W'.pc \in DrainPC, berth'.exists PROVE Settled(W)'
      BY Zenon DEF Settled
    <3>1. CASE W.pc \in DrainPC /\ W'.l = W.l
      BY <2>1, <3>1, Zenon DEF OInv, Settled, NoNewWrite, Current, Cleared
    <3>2. CASE W'.l = berth
      <4>1. Knows("lease", W)'
        BY OTypes, PTL
      <4>2. berth.w.phase = "Stopping"
        BY <3>2, <4>1, Zenon DEF Knows
      <4>3. ASSUME NEW m \in late, m.kind = "lease", Current(m.l) PROVE Cleared(m.l)
        BY <4>2, <4>3, OTypes, Zenon DEF Write, Follows
      <4>4. "Stopping" # "Active"
        OBVIOUS
      <4> QED BY <2>1, <3>2, <4>2, <4>3, <4>4, Zenon DEF Settled, NoNewWrite, Current, Cleared
    <3> QED BY <3>1, <3>2, Zenon DEF Proceeds, Goes
  <2> QED BY <2>1, <2>2, <2>3, <2>4, <1>OGlue, Zenon DEF NoNewWrite
\* The request starts now.
<1>ORequests. ASSUME RInv, OInv, Requests
              PROVE  OInv'
  <2> USE <1>ORequests
  <2>1. Keeping /\ setup' = setup /\ Now' = Now /\ berth' = berth /\ late' = late
    BY Unserved, Zenon DEF Requests
  <2>2. Bounded' /\ Lasts /\ Now \in Int
    BY <2>1, OTypes, <1>BackedKept, Zenon DEF OInv, Lasts
  <2>3. Now <= Now
    BY <2>2
  <2>4. Asks(W)'
    BY <2>1, <2>3, IdleIs, Zenon DEF Requests, Asks
  <2>5. Settled(W)'
    <3>1. "acquire" \notin DrainPC
      BY DEF DrainPC
    <3> QED BY <3>1, Zenon DEF Settled, Requests
  <2> QED BY <2>1, <2>2, <2>4, <2>5, <1>OGlue, Zenon
\* A grant backs what is activated upon it: its deadline was taken from the
\* time before the request.
<1>OServeAcquire. ASSUME RInv, OInv, NEW x \in Worker, ServeAcquire(x)
                  PROVE  OInv'
  <2> USE <1>OServeAcquire
  <2>1. x = "lease" /\ W.pc = "acquire"
    BY Which, Zenon DEF ServeAcquire, At, W
  <2>2. setup' = setup /\ clock' = clock /\ berth' = berth /\ late' = late /\ ident' = ident
    BY Zenon DEF ServeAcquire, objects
  <2>3. /\ LeaseTypes /\ setup \in Setups /\ W \in Local /\ TTL \in Nat /\ W.started \in Int /\ W.started <= Now
        /\ ident \in Holder /\ ident \in Identity /\ worker \in [Worker -> Local]
    BY <2>1, OTypes, Zenon DEF OInv, Asks, RInv, ObjectTypes
  <2>4. Offset \in Int /\ clock \in Int /\ TTL' = TTL /\ Now' = Now /\ Offset' = Offset /\ Now = clock + Offset
    BY <2>2, <2>3, SetupTypes, Zenon DEF TTL, Now, Offset, LeaseTypes
  <2>5. Keeping
    BY <2>2, <2>3, Zenon DEF ServeAcquire, Denies, Keeping
  <2>6. Bounded' /\ Lasts
    BY <2>2, <2>3, <2>5, <1>BackedKept, Zenon DEF OInv, Lasts
  <2>7. ASSUME NEW r \in Reply, Goto(x, [worker[x] EXCEPT !.reply = r])
        PROVE  W'.pc = "acquire" /\ W'.started = W.started /\ W'.reply = r
    <3>1. W' = [W EXCEPT !.reply = r]
      BY <2>1, <2>3, <2>7, Zenon DEF Goto, W
    <3>2. LET u == [W EXCEPT !.reply = r] IN u.pc = W.pc /\ u.started = W.started /\ u.reply = r
      BY <2>3, RequestIs, Zenon
    <3> QED BY <2>1, <3>1, <3>2, Zenon
  <2>8. Asks(W)'
    <3>1. CASE /\ Grants(ident)
               /\ Goto(x, [worker[x] EXCEPT !.reply =
                             [res |-> "granted", token |-> token'[Lease], expires |-> expires'[Lease]]])
      <4>1. /\ token'[Lease] \in Nat /\ expires'[Lease] = clock + TTL /\ clock + TTL \in Int
        BY <2>2, <2>3, <3>1, LeaseKept, Zenon
      <4>2. PICK r : r = [res |-> "granted", token |-> token'[Lease], expires |-> expires'[Lease]]
        BY Zenon
      <4>3. r \in Reply /\ r.token = token'[Lease]
        BY <4>1, <4>2 DEF Reply
      <4>4. W'.pc = "acquire" /\ W'.started = W.started /\ W'.reply = r
        BY <2>7, <3>1, <4>2, <4>3, Zenon
      <4>5. holder'[Lease] = ident
        <5>1. Lease \in Key /\ holder \in [Key -> Holder \cup {NoHolder}]
          BY <2>3, OperatorAssumption, Zenon DEF LeaseTypes
        <5> QED BY <3>1, <5>1 DEF Grants, Extend, Claim
      <4>6. W.started + TTL <= expires'[Lease] + Offset
        BY <2>3, <2>4, <4>1
      <4>7. Backed(ident, W.reply.token, W.started + TTL)'
        BY <2>2, <2>4, <4>3, <4>4, <4>5, <4>6, Zenon DEF Backed
      <4> QED BY <2>3, <2>4, <4>4, <4>7, Zenon DEF Asks
    <3>2. CASE Goto(x, [worker[x] EXCEPT !.reply = [NoReply EXCEPT !.res = "denied"]])
      <4>1. PICK r : r = [NoReply EXCEPT !.res = "denied"]
        BY Zenon
      <4>2. r \in Reply /\ r.res # "granted"
        BY <4>1 DEF Reply, NoReply
      <4>3. W'.pc = "acquire" /\ W'.started = W.started /\ W'.reply = r
        BY <2>7, <3>2, <4>1, <4>2, Zenon
      <4> QED BY <2>3, <2>4, <4>2, <4>3, Zenon DEF Asks
    <3> QED BY <3>1, <3>2, Zenon DEF ServeAcquire
  <2>9. Settled(W)'
    <3>1. W'.pc = "acquire"
      BY <2>1, <2>3 DEF ServeAcquire, Goto, W, Local
    <3>2. "acquire" \notin DrainPC
      BY DEF DrainPC
    <3> QED BY <3>1, <3>2, Zenon DEF Settled
  <2> QED BY <2>2, <2>6, <2>8, <2>9, <1>OGlue, Zenon
\* What a reconciler writes to the current lease is backed.
<1>SavesLive. ASSUME RInv, OInv, NEW x \in Worker, NEW l \in Berth, Saves(x, l), Current(l)
              PROVE  Live(l)
  <2> USE <1>SavesLive
  <2> SUFFICES ASSUME l.exists, l.w.phase = "Active" PROVE Backed(l.w.holder, l.w.token, l.w.deadline)
    BY Zenon DEF Live
  <2>1. CASE /\ berth.w.phase = "Active" /\ l.w.holder = berth.w.holder
             /\ l.w.token = berth.w.token /\ l.w.deadline = berth.w.deadline
    BY <2>1, Zenon DEF Current, OInv, Live
  <2>2. CASE /\ W.pc = "acquire" /\ W.reply.res = "granted" /\ l.w.holder = ident
             /\ l.w.token = W.reply.token /\ l.w.deadline <= W.started + TTL
    <3>1. Backed(ident, W.reply.token, W.started + TTL)
      BY <2>2, Zenon DEF OInv, Asks
    <3>2. /\ l.w.deadline \in Int /\ W.started + TTL \in Int /\ clock \in Int /\ Offset \in Int
          /\ expires[Lease] \in Int
      BY OTypes, SetupTypes, OperatorAssumption, Zenon DEF Berth, Workload, LeaseTypes
    <3> QED BY <2>2, <3>1, <3>2 DEF Backed, Now
  <2> QED BY <2>1, <2>2, Zenon DEF Saves, MaySave
\* A reconciler writes the lease.
<1>OSaves. ASSUME RInv, RInv', OInv, NEW x \in Worker, NEW l \in Berth, Saves(x, l)
           PROVE  OInv'
  <2> USE <1>OSaves
  <2>1. /\ Keeping /\ setup' = setup /\ ident' = ident
        /\ \A h, tok, d : Backed(h, tok, d)' <=> Backed(h, tok, d)
    BY Unserved, Zenon DEF Saves, MaySave
  <2>2. Bounded' /\ Lasts
    BY <2>1, OTypes, <1>BackedKept, Zenon DEF OInv, Lasts
  <2>3. x = "lease" \/ x = "pods"
    BY DEF Worker
  <2>4. Knows("lease", W)'
    BY OTypes, PTL
  <2>5. Asks(W)'
    <3>1. CASE x = "lease"
      BY <3>1, IdleIs, Zenon DEF Saves, MaySave, Asks
    <3>2. CASE x = "pods"
      BY <2>1, <3>2, <1>StandsStill, Zenon DEF Saves, MaySave
    <3> QED BY <2>3, <3>1, <3>2, Zenon
  <2>6. ASSUME Current(l), berth' = Written(l), late' = late,
               x = "lease" => (W'.pc \in DrainPC => W'.l = berth' /\ l # berth)
        PROVE  OInv'
    <3>1. /\ berth'.w = l.w /\ berth'.exists = l.exists /\ berth'.rv \in Nat
          /\ (l = berth => berth' = berth) /\ (l # berth => berth'.rv > berth.rv)
      BY <2>6, StoredIs, Zenon
    <3>2. Live(berth)'
      <4>1. Live(l)
        BY <2>6, <1>SavesLive, Zenon
      <4> QED BY <2>1, <3>1, <4>1, Zenon DEF Live
    <3>3. Settled(W)'
      <4> SUFFICES ASSUME W'.pc \in DrainPC, berth'.exists PROVE Settled(W)'
        BY Zenon DEF Settled
      <4>1. CASE x = "lease"
        <5>1. W'.l = berth' /\ berth'.rv > berth.rv
          BY <2>6, <3>1, <4>1, Zenon
        <5>2. berth'.w.phase = "Stopping" /\ "Stopping" # "Active"
          BY <2>4, <5>1, Zenon DEF Knows
        <5>3. \A m \in late : m.kind = "lease" => ~Current(m.l)'
          BY <3>1, <5>1, Outdated, Zenon
        <5> QED BY <2>6, <5>1, <5>2, <5>3, Zenon DEF Settled
      <4>2. CASE x = "pods"
        <5>1. W' = W /\ berth.w.phase = "Active" /\ berth.exists
          BY <2>6, <4>2, Zenon DEF Saves, MaySave, Current
        <5> QED BY <5>1, Zenon DEF OInv, Settled
      <4> QED BY <2>3, <4>1, <4>2, Zenon
    <3>4. berth' = berth \/ berth'.rv > berth.rv
      BY <3>1, Zenon
    <3>5. berth.rv \in Nat
      BY OTypes, Zenon
    <3>6. berth' = berth \/ berth.rv < berth'.rv
      BY <3>1, <3>4, <3>5
    <3> QED BY <2>2, <2>5, <2>6, <3>1, <3>2, <3>3, <3>6, <1>OGlue, Zenon
  <2>7. ASSUME berth' = berth, late' = late \cup {[kind |-> "lease", l |-> l]}, x = "lease" => W' = Idle
        PROVE  OInv'
    <3>1. PICK n : n = [kind |-> "lease", l |-> l]
      BY Zenon
    <3>2. n.l = l /\ late' = late \cup {n}
      BY <2>7, <3>1
    <3>3. Current(l)' => Current(l)
      BY <2>7, Zenon DEF Current
    <3>4. Current(l)' => Live(l)'
      BY <2>1, <3>3, <1>SavesLive, Zenon DEF Live
    <3>5. \A m \in late' : m.kind = "lease" => m \in late \/ (Current(m.l)' => Live(m.l)')
      BY <3>2, <3>4, Zenon
    <3>6. Settled(W)'
      <4> SUFFICES ASSUME W'.pc \in DrainPC, berth'.exists PROVE Settled(W)'
        BY Zenon DEF Settled
      <4>1. x = "pods" /\ W' = W
        BY <2>3, <2>7, IdleIs, Zenon DEF Saves, MaySave
      <4>2. ~Current(l)
        BY <2>7, <4>1, Zenon DEF Saves, MaySave, OInv, Settled
      <4> QED BY <2>7, <3>2, <3>3, <4>1, <4>2, Zenon DEF OInv, Settled, Current, Cleared
    <3> QED BY <2>2, <2>5, <2>7, <3>5, <3>6, <1>OGlue, Zenon
  <2> QED BY <2>6, <2>7, Zenon DEF Saves, MaySave
\* A write that arrives late.
<1>OLate. ASSUME RInv, OInv, NEW m \in late, LateLease(m), Arrive(m)
          PROVE  OInv'
  <2> USE <1>OLate
  <2>1. /\ UNCHANGED service /\ ident' = ident /\ W' = W /\ late' = late \ {m} /\ berth' = Written(m.l)
        /\ m.kind = "lease" /\ Current(m.l)
    BY Zenon DEF Arrive, LateLease, W, Accepts, Current
  <2>2. Keeping /\ setup' = setup /\ \A h, tok, d : Backed(h, tok, d)' <=> Backed(h, tok, d)
    BY <2>1, Unserved, Zenon
  <2>3. Bounded' /\ Lasts /\ Asks(W)' /\ (berth' = berth /\ NoNewWrite => Settled(W)')
    BY <2>1, <2>2, <1>StandsStill, Zenon
  <2>4. m.l \in Berth /\ berth.rv \in Nat
    BY <2>1, OTypes, Zenon
  <2>5. /\ berth'.w = m.l.w /\ berth'.exists = m.l.exists /\ berth'.rv \in Nat
        /\ (berth' = berth \/ berth'.rv > berth.rv)
    BY <2>1, <2>4, StoredIs, Zenon
  <2>6. Live(berth)'
    <3>1. Live(m.l)
      BY <2>1, Zenon DEF OInv
    <3> QED BY <2>2, <2>5, <3>1, Zenon DEF Live
  <2>7. Settled(W)'
    <3>1. CASE berth' = berth
      BY <2>1, <2>3, <3>1, Zenon DEF NoNewWrite
    <3>2. CASE berth'.rv > berth.rv
      <4> SUFFICES ASSUME W'.pc \in DrainPC, berth'.exists PROVE Settled(W)'
        BY Zenon DEF Settled
      <4>1. Cleared(m.l)
        BY <2>1, Zenon DEF OInv, Settled, Current
      <4>2. berth'.w.phase = "" /\ "" # "Active" /\ "" # "Stopping"
        BY <2>5, <4>1, Zenon DEF Cleared
      <4>3. \A n \in late : n.kind = "lease" => ~Current(n.l)'
        BY <2>5, <3>2, Outdated, Zenon
      <4> QED BY <2>1, <4>2, <4>3, Zenon DEF Settled
    <3> QED BY <2>5, <3>1, <3>2, Zenon
  <2>8. berth' = berth \/ berth.rv < berth'.rv
    BY <2>4, <2>5
  <2> QED BY <2>1, <2>3, <2>5, <2>6, <2>7, <2>8, <1>OGlue, Zenon
\* A user's write.
<1>OEdits. ASSUME RInv, RInv', OInv, Edits
           PROVE  OInv'
  <2> USE <1>OEdits
  <2>1. Keeping /\ setup' = setup /\ W' = W /\ ident' = ident /\ \A h, tok, d : Backed(h, tok, d)' <=> Backed(h, tok, d)
    BY Unserved, Zenon DEF Edits
  <2>2. Bounded' /\ Lasts /\ Asks(W)'
    BY <2>1, <1>StandsStill, Zenon
  <2>3. berth'.rv \in Nat /\ berth'.rv > berth.rv /\ berth.rv \in Nat /\ berth.exists
    BY OTypes, Zenon DEF Edits, RInv, ObjectTypes, Berth
  <2>4. "" # "Active" /\ "" # "Stopping"
    OBVIOUS
  <2>5. Live(berth)'
    BY <2>1, <2>3, <2>4, Zenon DEF Live, Edits, OInv
  <2>6. Settled(W)'
    <3>1. \A m \in late' : m.kind = "lease" => ~Current(m.l)'
      BY <2>3, Outdated, Zenon DEF Edits, NoNewWrite
    <3> QED BY <2>1, <2>3, <2>4, <3>1, Zenon DEF Settled, Edits, OInv
  <2>7. berth.rv < berth'.rv
    BY <2>3
  <2> QED BY <2>2, <2>3, <2>5, <2>6, <2>7, <1>OGlue, Zenon DEF Edits, NoNewWrite
\* A release keeps deadlines within a TTL.
<1>ReleaseBounded. ASSUME RInv, OInv, setup' = setup, clock' = clock, NEW h, NEW tok, Releases(h, tok)
                   PROVE  Bounded'
  <2> USE <1>ReleaseBounded
  <2>1. clock \in Int /\ TTL \in Nat /\ Lease \in Key /\ expires \in [Key -> Int] /\ TTL' = TTL
    BY OTypes, OperatorAssumption DEF LeaseTypes, TTL
  <2> QED BY <2>1 DEF Releases, Bounded, OInv, leaseVars
\* Where nothing is active a release can do no harm.
<1>OCalm. ASSUME RInv, OInv, Bounded', berth' = berth, late' = late,
                 berth.exists => /\ berth.w.phase # "Active"
                                 /\ \A m \in late : m.kind = "lease" /\ Current(m.l) => Cleared(m.l),
                 W'.pc # "acquire", Settled(W)'
          PROVE  OInv'
  <2> USE <1>OCalm
  <2>1. "" # "Active"
    OBVIOUS
  <2>2. Live(berth)'
    BY Zenon DEF Live
  <2>3. ASSUME NEW m \in late', m.kind = "lease", Current(m.l)' PROVE Live(m.l)'
    BY <2>1, <2>3, Zenon DEF Live, Current, Cleared
  <2> QED BY <2>2, <2>3, Zenon DEF OInv, Asks
\* The Release of a cleanup.
<1>ORelease. ASSUME RInv, OInv, NEW x \in Worker, Release(x)
             PROVE  OInv'
  <2> USE <1>ORelease
  <2>1. /\ W.pc \in DrainPC /\ setup' = setup /\ clock' = clock /\ berth' = berth /\ late' = late
        /\ W'.pc # "acquire" /\ (W'.pc \in DrainPC => W'.l = W.l)
    BY Released, IdleIs, Zenon
  <2>2. Settled(W)'
    BY <2>1, Zenon DEF OInv, Settled, Current, Cleared
  <2>3. Bounded'
    <3>1. ASSUME UNCHANGED leaseVars PROVE Bounded'
      <4>1. Keeping
        BY <2>1, <3>1, Zenon DEF Keeping
      <4> QED BY <2>1, <4>1, OTypes, <1>BackedKept, Zenon DEF OInv
    <3>2. ASSUME NEW m \in orphans, Grants(m.holder) PROVE Bounded'
      <4>1. m.holder \in Holder
        BY <3>2, Zenon DEF RInv, ObjectTypes, Orphan
      <4>2. Keeping
        BY <2>1, <3>2, <4>1, Zenon DEF Keeping
      <4> QED BY <2>1, <4>2, OTypes, <1>BackedKept, Zenon DEF OInv
    <3> QED BY <2>1, <3>1, <3>2, <1>ReleaseBounded, Zenon DEF Release
  <2>4. berth.exists => /\ berth.w.phase # "Active"
                        /\ \A m \in late : m.kind = "lease" /\ Current(m.l) => Cleared(m.l)
    BY <2>1, Zenon DEF OInv, Settled
  <2> QED BY <2>1, <2>2, <2>3, <2>4, <1>OCalm, Zenon
\* An abandoned request is carried out.
<1>OOrphan. ASSUME RInv, OInv, KInv \/ NoLateRelease, NEW n \in orphans, ServeOrphan(n)
            PROVE  OInv'
  <2> USE <1>OOrphan
  <2>1. /\ setup' = setup /\ clock' = clock /\ berth' = berth /\ late' = late /\ W' = W /\ ident' = ident
        /\ NoNewWrite /\ n.holder \in Holder
    BY Zenon DEF ServeOrphan, objects, W, NoNewWrite, RInv, ObjectTypes, Orphan
  <2>2. ASSUME Keeping PROVE OInv'
    BY <2>1, <2>2, <1>OAside, Zenon
  <2>3. ASSUME n.op = "acquire", Grants(n.holder) \/ Denies(n.holder) PROVE OInv'
    BY <2>1, <2>2, <2>3, Zenon DEF Keeping, Denies
  <2>4. ASSUME n.op = "release", Releases(n.holder, n.token) PROVE OInv'
    <3>1. CASE UNCHANGED leaseVars
      BY <2>1, <2>2, <3>1, Zenon DEF Keeping
    <3>2. CASE holder[Lease] = n.holder /\ token[Lease] = n.token
      <4>1. Concerns(n)
        BY <2>4, Zenon DEF KInv, NoLateRelease
      <4>2. Unfinished(n)
        <5>1. holder[Lease] # NoHolder
          BY <2>1, <3>2, OperatorAssumption, Zenon
        <5> QED BY <3>2, <5>1, OTypes, Zenon DEF Unfinished, LeaseTypes
      <4>3. W.pc \in DrainPC \cup {"idle"} /\ (berth.exists => berth.w.phase = "Stopping")
        BY <4>1, <4>2, Zenon DEF Concerns
      <4>4. "acquire" \notin DrainPC \cup {"idle"} /\ "Stopping" # "Active"
        BY DEF DrainPC
      <4>5. ASSUME NEW m \in late, m.kind = "lease", Current(m.l) PROVE Cleared(m.l)
        BY <4>3, <4>5, OTypes, Zenon DEF Write, Follows, Current
      <4>6. Settled(W)'
        BY <2>1, Zenon DEF OInv, Settled, Current, Cleared
      <4> QED BY <2>1, <2>4, <4>3, <4>4, <4>5, <4>6, <1>ReleaseBounded, <1>OCalm, Zenon
    <3> QED BY <2>4, <3>1, <3>2, Zenon DEF Releases
  <2> QED BY <2>3, <2>4, Zenon DEF ServeOrphan
\* A restart.
<1>OReconfigure. ASSUME RInv, OInv, Reconfigure
                 PROVE  OInv'
  <2> USE <1>OReconfigure
  <2>1. UNCHANGED service /\ berth' = berth /\ late' = late /\ worker' = [y \in Worker |-> Idle] /\ "lease" \in Worker
    BY DEF Reconfigure, objects, Worker
  <2>2. setup' = setup /\ Keeping /\ W' = Idle
    BY <2>1, Unserved, Zenon DEF W
  <2>3. Bounded' /\ Lasts
    BY <2>2, OTypes, <1>BackedKept, Zenon DEF OInv, Lasts
  <2>4. Asks(W)' /\ Settled(W)'
    BY <2>2, IdleIs, Zenon DEF Asks, Settled
  <2> QED BY <2>1, <2>3, <2>4, <1>OGlue, Zenon
<1>Step. ASSUME RInv, RInv', OInv, KInv \/ NoLateRelease, Form
         PROVE  OInv'
  <2> USE <1>Step
  <2>1. ASSUME Aside PROVE OInv'
    BY <2>1, Unserved, <1>OAside, Zenon DEF Aside
  <2>2. ASSUME Rival \/ Tick PROVE OInv'
    <3>1. setup' = setup /\ Keeping /\ berth' = berth /\ W' = W /\ ident' = ident /\ NoNewWrite
      BY <2>2, Zenon DEF Keeping, Rival, Tick, objects, System, W, NoNewWrite
    <3> QED BY <3>1, <1>OAside, Zenon
  <2> QED BY <2>1, <2>2, <1>OProceeds, <1>ORequests, <1>OServeAcquire, <1>ORelease, <1>OSaves,
          <1>OLate, <1>OOrphan, <1>OEdits, <1>OReconfigure,
             Zenon DEF Form
<1> QED BY <1>Step, Zenon

-----------------------------------------------------------------------------
(* Cleanup is kept apart from what follows it.                             *)

Serving == Keeping \/ \E h, tok : Releases(h, tok)

\* Every form of a step keeps cleanups apart.
LEMMA KNext ==
  RInv /\ RInv' /\ OInv /\ KInv /\ NoLateAcquire /\ Onward /\ Copies /\ Form => KInv'
\* A tenure that is over stays over, and tokens only rise.
<1>OverStays. ASSUME LeaseTypes, setup \in Setups,
                     Keeping \/ \E h, tok : Releases(h, tok)
              PROVE  /\ token[Lease] \in Nat /\ token'[Lease] \in Nat /\ token[Lease] <= token'[Lease]
                     /\ \A h \in Holder, tok \in Nat :
                          tok <= token[Lease] /\ token'[Lease] = tok /\ holder'[Lease] = h
                            => token[Lease] = tok /\ holder[Lease] = h
  <2> USE <1>OverStays
  <2> USE OperatorAssumption
  <2>1. /\ Lease \in Key /\ holder \in [Key -> Holder \cup {NoHolder}] /\ token \in [Key -> Nat]
        /\ token[Lease] \in Nat /\ token[Lease] + 1 \in Nat
    BY DEF LeaseTypes
  <2> DEFINE P == /\ token'[Lease] \in Nat /\ token[Lease] <= token'[Lease]
                  /\ \A h \in Holder, tok \in Nat :
                       tok <= token[Lease] /\ token'[Lease] = tok /\ holder'[Lease] = h
                         => token[Lease] = tok /\ holder[Lease] = h
  <2>2. ASSUME UNCHANGED <<holder, token>> PROVE P
    BY <2>1, <2>2
  <2>3. ASSUME NEW a, Claim(Lease, a) PROVE P
    BY <2>1, <2>3 DEF Claim
  <2>4. ASSUME Vacate(Lease) PROVE P
    BY <2>1, <2>4 DEF Vacate
  <2>5. ASSUME NEW a, Grants(a) PROVE P
    BY <2>2, <2>3, <2>5, Zenon DEF Grants, Extend
  <2>6. ASSUME NEW h, NEW tok, Releases(h, tok) PROVE P
    <3>1. CASE UNCHANGED leaseVars
      BY <2>2, <3>1 DEF leaseVars
    <3> QED BY <2>4, <2>6, <3>1, Zenon DEF Releases
  <2>7. ASSUME UNCHANGED leaseVars PROVE P
    BY <2>2, <2>7 DEF leaseVars
  <2>8. ASSUME Rival PROVE P
    BY <2>3, <2>4, <2>8, Zenon DEF Rival
  <2>9. ASSUME Tick PROVE P
    BY <2>7, <2>9, Zenon DEF Tick, Advance
  <2>10. P
    <3>1. CASE UNCHANGED <<leaseVars, clock>>
      BY <2>7, <3>1, Zenon
    <3> QED BY <2>5, <2>6, <2>8, <2>9, <3>1, Zenon DEF Keeping
  <2> QED BY <2>1, <2>10, Zenon
\* Tokens on record stay issued, and tenures that are over stay over.
<1>Stays. ASSUME RInv, Serving
          PROVE  /\ token[Lease] \in Nat /\ token'[Lease] \in Nat /\ token[Lease] <= token'[Lease]
                 /\ \A l \in Berth : Issued(l) => Issued(l)'
                 /\ \A l \in Berth : Sound(l) /\ Issued(l) /\ Unfinished(l.w)' => Unfinished(l.w)
                 /\ \A n \in Orphan : n.token <= token[Lease] => n.token <= token'[Lease] /\ (Unfinished(n)' => Unfinished(n))
  <2> USE <1>Stays
  <2>1. /\ token[Lease] \in Nat /\ token'[Lease] \in Nat /\ token[Lease] <= token'[Lease]
        /\ \A h \in Holder, tok \in Nat :
             tok <= token[Lease] /\ token'[Lease] = tok /\ holder'[Lease] = h
               => token[Lease] = tok /\ holder[Lease] = h
    BY OTypes, <1>OverStays, Zenon DEF Serving
  <2>2. ASSUME NEW n \in Nat, n <= token[Lease] PROVE n <= token'[Lease]
    BY <2>1, <2>2
  <2>3. ASSUME NEW l \in Berth PROVE l.w.token \in Nat
    BY Zenon DEF Berth, Workload
  <2>4. ASSUME NEW l \in Berth, Sound(l), Issued(l), Unfinished(l.w)' PROVE Unfinished(l.w)
    <3>1. l.w.holder \in Holder
      BY <2>4, OTypes, Zenon DEF Sound, Unfinished
    <3> QED BY <2>1, <2>3, <2>4, <3>1, Zenon DEF Unfinished, Issued
  <2>5. ASSUME NEW n \in Orphan PROVE n.token \in Nat /\ n.holder \in Holder
    BY Zenon DEF Orphan
  <2> QED BY <2>1, <2>2, <2>3, <2>4, <2>5, Zenon DEF Issued, Unfinished
\* A step keeps the invariant if what is new is right.
<1>KGlue. ASSUME RInv, RInv', KInv, Serving, Copies,
                 berth' = berth \/ (berth'.rv > berth.rv /\ Issued(berth)'),
                 \A m \in late' : m.kind = "lease" =>
                   \/ m \in late
                   \/ Issued(m.l)' /\ (Current(m.l)' /\ berth'.w.phase = "Stopping" => ~Unfinished(berth.w)'),
                 W'.pc = "acquire" => W'.reply.token <= token'[Lease],
                 Cleans(W)', \A n \in orphans' : n.op = "release" => Concerns(n)'
          PROVE  KInv'
  <2> USE <1>KGlue
  <2>1. berth \in Berth /\ Sound(berth) /\ berth'.rv \in Nat
    BY OTypes, Zenon DEF RInv, ObjectTypes, Berth
  <2>2. Issued(berth)'
    <3>1. ASSUME berth' = berth PROVE Issued(berth)'
      <4>1. PICK b : b = berth
        OBVIOUS
      <4>2. Issued(b)' /\ berth' = b
        BY <2>1, <3>1, <4>1, <1>Stays, Zenon DEF KInv
      <4> QED BY <4>2, Zenon DEF Issued
    <3> QED BY <3>1, Zenon
  <2>3. ASSUME NEW m \in late', m.kind = "lease"
        PROVE  Issued(m.l)' /\ (Current(m.l)' /\ berth'.w.phase = "Stopping" => ~Unfinished(berth.w)')
    <3> SUFFICES ASSUME m \in late
                 PROVE  Issued(m.l)' /\ (Current(m.l)' /\ berth'.w.phase = "Stopping" => ~Unfinished(berth.w)')
      BY <2>3, Zenon
    <3>1. Issued(m.l)'
      BY <2>3, OTypes, <1>Stays, Zenon DEF KInv
    <3>2. ASSUME Current(m.l)', berth'.w.phase = "Stopping" PROVE ~Unfinished(berth.w)'
      <4>1. berth' = berth
        BY <2>1, <2>3, <3>2, Outdated, Zenon
      <4>2. PICK b : b = berth
        OBVIOUS
      <4>3. b \in Berth /\ Sound(b) /\ Issued(b) /\ ~Unfinished(b.w) /\ berth' = b
        BY <2>1, <2>3, <3>2, <4>1, <4>2, Zenon DEF KInv, Current
      <4>4. ~Unfinished(b.w)'
        BY <4>3, <1>Stays, Zenon
      <4> QED BY <4>3, <4>4, Zenon DEF Unfinished
    <3> QED BY <3>1, <3>2, Zenon
  <2>4. ASSUME NEW x \in Worker PROVE Issued(worker[x].l)'
    <3>1. CASE worker'[x].l = berth'
      BY <2>2, <3>1, Zenon DEF Issued
    <3>2. CASE worker'[x].l = NoBerth
      <4>1. NoBerth.w.token = 0 /\ 0 <= token'[Lease]
        <5>1. NoBerth.w.token = 0
          BY Zenon DEF NoBerth, NoWorkload
        <5> QED BY <5>1, <1>Stays
      <4> QED BY <3>2, <4>1, Zenon DEF Issued
    <3>3. CASE worker'[x].l = worker[x].l
      <4>1. PICK l : l = worker[x].l
        OBVIOUS
      <4>2. l \in Berth /\ Issued(l) /\ worker'[x].l = l
        BY <3>3, <4>1, CopyIs, Zenon DEF KInv, L
      <4>3. Issued(l)'
        BY <4>2, <1>Stays, Zenon
      <4> QED BY <4>2, <4>3, Zenon DEF Issued
    <3> QED BY <3>1, <3>2, <3>3, Zenon DEF Copies
  <2> QED BY <2>2, <2>3, <2>4, Zenon DEF KInv
\* An abandoned Release stays with its cleanup as long as that may still be
\* under way and the lease is not written.
<1>ConcernsKept. ASSUME RInv, KInv, Serving, Onward, berth' = berth, NEW n \in orphans, n.op = "release",
                        Unfinished(n) /\ Unfinished(n)' => W'.pc \in DrainPC \cup {"idle"}
                 PROVE  Concerns(n)'
  <2> USE <1>ConcernsKept
  <2>1. n \in Orphan /\ Concerns(n) /\ berth.w.pods \subseteq Pod
    BY OTypes, Zenon DEF KInv, RInv, ObjectTypes, Berth, Workload
  <2>2. n.token <= token'[Lease] /\ (Unfinished(n)' => Unfinished(n))
    BY <2>1, <1>Stays, Zenon DEF Concerns
  <2> QED BY <2>1, <2>2, Zenon DEF Concerns, Onward
\* Steps of the others, and of the service.
<1>KAside. ASSUME RInv, RInv', KInv, Serving, Onward, Copies, W' = W, berth' = berth, NoNewWrite, orphans' \subseteq orphans
           PROVE  KInv'
  <2> USE <1>KAside
  <2>1. ASSUME NEW n \in orphans', n.op = "release" PROVE Concerns(n)'
    <3>1. n \in orphans
      BY <2>1, Zenon
    <3>2. Unfinished(n) => W'.pc \in DrainPC \cup {"idle"}
      BY <2>1, <3>1, Zenon DEF KInv, Concerns
    <3> QED BY <2>1, <3>1, <3>2, <1>ConcernsKept, Zenon
  <2>2. W.l \in Berth /\ Sound(W.l) /\ Issued(W.l) /\ Cleans(W)
    <3>1. "lease" \in Worker
      BY DEF Worker
    <3> QED BY <3>1, OTypes, Zenon DEF KInv, W
  <2>3. Cleans(W)'
    <3>1. PICK v : v = W
      OBVIOUS
    <3>2. W' = v /\ v.l \in Berth /\ Sound(v.l) /\ Issued(v.l) /\ Cleans(v)
      BY <2>2, <3>1, Zenon
    <3>3. Unfinished(v.l.w)' => Unfinished(v.l.w)
      BY <3>2, <1>Stays, Zenon
    <3>4. Cleans(v)'
      BY <3>2, <3>3, Zenon DEF Cleans
    <3>5. (W = v)'
      BY <3>2, Zenon
    <3> QED BY <3>4, <3>5 DEF Cleans, Unfinished
  <2>4. W'.pc = "acquire" => W'.reply.token <= token'[Lease]
    <3>1. ASSUME W.pc = "acquire" PROVE W.reply.token <= token'[Lease]
      BY <3>1, OTypes, <1>Stays DEF KInv
    <3> QED BY <3>1, Zenon
  <2> QED BY <2>1, <2>3, <2>4, <1>KGlue, Zenon DEF NoNewWrite
\* When the service does nothing, tenures go on and tokens stay.
<1>Unmoved. ASSUME UNCHANGED service
            PROVE  /\ Serving /\ token' = token
                   /\ \A w : Unfinished(w)' <=> Unfinished(w)
                   /\ \A l : Issued(l)' <=> Issued(l)
  BY <1>Unmoved, Unserved, Zenon DEF Serving, Unfinished, Issued
\* The copy of the lease's reconciler.
<1>KTypes. ASSUME RInv, KInv
           PROVE  /\ W.l \in Berth /\ Sound(W.l) /\ Issued(W.l) /\ Cleans(W) /\ Knows("lease", W)
                  /\ token[Lease] \in Nat /\ 0 <= token[Lease]
  <2> USE <1>KTypes
  <2>1. "lease" \in Worker
    BY DEF Worker
  <2>2. token[Lease] \in Nat
    BY OTypes, OperatorAssumption DEF LeaseTypes
  <2>3. 0 <= token[Lease]
    BY <2>2
  <2> QED BY <2>1, <2>2, <2>3, OTypes, Zenon DEF KInv, W
\* The reconciler goes on.
<1>KProceeds. ASSUME RInv, RInv', KInv, Onward, Copies, Proceeds
              PROVE  KInv'
  <2> USE <1>KProceeds
  <2>1. UNCHANGED service /\ berth' = berth /\ NoNewWrite
    BY Zenon DEF Proceeds, Goes
  <2>2. Serving /\ \A w : Unfinished(w)' <=> Unfinished(w)
    BY <2>1, <1>Unmoved, Zenon
  <2>3. Knows("lease", W)'
    BY OTypes, PTL
  <2>4. Cleans(W)'
    <3>1. PICK v : v = W'
      OBVIOUS
    <3>2. ASSUME v.pc \in DrainPC, berth.exists, Unfinished(v.l.w) PROVE berth.w.phase = "Stopping"
      <4>1. CASE W.pc \in DrainPC /\ v.l = W.l
        BY <3>2, <4>1, <1>KTypes, Zenon DEF Cleans
      <4>2. CASE v.l = berth
        BY <2>1, <2>3, <3>1, <3>2, <4>2, Zenon DEF Knows
      <4> QED BY <3>1, <3>2, <4>1, <4>2, Zenon DEF Proceeds, Goes
    <3>3. v.pc # "clear"
      <4>1. "clear" \in DrainPC
        BY DEF DrainPC
      <4> QED BY <3>1, <4>1, Zenon DEF Proceeds, Goes
    <3>4. Cleans(v)'
      BY <2>1, <2>2, <3>2, <3>3, Zenon DEF Cleans
    <3>5. (W = v)'
      BY <3>1, Zenon
    <3> QED BY <3>4, <3>5 DEF Cleans, Unfinished
  <2>5. ASSUME NEW n \in orphans', n.op = "release" PROVE Concerns(n)'
    <3>1. n \in orphans
      <4>1. n.op # "acquire"
        BY <2>5
      <4> QED BY <2>5, <4>1, Zenon DEF Proceeds, Goes
    <3>2. ASSUME Unfinished(n) PROVE W'.pc \in DrainPC \cup {"idle"}
      <4>1. Concerns(n)
        BY <2>5, <3>1, Zenon DEF KInv
      <4> QED BY <3>2, <4>1, Zenon DEF Concerns, Proceeds, Goes
    <3> QED BY <2>1, <2>2, <2>5, <3>1, <3>2, <1>ConcernsKept, Zenon
  <2>6. W'.pc # "acquire"
    BY Zenon DEF Proceeds, Goes
  <2> QED BY <2>1, <2>2, <2>4, <2>5, <2>6, <1>KGlue, Zenon DEF NoNewWrite
\* No cleanup is under way while the lease is asked for.
<1>Apart. ASSUME KInv, NEW n \in orphans, n.op = "release", W.pc \in {"verify", "acquire"}
          PROVE  ~Unfinished(n)
  <2> USE <1>Apart
  <2>1. {"verify", "acquire"} \cap (DrainPC \cup {"idle"}) = {}
    BY DEF DrainPC
  <2> QED BY <2>1, Zenon DEF KInv, Concerns
\* The request starts.
<1>KRequests. ASSUME RInv, RInv', KInv, Onward, Copies, Requests
              PROVE  KInv'
  <2> USE <1>KRequests
  <2>1. UNCHANGED service /\ berth' = berth /\ late' = late /\ orphans' = orphans
    BY Zenon DEF Requests
  <2>2. Serving /\ token' = token
    BY <2>1, <1>Unmoved, Zenon
  <2>3. "acquire" \notin DrainPC /\ "acquire" # "clear" /\ NoReply.token = 0
    BY DEF DrainPC, NoReply
  <2>4. Cleans(W)'
    BY <2>3, Zenon DEF Cleans, Requests
  <2>5. W'.reply.token <= token'[Lease]
    BY <2>2, <2>3, <1>KTypes, Zenon DEF Requests
  <2>6. ASSUME NEW n \in orphans', n.op = "release" PROVE Concerns(n)'
    BY <2>1, <2>2, <2>6, <1>Apart, <1>ConcernsKept, Zenon DEF Requests
  <2> QED BY <2>1, <2>2, <2>4, <2>5, <2>6, <1>KGlue, Zenon
\* The request is answered.
<1>KServeAcquire. ASSUME RInv, RInv', KInv, Onward, Copies, NEW x \in Worker, ServeAcquire(x)
                  PROVE  KInv'
  <2> USE <1>KServeAcquire
  <2>1. x = "lease" /\ W.pc = "acquire"
    BY Which, Zenon DEF ServeAcquire, At, W
  <2>2. setup' = setup /\ clock' = clock /\ berth' = berth /\ late' = late /\ orphans' = orphans
    BY Zenon DEF ServeAcquire, objects
  <2>3. LeaseTypes /\ setup \in Setups /\ W \in Local /\ ident \in Holder /\ worker \in [Worker -> Local]
    BY OTypes, Zenon DEF RInv, ObjectTypes
  <2>4. Serving
    BY <2>2, <2>3, Zenon DEF ServeAcquire, Denies, Keeping, Serving
  <2>5. ASSUME NEW r \in Reply, Goto(x, [worker[x] EXCEPT !.reply = r])
        PROVE  W'.pc = "acquire" /\ W'.reply = r
    <3>1. W' = [W EXCEPT !.reply = r]
      BY <2>1, <2>3, <2>5, Zenon DEF Goto, W
    <3>2. LET u == [W EXCEPT !.reply = r] IN u.pc = W.pc /\ u.started = W.started /\ u.reply = r
      BY <2>3, RequestIs, Zenon
    <3> QED BY <2>1, <3>1, <3>2, Zenon
  <2>6. W'.pc = "acquire" /\ W'.reply.token <= token'[Lease]
    <3>1. CASE /\ Grants(ident)
               /\ Goto(x, [worker[x] EXCEPT !.reply =
                             [res |-> "granted", token |-> token'[Lease], expires |-> expires'[Lease]]])
      <4>1. token'[Lease] \in Nat /\ expires'[Lease] = clock + TTL /\ clock + TTL \in Int
        BY <2>2, <2>3, <3>1, LeaseKept, Zenon
      <4>2. PICK r : r = [res |-> "granted", token |-> token'[Lease], expires |-> expires'[Lease]]
        BY Zenon
      <4>3. r \in Reply /\ r.token = token'[Lease] /\ r.token <= token'[Lease]
        BY <4>1, <4>2 DEF Reply
      <4> QED BY <2>5, <3>1, <4>2, <4>3, Zenon
    <3>2. CASE Goto(x, [worker[x] EXCEPT !.reply = [NoReply EXCEPT !.res = "denied"]])
      <4>1. PICK r : r = [NoReply EXCEPT !.res = "denied"]
        BY Zenon
      <4>2. r \in Reply /\ r.token = 0
        BY <4>1 DEF Reply, NoReply
      <4>3. 0 <= token'[Lease]
        BY <2>4, <1>Stays
      <4> QED BY <2>5, <3>2, <4>1, <4>2, <4>3, Zenon
    <3> QED BY <3>1, <3>2, Zenon DEF ServeAcquire
  <2>7. Cleans(W)'
    <3>1. "acquire" \notin DrainPC /\ "acquire" # "clear"
      BY DEF DrainPC
    <3> QED BY <2>6, <3>1, Zenon DEF Cleans
  <2>8. ASSUME NEW n \in orphans', n.op = "release" PROVE Concerns(n)'
    BY <2>1, <2>2, <2>4, <2>8, <1>Apart, <1>ConcernsKept, Zenon
  <2> QED BY <2>2, <2>4, <2>6, <2>7, <2>8, <1>KGlue, Zenon
\* An abandoned Release that may still take effect belongs to a cleanup whose
\* status nobody can replace.
<1>Protected. ASSUME KInv, NEW n \in orphans, n.op = "release", Unfinished(n), berth.exists
              PROVE  berth.w.phase = "Stopping" /\ Unfinished(berth.w)
  BY <1>Protected, Zenon DEF KInv, Concerns, Unfinished
\* A Release whose tenure is over has nothing left to do.
<1>Spent. ASSUME RInv, KInv, Serving, NEW n \in orphans, n.op = "release", ~Unfinished(n)
          PROVE  Concerns(n)'
  <2> USE <1>Spent
  <2>1. n \in Orphan /\ n.token <= token[Lease]
    BY Zenon DEF KInv, Concerns, RInv, ObjectTypes
  <2>2. n.token <= token'[Lease] /\ ~Unfinished(n)'
    BY <2>1, <1>Stays, Zenon
  <2> QED BY <2>2, Zenon DEF Concerns
\* A reconciler writes the lease.
<1>KSaves. ASSUME RInv, RInv', OInv, KInv, Onward, Copies, NEW x \in Worker, NEW l \in Berth, Saves(x, l)
           PROVE  KInv'
  <2> USE <1>KSaves
  <2>1. UNCHANGED service /\ orphans' = orphans /\ (x = "lease" \/ x = "pods")
    BY DEF Saves, MaySave, Worker
  <2>2. Serving /\ token' = token /\ (\A w : Unfinished(w)' <=> Unfinished(w)) /\ (\A k : Issued(k)' <=> Issued(k))
    BY <2>1, <1>Unmoved, Zenon
  <2>3. Issued(l)
    BY <1>KTypes, Zenon DEF Saves, MaySave, KInv, Issued
  <2>4. W'.pc = "acquire" => W'.reply.token <= token'[Lease]
    <3>1. CASE x = "lease"
      BY <3>1, IdleIs, Zenon DEF Saves, MaySave
    <3>2. CASE x = "pods"
      BY <2>2, <3>2, Zenon DEF Saves, MaySave, KInv
    <3> QED BY <2>1, <3>1, <3>2, Zenon
  <2>5. ASSUME Current(l), berth' = Written(l), late' = late,
               x = "lease" => /\ W'.pc # "clear"
                              /\ W'.pc \in DrainPC => W'.l = berth'
        PROVE  KInv'
    <3>1. /\ berth'.w = l.w /\ (berth' = berth \/ berth'.rv > berth.rv) /\ berth.exists
      BY <2>5, StoredIs, Zenon DEF Current
    <3>2. Issued(berth)'
      BY <2>2, <2>3, <3>1, Zenon DEF Issued
    <3>3. ASSUME NEW n \in orphans', n.op = "release" PROVE Concerns(n)'
      <4>1. n \in orphans
        BY <2>1, <3>3, Zenon
      <4>2. ~Unfinished(n)
        <5> SUFFICES ASSUME Unfinished(n) PROVE FALSE
          OBVIOUS
        <5>1. berth.w.phase = "Stopping" /\ Unfinished(berth.w)
          BY <3>1, <3>3, <4>1, <1>Protected, Zenon
        <5>2. W.pc = "clear" /\ W.l = berth
          BY <2>5, <5>1, Zenon DEF Saves, MaySave
        <5> QED BY <5>1, <5>2, <1>KTypes, Zenon DEF Cleans
      <4> QED BY <2>2, <3>3, <4>1, <4>2, <1>Spent, Zenon
    <3>4. Cleans(W)'
      <4>1. CASE x = "lease"
        <5>1. ASSUME W'.pc \in DrainPC PROVE berth'.w.phase = "Stopping"
          <6>1. Knows("lease", W)'
            BY OTypes, PTL
          <6> QED BY <2>5, <4>1, <5>1, <6>1, Zenon DEF Knows
        <5> QED BY <2>5, <4>1, <5>1, Zenon DEF Cleans
      <4>2. CASE x = "pods"
        <5>1. W' = W /\ berth.w.phase = "Active"
          BY <2>5, <4>2, Zenon DEF Saves, MaySave
        <5>2. W.pc \notin DrainPC
          BY <3>1, <5>1, Zenon DEF OInv, Settled
        <5>3. "clear" \in DrainPC
          BY DEF DrainPC
        <5> QED BY <5>1, <5>2, <5>3, Zenon DEF Cleans
      <4> QED BY <2>1, <4>1, <4>2, Zenon
    <3> QED BY <2>2, <2>4, <2>5, <3>1, <3>2, <3>3, <3>4, <1>KGlue, Zenon
  <2>6. ASSUME berth' = berth, late' = late \cup {[kind |-> "lease", l |-> l]}, x = "lease" => W' = Idle
        PROVE  KInv'
    <3>1. PICK n : n = [kind |-> "lease", l |-> l]
      BY Zenon
    <3>2. n.l = l /\ late' = late \cup {n}
      BY <2>6, <3>1
    <3>3. ASSUME Current(l), berth.w.phase = "Stopping" PROVE ~Unfinished(berth.w)
      <4>1. W.pc = "clear" /\ W.l = berth
        BY <3>3, Zenon DEF Saves, MaySave
      <4> QED BY <4>1, <1>KTypes, Zenon DEF Cleans
    <3>4. Current(l)' /\ berth'.w.phase = "Stopping" => ~Unfinished(berth.w)'
      <4>1. PICK b : b = berth
        OBVIOUS
      <4>2. b = berth' /\ (Current(l)' /\ b.w.phase = "Stopping" => ~Unfinished(b.w))
        BY <2>6, <3>3, <4>1, Zenon DEF Current
      <4>3. Current(l)' /\ b.w.phase = "Stopping" => ~Unfinished(b.w)'
        BY <2>2, <4>2, Zenon
      <4> QED BY <4>2, <4>3, Zenon DEF Unfinished
    <3>5. \A m \in late' : m.kind = "lease" =>
             \/ m \in late
             \/ Issued(m.l)' /\ (Current(m.l)' /\ berth'.w.phase = "Stopping" => ~Unfinished(berth.w)')
      BY <2>2, <2>3, <3>2, <3>4, Zenon
    <3>6. W' = Idle \/ W' = W
      BY <2>1, <2>6, Zenon DEF Saves, MaySave
    <3>7. Cleans(W)'
      <4>1. CASE W' = Idle
        <5>1. "idle" # "clear"
          OBVIOUS
        <5> QED BY <4>1, <5>1, IdleIs, Zenon DEF Cleans
      <4>2. CASE W' = W
        <5>1. PICK v : v = W
          OBVIOUS
        <5>2. Cleans(v)' /\ (W = v)'
          BY <2>2, <2>6, <4>2, <5>1, <1>KTypes, Zenon DEF Cleans
        <5> QED BY <5>2 DEF Cleans, Unfinished
      <4> QED BY <3>6, <4>1, <4>2, Zenon
    <3>8. ASSUME NEW k \in orphans', k.op = "release" PROVE Concerns(k)'
      <4>1. k \in orphans
        BY <2>1, <3>8, Zenon
      <4>2. Unfinished(k) => W'.pc \in DrainPC \cup {"idle"}
        BY <3>6, <3>8, <4>1, IdleIs, Zenon DEF KInv, Concerns
      <4> QED BY <2>2, <2>6, <3>8, <4>1, <4>2, <1>ConcernsKept, Zenon
    <3> QED BY <2>2, <2>4, <2>6, <3>5, <3>7, <3>8, <1>KGlue, Zenon
  <2> QED BY <2>5, <2>6, Zenon DEF Saves, MaySave
\* A write that arrives late.
<1>KLate. ASSUME RInv, RInv', OInv, KInv, Onward, Copies, NEW m \in late, LateLease(m), Arrive(m)
          PROVE  KInv'
  <2> USE <1>KLate
  <2>1. /\ UNCHANGED service /\ W' = W /\ late' = late \ {m} /\ berth' = Written(m.l) /\ orphans' = orphans
        /\ m.kind = "lease" /\ Current(m.l) /\ NoNewWrite /\ berth.exists
    BY Zenon DEF Arrive, LateLease, W, Accepts, Current, NoNewWrite
  <2>2. Serving /\ token' = token /\ (\A w : Unfinished(w)' <=> Unfinished(w)) /\ (\A k : Issued(k)' <=> Issued(k))
    BY <2>1, <1>Unmoved, Zenon
  <2>3. m.l \in Berth /\ Issued(m.l) /\ (berth.w.phase = "Stopping" => ~Unfinished(berth.w))
    BY <2>1, OTypes, Zenon DEF KInv
  <2>4. berth'.w = m.l.w /\ (berth' = berth \/ berth'.rv > berth.rv)
    BY <2>1, <2>3, StoredIs, Zenon
  <2>5. Issued(berth)'
    BY <2>2, <2>3, <2>4, Zenon DEF Issued
  <2>6. ASSUME NEW n \in orphans', n.op = "release" PROVE Concerns(n)'
    <3>1. n \in orphans /\ ~Unfinished(n)
      BY <2>1, <2>3, <2>6, <1>Protected, Zenon
    <3> QED BY <2>2, <2>6, <3>1, <1>Spent, Zenon
  <2>7. Cleans(W)'
    <3>1. PICK v : v = W
      OBVIOUS
    <3>2. ASSUME v.pc \in DrainPC PROVE ~Unfinished(v.l.w)
      BY <2>1, <2>3, <3>1, <3>2, <1>KTypes, Zenon DEF Cleans, OInv, Settled
    <3>3. "clear" \in DrainPC
      BY DEF DrainPC
    <3>4. Cleans(v)' /\ (W = v)'
      BY <2>1, <2>2, <3>1, <3>2, <3>3, Zenon DEF Cleans
    <3> QED BY <3>4 DEF Cleans, Unfinished
  <2>8. W'.pc = "acquire" => W'.reply.token <= token'[Lease]
    BY <2>1, <2>2, Zenon DEF KInv
  <2> QED BY <2>1, <2>2, <2>4, <2>5, <2>6, <2>7, <2>8, <1>KGlue, Zenon
\* A user's write.
<1>KEdits. ASSUME RInv, RInv', KInv, Onward, Copies, Edits
           PROVE  KInv'
  <2> USE <1>KEdits
  <2>1. UNCHANGED service /\ W' = W /\ NoNewWrite /\ orphans' = orphans /\ berth.exists /\ berth'.rv > berth.rv
    BY Zenon DEF Edits
  <2>2. Serving /\ token' = token /\ (\A w : Unfinished(w)' <=> Unfinished(w)) /\ (\A k : Issued(k)' <=> Issued(k))
    BY <2>1, <1>Unmoved, Zenon
  <2>3. berth'.w = berth.w \/ (berth.w.phase = "" /\ berth'.w.token = 0)
    BY Zenon DEF Edits
  <2>4. Issued(berth)'
    BY <2>2, <2>3, <1>KTypes, Zenon DEF Issued, KInv
  <2>5. "" # "Stopping"
    OBVIOUS
  <2>6. ASSUME NEW n \in orphans', n.op = "release" PROVE Concerns(n)'
    <3>1. n \in orphans /\ Concerns(n) /\ berth.w.pods \subseteq Pod
      BY <2>1, <2>6, OTypes, Zenon DEF KInv, Berth, Workload
    <3>2. CASE ~Unfinished(n)
      BY <2>2, <2>6, <3>1, <3>2, <1>Spent, Zenon
    <3>3. CASE Unfinished(n)
      <4>1. berth'.w = berth.w
        BY <2>1, <2>3, <2>5, <3>1, <3>3, Zenon DEF Concerns
      <4> QED BY <2>1, <2>2, <3>1, <3>3, <4>1, Zenon DEF Concerns, Onward
    <3> QED BY <3>2, <3>3, Zenon
  <2>7. Cleans(W)'
    <3>1. PICK v : v = W
      OBVIOUS
    <3>2. Cleans(v)' /\ (W = v)'
      BY <2>1, <2>2, <2>3, <2>5, <3>1, <1>KTypes, Zenon DEF Cleans
    <3> QED BY <3>2 DEF Cleans, Unfinished
  <2>8. W'.pc = "acquire" => W'.reply.token <= token'[Lease]
    BY <2>1, <2>2, Zenon DEF KInv
  <2> QED BY <2>1, <2>2, <2>4, <2>6, <2>7, <2>8, <1>KGlue, Zenon DEF NoNewWrite
\* The Release of a cleanup ends its tenure, or is abandoned.
<1>KRelease. ASSUME RInv, RInv', OInv, KInv, NoLateAcquire, Onward, Copies, NEW x \in Worker, Release(x)
             PROVE  KInv'
  <2> USE <1>KRelease
  <2>1. /\ x = "lease" /\ W.pc = "release" /\ W.pc \in DrainPC /\ "clear" \in DrainPC /\ "clear" # "acquire"
        /\ setup' = setup /\ clock' = clock /\ berth' = berth /\ late' = late
        /\ ((W'.pc = "clear" /\ W'.l = W.l) \/ W' = Idle)
    BY Released, Zenon
  <2>2. PICK w : w = W.l.w
    OBVIOUS
  <2>3. /\ L(x).w = w /\ w.token \in Nat /\ w.holder \in Holder \cup {NoHolder} /\ (w.token > 0 => w.holder \in Holder)
        /\ w.token <= token[Lease] /\ W.l.w = w
    BY <2>1, <2>2, <1>KTypes, OTypes, Zenon DEF L, W, Berth, Workload, Issued, Sound
  <2>4. /\ Lease \in Key /\ holder \in [Key -> Holder \cup {NoHolder}] /\ token \in [Key -> Nat] /\ NoHolder \notin Holder
    BY OTypes, OperatorAssumption DEF LeaseTypes
  <2>5. "clear" \in DrainPC \cup {"idle"} /\ "idle" # "clear"
    BY DEF DrainPC
  <2>6. W'.pc # "acquire" /\ W'.pc \in DrainPC \cup {"idle"}
    BY <2>1, <2>5, IdleIs, Zenon
  <2>7. ASSUME Serving, orphans' = orphans, ~Unfinished(w)' PROVE KInv'
    <3>1. Cleans(W)'
      <4>1. CASE W' = Idle
        BY <2>5, <4>1, IdleIs, Zenon DEF Cleans
      <4>2. CASE W'.l = W.l
        <5>1. (W.l.w = w)'
          BY <2>3, <4>2, Zenon
        <5>2. ~Unfinished(W.l.w)'
          BY <2>7, <5>1 DEF Unfinished
        <5> QED BY <5>2, Zenon DEF Cleans
      <4> QED BY <2>1, <4>1, <4>2, Zenon
    <3>2. \A n \in orphans' : n.op = "release" => Concerns(n)'
      BY <2>1, <2>6, <2>7, <1>ConcernsKept, Zenon
    <3> QED BY <2>1, <2>6, <2>7, <3>1, <3>2, <1>KGlue, Zenon
  <2>8. ASSUME w.token = 0, UNCHANGED leaseVars, UNCHANGED orphans PROVE KInv'
    <3>1. Serving /\ ~(0 > 0)
      BY <2>1, <2>8 DEF Serving, Keeping
    <3> QED BY <2>7, <2>8, <3>1, Zenon DEF Unfinished
  <2>9. ASSUME w.token > 0, Releases(w.holder, w.token), UNCHANGED orphans PROVE KInv'
    <3>1. Serving
      BY <2>9, Zenon DEF Serving
    <3>2. ~Unfinished(w)'
      BY <2>3, <2>4, <2>9 DEF Unfinished, Releases, Vacate, leaseVars
    <3> QED BY <2>7, <2>9, <3>1, <3>2, Zenon
  <2>10. ASSUME NEW n, n = [op |-> "release", holder |-> w.holder, token |-> w.token],
                UNCHANGED leaseVars, orphans' = orphans \cup {n}, Return(x)
         PROVE  KInv'
    <3>1. UNCHANGED <<leaseVars, clock>> /\ UNCHANGED service
      BY <2>1, <2>10 DEF service
    <3>2. Serving /\ (\A u : Unfinished(u)' <=> Unfinished(u)) /\ token' = token
      BY <3>1, <1>Unmoved, Zenon
    <3>3. W' = Idle
      BY <2>1, <2>10, Zenon DEF Return, Goto, W, RInv, ObjectTypes
    <3>4. Cleans(W)'
      BY <2>5, <3>3, IdleIs, Zenon DEF Cleans
    <3>5. n.token = w.token /\ n.holder = w.holder
      BY <2>10
    <3>6. Unfinished(n) <=> Unfinished(w)
      BY <3>5, Zenon DEF Unfinished
    <3>7. ASSUME Unfinished(n), berth.exists
          PROVE  /\ berth.w.phase = "Stopping" /\ berth.w.token = n.token
                 /\ berth.w.holder = n.holder /\ \A p \in berth.w.pods : Over(p)
      <4>1. berth.w.phase = "Stopping"
        BY <2>1, <2>3, <3>6, <3>7, <1>KTypes, Zenon DEF Cleans
      <4>2. berth.w = w
        BY <2>1, <2>3, <3>7, <4>1, Zenon DEF OInv, Settled
      <4>3. \A p \in w.pods : Over(p)
        BY <2>1, <2>3, <1>KTypes, Zenon DEF Knows
      <4> QED BY <3>5, <4>1, <4>2, <4>3, Zenon
    <3>8. berth.w.pods \subseteq Pod
      BY OTypes, Zenon DEF Berth, Workload
    <3>9. Concerns(n)'
      BY <2>1, <2>3, <2>6, <3>2, <3>5, <3>7, <3>8, Zenon DEF Concerns, Onward
    <3>10. \A k \in orphans' : k.op = "release" => Concerns(k)'
      BY <2>1, <2>6, <2>10, <3>2, <3>9, <1>ConcernsKept, Zenon
    <3> QED BY <2>1, <2>6, <3>2, <3>4, <3>10, <1>KGlue, Zenon
  <2> QED BY <2>3, <2>8, <2>9, <2>10, Zenon DEF Release, NoLateAcquire
\* A restart.
<1>KReconfigure. ASSUME RInv, RInv', KInv, Onward, Copies, Reconfigure
                 PROVE  KInv'
  <2> USE <1>KReconfigure
  <2>1. UNCHANGED service /\ berth' = berth /\ late' = late /\ orphans' = orphans
        /\ worker' = [y \in Worker |-> Idle] /\ "lease" \in Worker
    BY DEF Reconfigure, objects, Worker
  <2>2. Serving /\ W' = Idle
    BY <2>1, <1>Unmoved, Zenon DEF W
  <2>3. Cleans(W)' /\ W'.pc # "acquire" /\ W'.pc \in DrainPC \cup {"idle"}
    <3>1. "idle" # "clear"
      OBVIOUS
    <3> QED BY <2>2, <3>1, IdleIs, Zenon DEF Cleans
  <2>4. \A n \in orphans' : n.op = "release" => Concerns(n)'
    BY <2>1, <2>2, <2>3, <1>ConcernsKept, Zenon
  <2> QED BY <2>1, <2>2, <2>3, <2>4, <1>KGlue, Zenon
<1>Step. ASSUME RInv, RInv', OInv, KInv, NoLateAcquire, Onward, Copies, Form
         PROVE  KInv'
  <2> USE <1>Step
  <2>1. ASSUME Aside PROVE KInv'
    BY <2>1, <1>Unmoved, <1>KAside, Zenon DEF Aside
  <2>2. ASSUME Rival \/ Tick \/ \E m \in orphans : ServeOrphan(m) PROVE KInv'
    <3>1. berth' = berth /\ W' = W /\ NoNewWrite /\ orphans' \subseteq orphans
      BY <2>2, Zenon DEF Rival, Tick, ServeOrphan, objects, System, W, NoNewWrite
    <3>2. Serving
      BY <2>2, Zenon DEF Serving, Keeping, ServeOrphan, NoLateAcquire
    <3> QED BY <3>1, <3>2, <1>KAside, Zenon
  <2> QED BY <2>1, <2>2, <1>KProceeds, <1>KRequests, <1>KServeAcquire, <1>KRelease, <1>KSaves,
          <1>KLate, <1>KEdits, <1>KReconfigure,
             Zenon DEF Form
<1> QED BY <1>Step, Zenon

-----------------------------------------------------------------------------
(* Every step has one of the forms.                                        *)

Shaped == Form /\ Copies /\ Onward

\* A reconciler with the copy l.
Begin(pc, l) == [Idle EXCEPT !.pc = pc, !.l = l]

\* Every step has one of the forms.
LEMMA FNext ==
  RInv /\ [Next]_vars => Shaped
\* Pods that nobody touches move onward.
<1>PodsSame. ASSUME pods' = pods
             PROVE  Onward
  BY <1>PodsSame, Zenon DEF Onward, Over, Known
\* What a step of reconciler x does to the two.
<1>Went. ASSUME RInv, NEW x \in Worker, NEW v, Goto(x, v)
         PROVE  /\ worker'[x] = v /\ (x = "lease" => W' = v) /\ (x = "pods" => W' = W) /\ (x = "lease" \/ x = "pods")
                /\ v.l \in {NoBerth, berth', L(x)} => Copies
  <2> USE <1>Went
  <2>1. worker \in [Worker -> Local] /\ "lease" \in Worker /\ (x = "lease" \/ x = "pods") /\ "lease" # "pods"
    BY DEF RInv, ObjectTypes, Worker
  <2>2. worker'[x] = v /\ \A y \in Worker : y # x => worker'[y] = worker[y]
    BY <2>1, Zenon DEF Goto
  <2>3. (x = "lease" => W' = v) /\ (x = "pods" => W' = W)
    BY <2>1, <2>2, Zenon DEF W
  <2>4. ASSUME v.l \in {NoBerth, berth', L(x)}, NEW y \in Worker PROVE worker'[y].l \in {NoBerth, berth', worker[y].l}
    BY <2>2, <2>4, Zenon DEF L
  <2> QED BY <2>1, <2>2, <2>3, <2>4, Zenon DEF Copies
\* A step that touches neither the lease nor its service.
<1>LocalForm. ASSUME RInv, NEW x \in Worker, NEW v, Goto(x, v), UNCHANGED <<service, berth, ident>>, NoNewWrite, Onward,
                     \A n \in orphans' : n \in orphans \/ n.op = "acquire",
                     x = "pods" => orphans' = orphans,
                     v.l \in {NoBerth, berth, L(x)}, x = "lease" => Goes(v)
              PROVE  Shaped
  <2> USE <1>LocalForm
  <2>1. Copies /\ (x = "lease" \/ x = "pods")
    BY <1>Went, Zenon
  <2>2. ASSUME x = "lease" PROVE Proceeds
    BY <2>2, <1>Went, Zenon DEF Proceeds
  <2>3. ASSUME x = "pods" PROVE Aside
    <3>1. W' = W /\ orphans' = orphans
      BY <2>3, <1>Went, Zenon
    <3> QED BY <2>3, <3>1, Zenon DEF Aside
  <2> QED BY <2>1, <2>2, <2>3, Zenon DEF Shaped, Form
\* The reconciler of the lease may always give up, and go on where it was
\* neither idle nor cleaning up.
<1>GoesIs. /\ W.pc # "idle" \/ berth.exists => Goes(Idle)
           /\ \A v : W.pc \notin DrainPC \cup {"idle"} /\ v.pc \notin DrainPC \cup {"acquire"} => Goes(v)
           /\ \A v : W.pc \in DrainPC /\ v.pc \in DrainPC \ {"clear"} /\ v.l = W.l => Goes(v)
  <2>1. Idle.pc = "idle" /\ "idle" \notin DrainPC /\ "acquire" \notin DrainPC /\ "idle" # "acquire"
    BY DEF Idle, DrainPC
  <2> QED BY <2>1, Zenon DEF Goes
\* A step of reconciler x that reads, or has Kubernetes requests other than
\* writes of the lease.
<1>ReadForm. ASSUME RInv, Others, NEW x \in Worker, NEW v, Goto(x, v), berth' = berth, NoNewWrite, Onward,
                    v.l \in {NoBerth, berth, L(x)}, x = "lease" => Goes(v)
             PROVE  Shaped
  <2> USE <1>ReadForm
  <2>1. UNCHANGED <<service, berth, ident>> /\ orphans' = orphans
    BY Zenon DEF Others
  <2> QED BY <2>1, <1>LocalForm, Zenon
\* A write of the lease.
<1>SaveForm. ASSUME RInv, Others, NEW x \in Worker, NEW l \in Berth, NEW rec, Save(x, l, rec),
                    rec.l \in {NoBerth, Written(l)}, MaySave(x, l),
                    x = "lease" => /\ rec.pc # "acquire" /\ rec.pc # "clear"
                                   /\ rec.pc \in DrainPC => rec.l = Written(l) /\ l # berth
                                   /\ W.pc = "idle" => berth.exists
             PROVE  Shaped
  <2> USE <1>SaveForm
  <2>1. UNCHANGED <<service, orphans, ident>>
    BY Zenon DEF Others
  <2>2. ASSUME Accepts(l), berth' = Written(l), Goto(x, rec), UNCHANGED <<target, pods, jobs, late, faults>> PROVE Shaped
    <3>1. Copies /\ (x = "lease" => W' = rec) /\ (x = "pods" => W' = W) /\ Onward
      BY <2>2, <1>Went, <1>PodsSame, Zenon
    <3>2. Current(l) /\ late' = late
      BY <2>2 DEF Accepts, Current
    <3>3. Saves(x, l)
      BY <2>1, <2>2, <3>1, <3>2, Zenon DEF Saves
    <3> QED BY <3>1, <3>3, Zenon DEF Shaped, Form
  <2>3. ASSUME Return(x), UNCHANGED <<objects, late, faults>> PROVE Shaped
    <3>1. berth' = berth /\ Onward /\ NoNewWrite /\ Goto(x, Idle)
      BY <2>3, <1>PodsSame, Zenon DEF objects, NoNewWrite, Return
    <3>2. Idle.l = NoBerth /\ (x = "lease" => Goes(Idle))
      BY IdleIs, <1>GoesIs, Zenon
    <3> QED BY <3>1, <3>2, <1>ReadForm, Zenon
  <2>4. ASSUME Delay(x, [kind |-> "lease", l |-> l]) PROVE Shaped
    <3>1. /\ Goto(x, Idle) /\ berth' = berth /\ pods' = pods /\ late' = late \cup {[kind |-> "lease", l |-> l]}
          /\ Idle.l \in {NoBerth, berth', L(x)}
      BY <2>4, IdleIs, Zenon DEF Delay, Return, objects
    <3>2. Copies /\ (x = "lease" => W' = Idle) /\ (x = "pods" => W' = W) /\ Onward
      BY <3>1, <1>Went, <1>PodsSame, Zenon
    <3>3. Saves(x, l)
      BY <2>1, <3>1, <3>2, Zenon DEF Saves
    <3> QED BY <3>2, <3>3, Zenon DEF Shaped, Form
  <2> QED BY <2>2, <2>3, <2>4, Zenon DEF Save
\* Its place and its copy.
<1>BeginIs. ASSUME setup \in Setups, NEW l \in Berth, NEW pc \in PC
            PROVE  Begin(pc, l).pc = pc /\ Begin(pc, l).l = l
  BY <1>BeginIs, AtIs, Zenon DEF Begin
\* The write that starts a cleanup.
<1>StopForm. ASSUME RInv, Others, NEW x \in Worker, x = "lease", NEW l \in Berth, Fresh(l), l.w.phase # "Stopping",
                    l \in {berth, L(x)}, W.pc = "idle" => berth.exists,
                    Save(x, Stopping(l), With(Stopping(l), "stopTarget"))
             PROVE  Shaped
  <2> USE <1>StopForm
  <2>1. PICK k : k = Stopping(l)
    OBVIOUS
  <2>2. k \in Berth /\ k.rv = l.rv /\ k.w.phase = "Stopping" /\ k.w.token = l.w.token /\ k # l
    BY <2>1, StoppingIs, Zenon
  <2>3. berth \in Berth /\ setup \in Setups
    BY CopyIs, Zenon
  <2>4. PICK b, u : b = Written(k) /\ u = Begin("stopTarget", b)
    OBVIOUS
  <2>5. "stopTarget" \in PC /\ "stopTarget" # "acquire" /\ "stopTarget" # "clear" /\ "Stopping" # "Active" /\ x # "pods"
    BY DEF PC, DrainPC
  <2>6. b \in Berth
    BY <2>2, <2>3, <2>4, WrittenIs, Zenon
  <2>7. u.l = b /\ u.pc = "stopTarget"
    BY <2>3, <2>4, <2>5, <2>6, <1>BeginIs, Zenon
  <2>8. Save(x, k, u)
    BY <2>1, <2>4, Zenon DEF With, Begin
  <2>9. k # berth /\ (Current(k) => berth.w.phase # "Stopping")
    BY <2>2, Zenon DEF Fresh, Current
  <2>10. MaySave(x, k)
    BY <2>2, <2>5, <2>9, Zenon DEF MaySave, L
  <2> QED BY <2>2, <2>4, <2>5, <2>7, <2>8, <2>9, <2>10, <1>SaveForm, Zenon
\* Reconcile.
<1>FReconcile. ASSUME RInv, NEW x \in Worker, Reconcile(x)
               PROVE  Shaped
  <2> USE <1>FReconcile
  <2>1. x = "lease" /\ x # "pods" /\ berth.exists /\ Others /\ W.pc = "idle"
    BY Zenon DEF Reconcile, At, W
  <2>2. Sound(berth) /\ Fresh(berth) /\ berth \in Berth /\ setup \in Setups
    BY CopyIs DEF RInv, Fresh
  <2>3. ASSUME ~berth.fin, Save(x, [berth EXCEPT !.fin = TRUE], Idle) PROVE Shaped
    <3>1. PICK k : k = [berth EXCEPT !.fin = TRUE]
      BY Zenon
    <3>2. k = [exists |-> berth.exists, rv |-> berth.rv, fin |-> TRUE, deleting |-> berth.deleting,
               valid |-> berth.valid, w |-> berth.w]
      BY <2>2, <3>1, Zenon DEF Berth
    <3>3. k \in Berth /\ k.w = berth.w
      BY <2>2, <3>2, Zenon DEF Berth
    <3>4. berth.w.phase = ""
      BY <2>2, <2>3, Zenon DEF Sound
    <3>5. "" # "Active" /\ "" # "Stopping"
      OBVIOUS
    <3>6. MaySave(x, k)
      BY <2>1, <3>3, <3>4, <3>5, Zenon DEF MaySave
    <3>7. Idle.l = NoBerth /\ Idle.pc = "idle" /\ "idle" \notin DrainPC /\ "idle" # "acquire" /\ "idle" # "clear"
      BY IdleIs
    <3> QED BY <2>1, <2>3, <3>1, <3>3, <3>6, <3>7, <1>SaveForm, Zenon
  <2>4. ASSUME berth.w.phase # "Stopping", Save(x, Stopping(berth), With(Stopping(berth), "stopTarget"))
        PROVE  Shaped
    BY <2>1, <2>2, <2>4, <1>StopForm, Zenon
  <2>5. ASSUME NEW pc \in {"stopTarget", "verify"}, pc = "verify" => berth.w.phase # "Stopping",
               Goto(x, [Idle EXCEPT !.pc = pc, !.l = berth]), UNCHANGED <<objects, late, faults>>
        PROVE  Shaped
    <3>1. PICK u : u = Begin(pc, berth)
      OBVIOUS
    <3>2. pc \in PC /\ pc # "acquire" /\ pc # "clear" /\ (pc # "verify" => pc \in DrainPC) /\ "idle" \notin DrainPC
      BY DEF PC, DrainPC
    <3>3. u.pc = pc /\ u.l = berth
      BY <2>2, <3>1, <3>2, <1>BeginIs, Zenon
    <3>4. Goes(u)
      BY <2>1, <2>5, <3>2, <3>3, Zenon DEF Goes
    <3>5. berth' = berth /\ Onward /\ NoNewWrite
      BY <2>5, <1>PodsSame, Zenon DEF objects, NoNewWrite
    <3>6. Goto(x, u)
      BY <2>5, <3>1, Zenon DEF Begin
    <3> QED BY <2>1, <3>3, <3>4, <3>5, <3>6, <1>ReadForm, Zenon
  <2>6. berth.w.phase = "Stopping" => MustStop(berth)
    BY Zenon DEF MustStop
  <2> QED BY <2>3, <2>4, <2>5, <2>6, Zenon DEF Reconcile
\* verifyTarget, and the start of the request.
<1>FVerify. ASSUME RInv, NEW x \in Worker, Verify(x)
            PROVE  Shaped
  <2> USE <1>FVerify
  <2>1. /\ Knows(x, worker[x]) /\ worker[x] \in Local /\ setup \in Setups /\ worker[x].pc = "verify"
        /\ worker[x].pc \notin {"idle", "permit", "ungate"} /\ "verify" \notin DrainPC \cup {"idle"}
    BY CopyIs DEF Verify, At, DrainPC
  <2>2. x # "pods" /\ worker[x].reply = NoReply
    BY <2>1, Zenon DEF Knows, L
  <2>3. x = "lease" /\ W = worker[x]
    BY <2>2 DEF Worker, W
  <2>4. UNCHANGED <<service, berth, late, orphans, ident>> /\ Others /\ Onward /\ NoNewWrite
    BY <1>PodsSame, Zenon DEF Verify, ReadsOnly, objects, Others, NoNewWrite
  <2>5. ASSUME Goto(x, [worker[x] EXCEPT !.pc = "acquire", !.started = Now]) PROVE Shaped
    <3>1. Now \in Int
      BY <2>1, SetupTypes DEF Now, RInv, LeaseTypes
    <3>2. PICK u : u = [worker[x] EXCEPT !.pc = "acquire", !.started = Now]
      OBVIOUS
    <3>3. u.pc = "acquire" /\ u.l = L(x) /\ u.reply = NoReply /\ u.started = Now
      BY <2>1, <2>2, <3>1, <3>2, RequestIs, Zenon DEF L
    <3>4. W' = u /\ Copies
      BY <2>3, <2>5, <3>2, <3>3, <1>Went, Zenon
    <3>5. Requests
      BY <2>1, <2>3, <2>4, <3>3, <3>4, Zenon DEF Requests
    <3> QED BY <2>4, <3>4, <3>5, Zenon DEF Shaped, Form
  <2>6. ASSUME NEW pc \in {"stop", "quarantine"}, Step(x, pc) PROVE Shaped
    <3>1. PICK u : u = [worker[x] EXCEPT !.pc = pc]
      BY Zenon
    <3>2. pc \in PC /\ pc \notin DrainPC \cup {"acquire"}
      BY DEF PC, DrainPC
    <3>3. u.l = L(x) /\ u.pc = pc
      BY <2>1, <3>1, <3>2, MovedIs, Zenon DEF L
    <3>4. Goes(u)
      BY <2>1, <2>3, <3>2, <3>3, <1>GoesIs, Zenon
    <3> QED BY <2>4, <2>6, <3>1, <3>3, <3>4, <1>ReadForm, Zenon DEF Step
  <2> QED BY <2>5, <2>6, Zenon DEF Verify
\* The service's answer.
<1>FServeAcquire. ASSUME RInv, NEW x \in Worker, ServeAcquire(x)
                  PROVE  Shaped
  <2> USE <1>FServeAcquire
  <2>1. worker[x] \in Local /\ setup \in Setups /\ LeaseTypes /\ ident \in Holder /\ clock' = clock /\ pods' = pods
    BY CopyIs, SetupTypes, Zenon DEF ServeAcquire, RInv, ObjectTypes, objects
  <2>2. ASSUME NEW r \in Reply, Goto(x, [worker[x] EXCEPT !.reply = r]) PROVE Copies
    <3>1. PICK u : u = [worker[x] EXCEPT !.reply = r]
      BY Zenon
    <3>2. u.l = L(x)
      BY <2>1, <3>1, RequestIs, Zenon DEF L
    <3> QED BY <2>2, <3>1, <3>2, <1>Went, Zenon
  <2>3. ASSUME Grants(ident),
               Goto(x, [worker[x] EXCEPT !.reply =
                 [res |-> "granted", token |-> token'[Lease], expires |-> expires'[Lease]]])
        PROVE  Copies
    <3>1. token'[Lease] \in Nat /\ expires'[Lease] \in Int
      BY <2>1, <2>3, LeaseKept, Zenon
    <3>2. PICK r : r = [res |-> "granted", token |-> token'[Lease], expires |-> expires'[Lease]]
      BY Zenon
    <3>3. r \in Reply
      BY <3>1, <3>2 DEF Reply
    <3> QED BY <2>2, <2>3, <3>2, <3>3, Zenon
  <2>4. ASSUME Goto(x, [worker[x] EXCEPT !.reply = [NoReply EXCEPT !.res = "denied"]]) PROVE Copies
    <3>1. PICK r : r = [NoReply EXCEPT !.res = "denied"]
      BY Zenon
    <3>2. r = [res |-> "denied", token |-> 0, expires |-> 0]
      BY <3>1 DEF NoReply
    <3>3. r \in Reply
      BY <3>2 DEF Reply
    <3> QED BY <2>2, <2>4, <3>1, <3>3, Zenon
  <2>5. Copies
    BY <2>3, <2>4, Zenon DEF ServeAcquire
  <2> QED BY <2>1, <2>5, <1>PodsSame, Zenon DEF Shaped, Form
\* The request fails.
<1>FAcquireError. ASSUME RInv, NEW x \in Worker, AcquireError(x)
                  PROVE  Shaped
  <2> USE <1>FAcquireError
  <2>1. /\ Knows(x, worker[x]) /\ setup \in Setups /\ L(x) \in Berth /\ worker[x].pc = "acquire"
        /\ worker[x].pc \notin {"idle", "permit", "ungate"} /\ "acquire" \notin DrainPC \cup {"idle"}
        /\ Idle.l = NoBerth
    BY CopyIs, IdleIs DEF AcquireError, At, DrainPC
  <2>2. x = "lease" /\ W = worker[x] /\ x # "pods"
    BY <2>1 DEF Knows, Worker, W
  <2>3. UNCHANGED <<service, berth, ident>> /\ Onward /\ NoNewWrite
    BY <1>PodsSame, Zenon DEF AcquireError, objects, NoNewWrite
  <2>4. ASSUME NEW n \in orphans' PROVE n \in orphans \/ n.op = "acquire"
    <3>1. PICK m : m = [op |-> "acquire", holder |-> ident, token |-> 0]
      BY Zenon
    <3>2. m.op = "acquire"
      BY <3>1
    <3> QED BY <3>1, <3>2, Zenon DEF AcquireError
  <2>5. ASSUME Goto(x, [Idle EXCEPT !.pc = "stop", !.l = L(x)]) PROVE Shaped
    <3>1. PICK u : u = Begin("stop", L(x))
      OBVIOUS
    <3>2. "stop" \in PC /\ "stop" \notin DrainPC \cup {"acquire"}
      BY DEF PC, DrainPC
    <3>3. u.l = L(x) /\ u.pc = "stop"
      <4>1. setup \in Setups /\ L(x) \in Berth /\ "stop" \in PC
        BY <2>1, <3>2, Zenon
      <4> QED BY <3>1, <4>1, <1>BeginIs, Zenon
    <3>4. Goes(u)
      BY <2>1, <2>2, <3>2, <3>3, <1>GoesIs, Zenon
    <3>5. Goto(x, u)
      BY <2>5, <3>1, Zenon DEF Begin
    <3> QED BY <2>2, <2>3, <2>4, <3>3, <3>4, <3>5, <1>LocalForm, Zenon
  <2>6. ASSUME Return(x) PROVE Shaped
    <3>1. Goes(Idle) /\ Goto(x, Idle)
      BY <2>1, <2>2, <2>6, <1>GoesIs, Zenon DEF Return
    <3> QED BY <2>1, <2>2, <2>3, <2>4, <3>1, <1>LocalForm, Zenon
  <2> QED BY <2>5, <2>6, Zenon DEF AcquireError
\* A reconciler that gives up.
<1>ReturnForm. ASSUME RInv, Others, NEW x \in Worker, Return(x), berth' = berth, NoNewWrite, Onward, worker[x].pc # "idle"
               PROVE  Shaped
  <2> USE <1>ReturnForm
  <2>1. Idle.l = NoBerth /\ Goto(x, Idle)
    BY IdleIs, Zenon DEF Return
  <2>2. x = "lease" => Goes(Idle)
    BY <1>GoesIs, Zenon DEF W
  <2> QED BY <2>1, <2>2, <1>ReadForm, Zenon
\* What is done with the answer.
<1>FAcquireReturns. ASSUME RInv, NEW x \in Worker, AcquireReturns(x)
                    PROVE  Shaped
  <2> USE <1>FAcquireReturns
  <2>1. /\ Knows(x, worker[x]) /\ worker[x] \in Local /\ setup \in Setups /\ L(x) \in Berth /\ Fresh(L(x))
        /\ worker[x].pc = "acquire" /\ worker[x].pc \notin {"idle", "permit", "ungate"} /\ berth \in Berth
        /\ Others /\ At(x, "acquire")
    BY CopyIs DEF AcquireReturns, At
  <2>2. x = "lease" /\ W = worker[x] /\ x # "pods" /\ W.pc # "idle" /\ "Active" # "Stopping" /\ W.pc = "acquire"
    BY <2>1 DEF Knows, Worker, W
  <2>3. L(x).w.phase # "Stopping"
    BY <2>1, Zenon DEF Knows, L
  <2>4. ASSUME Return(x), UNCHANGED <<objects, late, faults>> PROVE Shaped
    <3>1. berth' = berth /\ Onward /\ NoNewWrite /\ worker[x].pc # "idle"
      BY <2>2, <2>4, <1>PodsSame, Zenon DEF objects, NoNewWrite
    <3> QED BY <2>1, <2>4, <3>1, <1>ReturnForm, Zenon
  <2>5. ASSUME Save(x, Stopping(L(x)), With(Stopping(L(x)), "stopTarget")) PROVE Shaped
    <3>1. L(x) \in {berth, L(x)} /\ (W.pc = "idle" => berth.exists)
      BY <2>2, Zenon
    <3> QED BY <2>1, <2>2, <2>3, <2>5, <3>1, <1>StopForm, Zenon
  <2> DEFINE r == worker[x].reply
             w == L(x).w
             renewed == [L(x) EXCEPT !.w =
               [w EXCEPT !.phase = "Active", !.holder = ident, !.token = r.token,
                         !.deadline = Deadline(x), !.pods = pruned(w.pods)]]
  <2>6. ASSUME r.res = "granted", Save(x, renewed, With(renewed, "activate")) PROVE Shaped
    <3>1. PICK k : k = renewed
      BY Zenon
    <3>2. k = [L(x) EXCEPT !.w = Renewal(L(x).w, ident, worker[x].reply.token, Deadline(x), pruned(L(x).w.pods))]
      BY <3>1, Zenon DEF Renewal
    <3> HIDE DEF renewed
    <3>3. /\ k \in Berth /\ k.rv = L(x).rv /\ k.w.phase = "Active" /\ k.w.holder = ident
          /\ k.w.token = worker[x].reply.token /\ k.w.deadline = Deadline(x)
      BY <2>1, <2>6, <3>2, RenewedIs, Zenon
    <3>4. PICK b : b = Written(k)
      OBVIOUS
    <3>5. PICK u : u = Begin("activate", b)
      OBVIOUS
    <3>6. "activate" \in PC /\ "activate" \notin DrainPC
      BY DEF PC, DrainPC
    <3>7. b \in Berth
      BY <2>1, <3>3, <3>4, WrittenIs, Zenon
    <3>8. u.l = b /\ u.pc = "activate"
      <4>1. setup \in Setups /\ "activate" \in PC
        BY <2>1, <3>6, Zenon
      <4> QED BY <3>5, <3>7, <4>1, <1>BeginIs, Zenon
    <3>9. Save(x, k, u)
      BY <2>6, <3>1, <3>4, <3>5, Zenon DEF With, Begin
    <3>10. Current(k) => berth.w.phase # "Stopping"
      BY <2>1, <2>3, <3>3, Zenon DEF Fresh, Current
    <3>11. k.w.deadline <= W.started + TTL
      BY <2>1, <2>2, <3>3, DeadlineIs, Zenon
    <3>12. MaySave(x, k)
      BY <2>2, <2>6, <3>3, <3>10, <3>11, Zenon DEF MaySave
    <3>13. "activate" # "acquire" /\ "activate" # "clear"
      OBVIOUS
    <3> QED BY <2>1, <2>2, <3>3, <3>4, <3>6, <3>8, <3>9, <3>12, <3>13, <1>SaveForm, Zenon
  <2> QED BY <2>4, <2>5, <2>6, Zenon DEF AcquireReturns
\* A patch of the target.
<1>PatchForm. ASSUME RInv, Others, NEW x \in Worker, NEW t, NEW rec, Patch(x, t, rec), worker[x].pc # "idle",
                     rec.l \in {NoBerth, L(x)}, x = "lease" => Goes(rec)
              PROVE  Shaped
  <2> USE <1>PatchForm
  <2>1. ASSUME Goto(x, rec), UNCHANGED <<berth, pods, jobs, late, faults>> PROVE Shaped
    <3>1. berth' = berth /\ Onward /\ NoNewWrite
      BY <2>1, <1>PodsSame, Zenon DEF NoNewWrite
    <3> QED BY <2>1, <3>1, <1>ReadForm, Zenon
  <2>2. ASSUME Return(x), UNCHANGED <<objects, late, faults>> PROVE Shaped
    <3>1. berth' = berth /\ Onward /\ NoNewWrite
      BY <2>2, <1>PodsSame, Zenon DEF NoNewWrite, objects
    <3> QED BY <2>2, <3>1, <1>ReturnForm, Zenon
  <2>3. ASSUME Delay(x, [kind |-> "target", t |-> t, admitted |-> ~increasesActivity(t)]) PROVE Shaped
    <3>1. PICK m : m = [kind |-> "target", t |-> t, admitted |-> ~increasesActivity(t)]
      BY Zenon
    <3>2. m.kind # "lease"
      BY <3>1
    <3>3. berth' = berth /\ Onward /\ late' = late \cup {m} /\ Return(x)
      BY <2>3, <3>1, <1>PodsSame, Zenon DEF Delay, objects
    <3>4. NoNewWrite
      BY <3>2, <3>3, Zenon DEF NoNewWrite
    <3> QED BY <3>3, <3>4, <1>ReturnForm, Zenon
  <2> QED BY <2>1, <2>2, <2>3, Zenon DEF Patch
\* Activation of the target.
<1>FActivate. ASSUME RInv, NEW x \in Worker, Activate(x)
              PROVE  Shaped
  <2> USE <1>FActivate
  <2>1. worker[x] \in Local /\ worker[x].pc = "activate" /\ Others
    BY CopyIs, Zenon DEF Activate, At
  <2>2. "activate" \notin DrainPC \cup {"idle"} /\ "list" \in PC /\ "list" \notin DrainPC \cup {"acquire"} /\ "activate" # "idle"
    BY DEF PC, DrainPC
  <2>3. PICK u : u = [worker[x] EXCEPT !.pc = "list"]
    BY Zenon
  <2>4. u.l = L(x) /\ u.pc = "list"
    BY <2>1, <2>2, <2>3, MovedIs, Zenon DEF L
  <2>5. x = "lease" => Goes(u)
    BY <2>1, <2>2, <2>4, <1>GoesIs, Zenon DEF W
  <2>6. ASSUME UNCHANGED <<objects, late, faults>> PROVE berth' = berth /\ Onward /\ NoNewWrite
    BY <2>6, <1>PodsSame, Zenon DEF objects, NoNewWrite
  <2>7. ASSUME Goto(x, u), UNCHANGED <<objects, late, faults>> PROVE Shaped
    BY <2>1, <2>4, <2>5, <2>6, <2>7, <1>ReadForm, Zenon
  <2>8. ASSUME Return(x), UNCHANGED <<objects, late, faults>> PROVE Shaped
    BY <2>1, <2>2, <2>6, <2>8, <1>ReturnForm, Zenon
  <2>9. ASSUME Patch(x, [target EXCEPT !.active = TRUE], u) PROVE Shaped
    BY <2>1, <2>2, <2>4, <2>5, <2>9, <1>PatchForm, Zenon
  <2> QED BY <2>3, <2>7, <2>8, <2>9, Zenon DEF Activate
\* permitPods.
<1>FListPods. ASSUME RInv, NEW x \in Worker, ListPods(x)
              PROVE  Shaped
  <2> USE <1>FListPods
  <2>1. /\ Knows(x, worker[x]) /\ worker[x].pc = "list" /\ pods \in [Pod -> PodObject]
    BY CopyIs, Zenon DEF ListPods, At
  <2>2. "list" \notin {"idle", "ungate"} /\ "list" \notin DrainPC \cup {"idle"} /\ "idle" \notin DrainPC \cup {"acquire"}
        /\ "permit" \notin DrainPC \cup {"acquire"}
    BY DEF DrainPC
  <2>3. L(x).fin /\ L(x).exists
    BY <2>1, <2>2, Zenon DEF Knows, L
  <2>4. PICK T : T = {Seen(p) : p \in Stored}
    BY Zenon
  <2>5. T \in Pending /\ \A s \in T : Known(s.pod)
    BY <2>1, <2>4 DEF Pending, Seen, Stored, Known, PodObject
  <2>6. PICK u : u = Permitting(x, T)
    OBVIOUS
  <2>7. (u = Idle \/ u.l = L(x)) /\ u.pc \in {"idle", "permit"}
    BY <2>3, <2>5, <2>6, PermittingIs, Zenon
  <2>8. u.l \in {NoBerth, L(x)} /\ u.pc \notin DrainPC \cup {"acquire"}
    BY <2>2, <2>7, IdleIs, Zenon
  <2>9. x = "lease" => Goes(u)
    BY <2>1, <2>2, <2>8, <1>GoesIs, Zenon DEF W
  <2>10. Others /\ berth' = berth /\ Onward /\ NoNewWrite /\ Goto(x, u)
    BY <2>4, <2>6, <1>PodsSame, Zenon DEF ListPods, ReadsOnly, Others, objects, NoNewWrite
  <2> QED BY <2>8, <2>9, <2>10, <1>ReadForm, Zenon
\* permitPod up to the registration.
<1>FPermit. ASSUME RInv, NEW x \in Worker, Permit(x)
            PROVE  Shaped
  <2> USE <1>FPermit
  <2>1. PICK s \in worker[x].todo : permitPod(x, s)
    BY Zenon DEF Permit
  <2>2. /\ Knows(x, worker[x]) /\ worker[x] \in Local /\ setup \in Setups /\ L(x) \in Berth /\ Sound(L(x))
        /\ Fresh(L(x)) /\ berth \in Berth /\ worker[x].todo \in Pending /\ s.pod \in Pod /\ Others
        /\ worker[x].pc = "permit"
    BY CopyIs, Zenon DEF Local, Pending, Permit, At
  <2>3. L(x).fin /\ L(x).exists /\ Known(s.pod) /\ \A r \in worker[x].todo : Known(r.pod)
    BY <2>2, Zenon DEF Knows, L
  <2>4. \A pc \in {"idle", "permit", "ungate"} : pc \notin DrainPC \cup {"acquire"} /\ pc # "clear"
    BY DEF DrainPC
  <2>5. worker[x].pc # "idle" /\ worker[x].pc \notin DrainPC \cup {"idle"} /\ Idle.l = NoBerth
    BY <2>2, IdleIs DEF DrainPC
  <2>6. ASSUME UNCHANGED <<objects, late, faults>> PROVE berth' = berth /\ Onward /\ NoNewWrite
    BY <2>6, <1>PodsSame, Zenon DEF objects, NoNewWrite
  <2>7. ASSUME NEW v, Goto(x, v), v.l \in {NoBerth, L(x)}, v.pc \in {"idle", "permit", "ungate"},
               UNCHANGED <<objects, late, faults>>
        PROVE  Shaped
    <3>1. x = "lease" => Goes(v)
      BY <2>4, <2>5, <2>7, <1>GoesIs, Zenon DEF W
    <3> QED BY <2>2, <2>6, <2>7, <3>1, <1>ReadForm, Zenon
  <2>8. ASSUME Return(x), UNCHANGED <<objects, late, faults>> PROVE Shaped
    BY <2>2, <2>5, <2>6, <2>8, <1>ReturnForm, Zenon
  <2>9. ASSUME Goto(x, Ungating(x, s, L(x))), UNCHANGED <<objects, late, faults>> PROVE Shaped
    BY <2>2, <2>3, <2>7, <2>9, UngatingIs, Zenon
  <2>10. ASSUME Goto(x, Permitting(x, worker[x].todo \ {s})), UNCHANGED <<objects, late, faults>> PROVE Shaped
    <3>1. PICK T, u : T = worker[x].todo \ {s} /\ u = Permitting(x, T)
      BY Zenon
    <3>2. T \in Pending /\ \A r \in T : Known(r.pod)
      BY <2>2, <2>3, <3>1, Zenon DEF Pending
    <3>3. (u = Idle \/ u.l = L(x)) /\ u.pc \in {"idle", "permit"}
      BY <2>3, <3>1, <3>2, PermittingIs, Zenon
    <3>4. u.l \in {NoBerth, L(x)} /\ Goto(x, u)
      BY <2>5, <2>10, <3>1, <3>3, Zenon
    <3> QED BY <2>7, <2>10, <3>3, <3>4, Zenon
  <2> DEFINE more == [L(x) EXCEPT !.w.pods = @ \cup {s.pod}]
  <2>11. ASSUME ~permitRefuses(L(x), s), activeAt(L(x), Now), s.st # "leaving", s.pod \notin L(x).w.pods,
               Save(x, more, Ungating(x, s, Written(more)))
        PROVE  Shaped
    <3>1. ~(Cardinality(L(x).w.pods) >= MaxPermittedPods) /\ Counts
      BY <2>2, <2>11, Zenon DEF permitRefuses, RInv
    <3>2. L(x).w.phase = "Active"
      BY <2>11, Zenon DEF activeAt
    <3>3. PICK l, q, k : l = L(x) /\ q = s.pod /\ k = [l EXCEPT !.w.pods = @ \cup {q}]
      BY Zenon
    <3>4. k = more
      BY <3>3, Zenon
    <3>5. /\ l \in Berth /\ q \in Pod /\ Sound(l) /\ Known(q) /\ l.fin /\ l.exists /\ l.w.phase = "Active"
          /\ Counts /\ ~(Cardinality(l.w.pods) >= MaxPermittedPods) /\ Fresh(l)
      BY <2>2, <2>3, <3>1, <3>2, <3>3, Zenon
    <3>6. /\ k \in Berth /\ k.rv = l.rv /\ k.fin /\ k.exists /\ Sound(k) /\ k.w.holder = l.w.holder
          /\ k.w.token = l.w.token /\ k.w.deadline = l.w.deadline
      BY <2>2, <3>3, <3>5, RegistrationIs, ZenonT(60)
    <3> HIDE DEF more
    <3>7. Current(k) => berth = l
      BY <3>5, <3>6, Zenon DEF Fresh, Current
    <3>8. PICK b, u : b = Written(k) /\ u = Ungating(x, s, b)
      OBVIOUS
    <3>9. b \in Berth /\ Sound(b) /\ b.fin /\ b.exists
      BY <2>2, <3>6, <3>8, WrittenIs, Zenon
    <3>10. u.l \in {NoBerth, b} /\ u.pc = "ungate"
      BY <3>8, <3>9, UngatingIs, Zenon
    <3>11. Save(x, k, u)
      BY <2>11, <3>4, <3>8, Zenon
    <3>12. "Active" # "Stopping" /\ "ungate" \notin DrainPC /\ "ungate" # "acquire" /\ "ungate" # "clear"
      BY DEF DrainPC
    <3>13. MaySave(x, k)
      BY <3>3, <3>5, <3>6, <3>7, <3>12, Zenon DEF MaySave, L
    <3>14. x = "lease" => W.pc # "idle"
      BY <2>5, Zenon DEF W
    <3> QED BY <2>2, <3>6, <3>8, <3>10, <3>11, <3>12, <3>13, <3>14, <1>SaveForm, Zenon
  <2> QED BY <2>1, <2>8, <2>9, <2>10, <2>11, Zenon DEF permitPod
\* The removal of a Pod's gate.
<1>FUngate. ASSUME RInv, NEW x \in Worker, Ungate(x)
            PROVE  Shaped
  <2> USE <1>FUngate
  <2>1. /\ Knows(x, worker[x]) /\ worker[x].pc = "ungate" /\ pods \in [Pod -> PodObject] /\ worker[x].todo \in Pending
        /\ Others
    BY CopyIs, Zenon DEF Ungate, At, Local, Pending
  <2>2. PICK p \in Pod : p = worker[x].head
    BY <2>1, Zenon DEF Knows
  <2>3. /\ worker[x].pc # "idle" /\ worker[x].pc \notin DrainPC \cup {"idle"}
        /\ "idle" \notin DrainPC \cup {"acquire"} /\ "permit" \notin DrainPC \cup {"acquire"}
    BY <2>1 DEF DrainPC
  <2>4. ASSUME pods[p].st = "gated", Opened(p), Goto(x, Permitting(x, worker[x].todo)),
               UNCHANGED <<berth, target, jobs, late, faults>>
        PROVE  Shaped
    <3>1. PICK u : u = Permitting(x, worker[x].todo)
      OBVIOUS
    <3>2. (u = Idle \/ u.l = L(x)) /\ u.pc \in {"idle", "permit"}
      BY <2>1, <3>1, PermittingIs, Zenon DEF Knows, L
    <3>3. "open" \in PodStates /\ pods[p].st \notin {"done", "gone"} /\ "open" \notin {"none", "creating"}
      BY <2>4 DEF PodStates
    <3>4. Onward
      BY <2>1, <2>4, <3>3, MovedOnward, Zenon DEF Opened
    <3>5. u.l \in {NoBerth, L(x)} /\ u.pc \notin DrainPC \cup {"acquire"} /\ Goto(x, u)
      BY <2>3, <2>4, <3>1, <3>2, IdleIs, Zenon
    <3>6. x = "lease" => Goes(u)
      BY <2>3, <3>5, <1>GoesIs, Zenon DEF W
    <3>7. berth' = berth /\ NoNewWrite
      BY <2>4, Zenon DEF NoNewWrite
    <3> QED BY <2>1, <3>4, <3>5, <3>6, <3>7, <1>ReadForm, Zenon
  <2>5. ASSUME Return(x), UNCHANGED <<objects, late, faults>> PROVE Shaped
    <3>1. berth' = berth /\ Onward /\ NoNewWrite
      BY <2>5, <1>PodsSame, Zenon DEF objects, NoNewWrite
    <3> QED BY <2>1, <2>3, <2>5, <3>1, <1>ReturnForm, Zenon
  <2>6. ASSUME Delay(x, [kind |-> "ungate", pod |-> p, admitted |-> FALSE]) PROVE Shaped
    <3>1. PICK m : m = [kind |-> "ungate", pod |-> p, admitted |-> FALSE]
      BY Zenon
    <3>2. m.kind # "lease"
      BY <3>1
    <3>3. berth' = berth /\ Onward /\ late' = late \cup {m} /\ Return(x)
      BY <2>6, <3>1, <1>PodsSame, Zenon DEF Delay, objects
    <3>4. NoNewWrite
      BY <3>2, <3>3, Zenon DEF NoNewWrite
    <3> QED BY <2>1, <2>3, <3>3, <3>4, <1>ReturnForm, Zenon
  <2> QED BY <2>2, <2>4, <2>5, <2>6, Zenon DEF Ungate
\* A step of the others.
<1>AsideForm. ASSUME UNCHANGED <<service, berth, orphans, ident>>, worker' = worker, NoNewWrite, Onward
              PROVE  Shaped
  <2> USE <1>AsideForm
  <2>1. W' = W /\ Copies
    BY Zenon DEF W, Copies
  <2>2. Aside
    BY <2>1, Zenon DEF Aside
  <2> QED BY <2>1, <2>2, Zenon DEF Shaped, Form
\* The reconciler of the Pods.
<1>FPodReconcile. ASSUME RInv, NEW x \in Worker, NEW p \in Pod, PodReconcile(x, p)
                  PROVE  Shaped
  <2> USE <1>FPodReconcile
  <2>1. /\ pods \in [Pod -> PodObject] /\ x = "pods" /\ Others /\ berth' = berth /\ NoNewWrite
        /\ UNCHANGED <<service, berth, orphans, ident>> /\ p \in Stored
    BY CopyIs, Zenon DEF PodReconcile, Others, NoNewWrite
  <2>2. x # "lease" /\ setup \in Setups /\ berth \in Berth
    BY <2>1, CopyIs
  <2>3. ASSUME pods' = Deleted({p}), UNCHANGED worker PROVE Shaped
    <3>1. Onward
      BY <2>1, <2>3, DeletedIs, Zenon
    <3> QED BY <2>1, <2>3, <3>1, <1>AsideForm, Zenon
  <2>4. ASSUME Goto(x, [Idle EXCEPT !.pc = "permit", !.l = berth, !.todo = {Seen(p)}]), UNCHANGED pods
        PROVE  Shaped
    <3>1. PICK a, T : a = [Idle EXCEPT !.pc = "permit", !.l = berth] /\ T = {Seen(p)}
      BY Zenon
    <3>2. PICK u : u = [Idle EXCEPT !.pc = "permit", !.l = berth, !.todo = {Seen(p)}]
      OBVIOUS
    <3>3. u = [a EXCEPT !.todo = T]
      BY <3>1, <3>2
    <3>4. a \in Local /\ a.l = berth
      <4>1. setup \in Setups /\ berth \in Berth /\ "permit" \in PC
        BY <2>2 DEF PC
      <4> QED BY <3>1, <4>1, AtIs, Zenon
    <3>5. T \in Pending
      BY <2>1, <3>1 DEF Pending, Seen, PodObject
    <3>6. u.l = berth
      BY <3>3, <3>4, <3>5, LocalIs, Zenon
    <3>7. Onward
      BY <2>4, <1>PodsSame, Zenon
    <3> QED BY <2>1, <2>2, <2>4, <3>2, <3>6, <3>7, <1>ReadForm, Zenon
  <2> QED BY <2>3, <2>4, Zenon DEF PodReconcile
\* The write stopAndRelease starts with.
<1>FStop. ASSUME RInv, NEW x \in Worker, Stop(x)
          PROVE  Shaped
  <2> USE <1>FStop
  <2>1. /\ Knows(x, worker[x]) /\ L(x) \in Berth /\ Fresh(L(x)) /\ worker[x].pc = "stop"
        /\ worker[x].pc \notin {"idle", "permit", "ungate"} /\ Others /\ "Active" # "Stopping"
    BY CopyIs DEF Stop, At
  <2>2. x = "lease" /\ (W.pc = "idle" => berth.exists) /\ L(x).w.phase # "Stopping" /\ L(x) \in {berth, L(x)}
    BY <2>1 DEF Knows, Worker, W, L
  <2> QED BY <2>1, <2>2, <1>StopForm, Zenon DEF Stop
\* A cleanup goes on, with the copy it started with.
<1>DrainGoes. ASSUME RInv, NEW x \in Worker, worker[x].pc \in DrainPC
              PROVE  /\ x = "lease" /\ W = worker[x] /\ worker[x].pc # "idle" /\ worker[x] \in Local
                     /\ \A v : v.pc \in DrainPC \ {"clear"} /\ v.l = L(x) => Goes(v)
  <2> USE <1>DrainGoes
  <2>1. Knows(x, worker[x]) /\ worker[x] \in Local
    BY CopyIs, Zenon
  <2>2. worker[x].pc # "idle" /\ worker[x].pc \notin {"idle", "permit", "ungate"}
    BY DEF DrainPC
  <2>3. x = "lease" /\ W = worker[x]
    BY <2>1, <2>2 DEF Knows, Worker, W
  <2> QED BY <2>1, <2>2, <2>3, <1>GoesIs, Zenon DEF L
\* stopTarget, in a cleanup or for a target that is not the recorded one.
<1>FStopTarget. ASSUME RInv, NEW x \in Worker, StopTarget(x)
                PROVE  Shaped
  <2> USE <1>FStopTarget
  <2>1. worker[x] \in Local /\ worker[x].pc \in {"stopTarget", "quarantine"} /\ Others /\ worker[x].pc # "idle"
    BY CopyIs DEF StopTarget, At
  <2>2. "stopTarget" \in DrainPC /\ "drainJobs" \in PC /\ "drainJobs" \in DrainPC \ {"clear"}
    BY DEF PC, DrainPC
  <2>3. PICK u : u = IF At(x, "stopTarget") THEN [worker[x] EXCEPT !.pc = "drainJobs"] ELSE Idle
    BY Zenon
  <2>4. u.l \in {NoBerth, L(x)} /\ (x = "lease" => Goes(u))
    <3>1. CASE At(x, "stopTarget")
      <4>1. PICK n : n = [worker[x] EXCEPT !.pc = "drainJobs"]
        BY Zenon
      <4>2. n.l = L(x) /\ n.pc = "drainJobs"
        BY <2>1, <2>2, <4>1, MovedIs, Zenon DEF L
      <4>3. u = n /\ worker[x].pc \in DrainPC
        BY <2>2, <2>3, <3>1, <4>1, Zenon DEF At
      <4>4. u.l = L(x) /\ u.pc \in DrainPC \ {"clear"}
        BY <2>2, <4>2, <4>3, Zenon
      <4> QED BY <4>3, <4>4, <1>DrainGoes, Zenon
    <3>2. CASE ~At(x, "stopTarget")
      BY <2>1, <2>3, <3>2, IdleIs, <1>GoesIs, Zenon DEF W
    <3> QED BY <3>1, <3>2, Zenon
  <2>5. ASSUME Goto(x, u), UNCHANGED <<objects, late, faults>> PROVE Shaped
    <3>1. berth' = berth /\ Onward /\ NoNewWrite
      BY <2>5, <1>PodsSame, Zenon DEF objects, NoNewWrite
    <3> QED BY <2>1, <2>4, <2>5, <3>1, <1>ReadForm, Zenon
  <2>6. ASSUME NEW t, Patch(x, t, u) PROVE Shaped
    BY <2>1, <2>4, <2>6, <1>PatchForm, Zenon
  <2> QED BY <2>3, <2>5, <2>6, Zenon DEF StopTarget
\* drainJobs and drainPods note what they saw.
<1>NotesForm. ASSUME RInv, Others, NEW x \in Worker, worker[x].pc \in DrainPC, NEW pc \in DrainPC \ {"clear"}, NEW b \in BOOLEAN,
                     Goto(x, [worker[x] EXCEPT !.pc = pc, !.done = b]), berth' = berth, NoNewWrite, Onward
              PROVE  Shaped
  <2> USE <1>NotesForm
  <2>1. PICK a : a = [worker[x] EXCEPT !.pc = pc]
    BY Zenon
  <2>2. PICK u : u = [worker[x] EXCEPT !.pc = pc, !.done = b]
    OBVIOUS
  <2>3. u = [a EXCEPT !.done = b]
    BY <2>1, <2>2
  <2>4. pc \in PC /\ worker[x] \in Local
    BY <1>DrainGoes DEF PC
  <2>5. a \in Local /\ a.pc = pc /\ a.l = L(x)
    BY <2>1, <2>4, MovedIs, Zenon DEF L
  <2>6. u.pc = a.pc /\ u.l = a.l
    BY <2>3, <2>5, LocalIs, Zenon
  <2>7. u.l = L(x) /\ Goes(u) /\ Goto(x, u)
    BY <2>2, <2>5, <2>6, <1>DrainGoes, Zenon
  <2> QED BY <2>7, <1>ReadForm, Zenon
\* drainJobs.
<1>FDrainJobs. ASSUME RInv, NEW x \in Worker, DrainJobs(x)
               PROVE  Shaped
  <2> USE <1>FDrainJobs
  <2>1. worker[x].pc = "drainJobs" /\ Others /\ berth' = berth /\ NoNewWrite /\ Onward
    BY <1>PodsSame, Zenon DEF DrainJobs, At, Others, NoNewWrite
  <2>2. "drainJobs" \in DrainPC /\ "drainPods" \in DrainPC \ {"clear"} /\ "drainJobs" # "idle"
    BY DEF DrainPC
  <2>3. ASSUME NEW b \in BOOLEAN, Goto(x, [worker[x] EXCEPT !.pc = "drainPods", !.done = b]) PROVE Shaped
    BY <2>1, <2>2, <2>3, <1>NotesForm, Zenon
  <2>4. ASSUME Return(x) PROVE Shaped
    BY <2>1, <2>2, <2>4, <1>ReturnForm, Zenon
  <2>5. (\A j \in Job : jobs[j] \in {"none", "gone"}) \in BOOLEAN
    BY Zenon
  <2> QED BY <2>3, <2>4, <2>5, Zenon DEF DrainJobs
\* drainPods.
<1>FDrainPods. ASSUME RInv, NEW x \in Worker, DrainPods(x)
               PROVE  Shaped
  <2> USE <1>FDrainPods
  <2>1. worker[x].pc = "drainPods" /\ Others /\ berth' = berth /\ NoNewWrite /\ pods \in [Pod -> PodObject]
    BY CopyIs, Zenon DEF DrainPods, At, Others, NoNewWrite
  <2>2. "drainPods" \in DrainPC /\ "release" \in DrainPC \ {"clear"} /\ "drainPods" # "idle" /\ FALSE \in BOOLEAN
    BY DEF DrainPC
  <2>3. Onward
    BY <2>1, DeletedIs, Zenon DEF DrainPods
  <2>4. ASSUME NEW b \in BOOLEAN, Goto(x, [worker[x] EXCEPT !.pc = "release", !.done = b]) PROVE Shaped
    BY <2>1, <2>2, <2>3, <2>4, <1>NotesForm, Zenon
  <2>5. ASSUME Return(x) PROVE Shaped
    BY <2>1, <2>2, <2>3, <2>5, <1>ReturnForm, Zenon
  <2> QED BY <2>2, <2>4, <2>5, Zenon DEF DrainPods
\* The Release.
<1>FRelease. ASSUME RInv, NEW x \in Worker, Release(x)
             PROVE  Shaped
  <2> USE <1>FRelease
  <2>1. x = "lease" /\ berth' = berth /\ Onward
    BY Released, <1>PodsSame, Zenon DEF Release, objects
  <2>2. worker \in [Worker -> Local] /\ W \in Local /\ "clear" \in PC
    BY OTypes DEF RInv, ObjectTypes, PC, DrainPC
  <2>3. ASSUME Step(x, "clear") PROVE Copies
    <3>1. PICK u : u = [worker[x] EXCEPT !.pc = "clear"]
      BY Zenon
    <3>2. u.l = L(x)
      BY <2>1, <2>2, <3>1, MovedIs, Zenon DEF L, W
    <3> QED BY <2>3, <3>1, <3>2, <1>Went, Zenon DEF Step
  <2>4. ASSUME Return(x) PROVE Copies
    <3>1. Idle.l \in {NoBerth, berth', L(x)} /\ Goto(x, Idle)
      BY <2>4, IdleIs, Zenon DEF Return
    <3> QED BY <3>1, <1>Went, Zenon
  <2>5. Copies
    BY <2>3, <2>4, Zenon DEF Release
  <2> QED BY <2>1, <2>5, Zenon DEF Shaped, Form
\* The last write of the cleanup.
<1>FClear. ASSUME RInv, NEW x \in Worker, Clear(x)
           PROVE  Shaped
  <2> USE <1>FClear
  <2>1. /\ worker[x].pc = "clear" /\ Fresh(L(x)) /\ L(x) \in Berth /\ L(x).w.uid \in Target \cup {None} /\ Others
        /\ Knows(x, worker[x])
    BY CopyIs, Zenon DEF Clear, At, Workload
  <2>2. "clear" \in DrainPC
    BY DEF DrainPC
  <2>3. x = "lease" /\ W = worker[x] /\ W.pc # "idle" /\ W.pc = "clear" /\ W.l = L(x) /\ x # "pods"
    BY <2>1, <2>2, <1>DrainGoes DEF L
  <2>4. PICK l : l = L(x)
    OBVIOUS
  <2>5. ASSUME NEW k \in Berth, k.rv = l.rv, k.w.token \in {0, l.w.token}, k.exists => k.w.phase = "", Save(x, k, Idle)
        PROVE  Shaped
    <3>1. Current(k) => berth = l
      BY <2>1, <2>4, <2>5, Zenon DEF Current, Fresh
    <3>2. "" # "Active"
      OBVIOUS
    <3>3. MaySave(x, k)
      BY <2>3, <2>4, <2>5, <3>1, <3>2, Zenon DEF MaySave, L
    <3>4. Idle.l = NoBerth /\ Idle.pc = "idle" /\ "idle" \notin DrainPC /\ "idle" # "acquire" /\ "idle" # "clear"
      BY IdleIs
    <3> QED BY <2>1, <2>3, <2>5, <3>3, <3>4, <1>SaveForm, Zenon
  <2>6. ASSUME Save(x, [l EXCEPT !.exists = FALSE], Idle) PROVE Shaped
    <3>1. PICK k : k = [l EXCEPT !.exists = FALSE]
      BY Zenon
    <3>2. k \in Berth /\ ~k.exists /\ k.rv = l.rv /\ k.w = l.w
      BY <2>1, <2>4, <3>1, LeaseIs, ZenonT(60)
    <3> QED BY <2>5, <2>6, <3>1, <3>2, Zenon
  <2>7. ASSUME Save(x, [l EXCEPT !.w = [NoWorkload EXCEPT !.uid = l.w.uid]], Idle) PROVE Shaped
    <3>1. PICK v : v = [NoWorkload EXCEPT !.uid = l.w.uid]
      BY Zenon
    <3>2. NoWorkload \in Workload /\ l.w.uid \in Target \cup {None}
      BY <2>1, <2>4, NothingRecorded, Zenon
    <3>3. v \in Workload /\ v.phase = "" /\ v.token = 0
      BY <3>1, <3>2, WorkloadIs, Zenon
    <3>4. PICK k : k = [l EXCEPT !.w = v]
      BY Zenon
    <3>5. k \in Berth /\ k.w = v /\ k.rv = l.rv
      <4>1. l \in Berth /\ v \in Workload
        BY <2>1, <2>4, <3>3, Zenon
      <4>2. LET n == [l EXCEPT !.w = v] IN n \in Berth /\ n.w = v /\ n.rv = l.rv
        BY <4>1, LeaseIs, Zenon
      <4> QED BY <3>4, <4>2, Zenon
    <3> QED BY <2>5, <2>7, <3>1, <3>3, <3>4, <3>5, Zenon
  <2> QED BY <2>4, <2>6, <2>7, Zenon DEF Clear
\* The death of a reconciler.
<1>FFail. ASSUME RInv, NEW x \in Worker, Fail(x)
          PROVE  Shaped
  <2> USE <1>FFail
  <2>1. Others /\ berth' = berth /\ NoNewWrite /\ Onward /\ Return(x) /\ worker[x].pc # "idle"
    BY <1>PodsSame, Zenon DEF Fail, Others, NoNewWrite, objects
  <2> QED BY <2>1, <1>ReturnForm, Zenon
\* Requests that arrive late.
<1>FArrive. ASSUME RInv, NEW m \in late, Arrive(m)
            PROVE  Shaped
  <2> USE <1>FArrive
  <2>1. /\ m \in LeaseWrite \cup TargetWrite \cup UngateWrite \cup CreateWrite /\ pods \in [Pod -> PodObject]
    BY Zenon DEF RInv, ObjectTypes
  <2>2. UNCHANGED <<service, orphans, ident>> /\ worker' = worker /\ NoNewWrite
    BY Zenon DEF Arrive, NoNewWrite
  <2>3. ASSUME LateLease(m) PROVE Shaped
    <3>1. Onward
      BY <2>3, <1>PodsSame, Zenon DEF LateLease
    <3>2. Copies
      BY <2>2, Zenon DEF Copies
    <3> QED BY <2>3, <3>1, <3>2, Zenon DEF Shaped, Form
  <2>4. ASSUME berth' = berth, pods' = pods PROVE Shaped
    BY <2>2, <2>4, <1>PodsSame, <1>AsideForm, Zenon
  <2>5. ASSUME LateUngate(m) PROVE Shaped
    <3>1. m.pod \in Pod /\ pods[m.pod].st = "gated" /\ Opened(m.pod) /\ berth' = berth
      BY <2>1, <2>5, Zenon DEF LateUngate, LeaseWrite, TargetWrite, UngateWrite, CreateWrite
    <3>2. "open" \in PodStates /\ pods[m.pod].st \notin {"done", "gone"} /\ "open" \notin {"none", "creating"}
      BY <3>1 DEF PodStates
    <3>3. Onward
      BY <2>1, <3>1, <3>2, MovedOnward, Zenon DEF Opened
    <3> QED BY <2>2, <3>1, <3>3, <1>AsideForm, Zenon
  <2> QED BY <2>3, <2>4, <2>5, Zenon DEF Arrive, LateTarget, LateCreate
\* Admission of such a request, and its rejection.
<1>FAdmit. ASSUME RInv, NEW m \in late, Admit(m) \/ Reject(m)
           PROVE  Shaped
  <2> USE <1>FAdmit
  <2>1. UNCHANGED <<service, berth, orphans, ident>> /\ worker' = worker /\ Onward
    BY <1>PodsSame, Zenon DEF Admit, Reject, objects
  <2>2. CASE Reject(m)
    <3>1. NoNewWrite
      BY <2>2, Zenon DEF Reject, NoNewWrite
    <3> QED BY <2>1, <3>1, <1>AsideForm, Zenon
  <2>3. CASE Admit(m)
    <3>1. m \in LeaseWrite \cup TargetWrite \cup UngateWrite \cup CreateWrite /\ m.kind \in {"ungate", "target"}
      BY <2>3, Zenon DEF RInv, ObjectTypes, Admit
    <3>2. m \in TargetWrite \cup UngateWrite
      BY <3>1 DEF LeaseWrite, CreateWrite
    <3>3. PICK n : n = [m EXCEPT !.admitted = TRUE]
      BY Zenon
    <3>4. n.kind # "lease"
      <4>1. CASE m \in TargetWrite
        BY <3>3, <4>1 DEF TargetWrite
      <4>2. CASE m \in UngateWrite
        BY <3>3, <4>2 DEF UngateWrite
      <4> QED BY <3>2, <4>1, <4>2, Zenon
    <3>5. NoNewWrite
      BY <2>3, <3>3, <3>4, Zenon DEF Admit, NoNewWrite
    <3> QED BY <2>1, <3>5, <1>AsideForm, Zenon
  <2> QED BY <2>2, <2>3, Zenon
\* The steps of the service and of other clusters.
<1>FService. ASSUME (\E m \in orphans : ServeOrphan(m)) \/ Rival \/ Tick
             PROVE  Shaped
  <2> USE <1>FService
  <2>1. worker' = worker /\ pods' = pods
    BY Zenon DEF ServeOrphan, Rival, Tick, System, objects
  <2>2. Copies /\ Onward
    BY <2>1, <1>PodsSame, Zenon DEF Copies
  <2> QED BY <2>2, Zenon DEF Shaped, Form
\* A restart.
<1>FReconfigure. ASSUME Reconfigure
                 PROVE  Shaped
  <2> USE <1>FReconfigure
  <2>1. pods' = pods /\ \A x \in Worker : worker'[x] = Idle
    BY Zenon DEF Reconfigure, objects
  <2>2. Copies /\ Onward
    BY <2>1, IdleIs, <1>PodsSame, Zenon DEF Copies
  <2> QED BY <2>2, Zenon DEF Shaped, Form
\* The Jobs.
<1>FJobs. ASSUME NEW j \in Job, JobReconcile(j) \/ JobCreate(j) \/ JobRemoved(j)
          PROVE  Shaped
  <2> USE <1>FJobs
  <2>1. UNCHANGED <<service, berth, orphans, ident>> /\ worker' = worker /\ Onward /\ NoNewWrite
    BY <1>PodsSame, Zenon DEF JobReconcile, JobCreate, JobRemoved, Jobs, System, NoNewWrite
  <2> QED BY <2>1, <1>AsideForm, Zenon
\* Stuttering.
<1>FStutter. ASSUME UNCHANGED vars
             PROVE  Shaped
  <2> USE <1>FStutter
  <2>1. UNCHANGED <<service, berth, orphans, ident>> /\ worker' = worker /\ late' = late /\ pods' = pods
    BY DEF vars, objects
  <2>2. NoNewWrite /\ Onward
    BY <2>1, <1>PodsSame, Zenon DEF NoNewWrite
  <2> QED BY <2>1, <2>2, <1>AsideForm, Zenon
\* The version that follows another is larger.
<1>Later. \A n \in Nat : n + 1 \in Nat /\ n + 1 > n
  OBVIOUS
\* A user's write to the lease that keeps the status.
<1>EditForm. ASSUME RInv, NEW l \in Berth, UserWrites(l), System, l.w = berth.w,
                    l.exists \/ berth.w.phase = ""
             PROVE  Shaped
  <2> USE <1>EditForm
  <2>0. berth \in Berth /\ berth.rv \in Nat
    BY Zenon DEF RInv, ObjectTypes, Berth
  <2>1. PICK n, k : n = berth.rv + 1 /\ k = [l EXCEPT !.rv = n]
    BY Zenon
  <2>2. n \in Nat /\ n > berth.rv
    BY <2>0, <2>1, <1>Later, Zenon
  <2>3. k.exists = l.exists /\ k.rv = n /\ k.w = l.w
    BY <2>1, <2>2, LeaseIs, Zenon
  <2>4. /\ berth' = k /\ berth.exists /\ worker' = worker /\ pods' = pods /\ NoNewWrite
        /\ UNCHANGED <<service, orphans, ident>>
    BY <2>1, Zenon DEF UserWrites, System, NoNewWrite
  <2>5. W' = W /\ Copies /\ Onward
    BY <2>4, <1>PodsSame, Zenon DEF W, Copies
  <2>6. berth'.rv > berth.rv /\ berth'.w = berth.w /\ (berth'.exists \/ berth.w.phase = "")
    BY <2>2, <2>3, <2>4, Zenon
  <2>7. Edits
    BY <2>4, <2>5, <2>6, Zenon DEF Edits
  <2> QED BY <2>5, <2>7, Zenon DEF Shaped, Form
\* Users delete and edit the lease, create, delete and scale its target.
<1>FUser. ASSUME RInv, User
          PROVE  Shaped
  <2> USE <1>FUser
  <2>1. berth \in Berth /\ berth.rv \in Nat /\ berth.valid \in BOOLEAN /\ Sound(berth)
    BY Zenon DEF RInv, ObjectTypes, Berth
  <2>2. ASSUME DeleteLease PROVE Shaped
    <3>1. CASE berth.fin
      <4>1. PICK k : k = [berth EXCEPT !.deleting = TRUE]
        BY Zenon
      <4>2. k \in Berth /\ k.exists = berth.exists /\ k.w = berth.w
        BY <2>1, <4>1, LeaseIs, Zenon
      <4>3. UserWrites(k) /\ System /\ berth.exists
        BY <2>2, <3>1, <4>1, Zenon DEF DeleteLease, UserWrites
      <4> QED BY <4>2, <4>3, <1>EditForm, Zenon
    <3>2. CASE ~berth.fin
      <4>1. PICK k : k = [berth EXCEPT !.exists = FALSE]
        BY Zenon
      <4>2. k \in Berth /\ k.w = berth.w
        BY <2>1, <4>1, LeaseIs, Zenon
      <4>3. UserWrites(k) /\ System
        BY <2>2, <3>2, <4>1, Zenon DEF DeleteLease
      <4>4. berth.w.phase = ""
        BY <2>1, <3>2, Zenon DEF Sound
      <4> QED BY <4>2, <4>3, <4>4, <1>EditForm, Zenon
    <3> QED BY <3>1, <3>2, Zenon
  <2>3. ASSUME EditSpec PROVE Shaped
    <3>1. PICK k : k = [berth EXCEPT !.valid = ~berth.valid]
      BY Zenon
    <3>2. k \in Berth /\ k.exists = berth.exists /\ k.w = berth.w
      <4>1. (~berth.valid) \in BOOLEAN
        OBVIOUS
      <4> QED BY <2>1, <3>1, <4>1, LeaseIs, Zenon
    <3>3. UserWrites(k) /\ System /\ berth.exists
      BY <2>3, <3>1, Zenon DEF EditSpec, UserWrites
    <3> QED BY <3>2, <3>3, <1>EditForm, Zenon
  <2>4. ASSUME DeleteTarget PROVE Shaped
    <3>1. UNCHANGED <<service, berth, orphans, ident>> /\ pods' = pods /\ worker' = worker /\ NoNewWrite
      BY <2>4, Zenon DEF DeleteTarget, System, NoNewWrite
    <3> QED BY <3>1, <1>PodsSame, <1>AsideForm, Zenon
  <2>5. ASSUME NEW a \in BOOLEAN, Scale(a) PROVE Shaped
    <3>1. UNCHANGED <<service, berth, orphans, ident>> /\ pods' = pods /\ worker' = worker
      BY <2>5, Zenon DEF Scale, System, objects
    <3>2. PICK m : m = [kind |-> "target", t |-> [target EXCEPT !.active = a], admitted |-> TRUE]
      BY Zenon
    <3>3. m.kind # "lease"
      BY <3>2
    <3>4. late' = late \cup {m}
      BY <2>5, <3>2, Zenon DEF Scale
    <3>5. NoNewWrite
      BY <3>3, <3>4, Zenon DEF NoNewWrite
    <3> QED BY <3>1, <3>5, <1>PodsSame, <1>AsideForm, Zenon
  <2>6. ASSUME NEW u \in Target \cap Created, CreateTarget(u) PROVE Shaped
    <3>1. PICK n, v : n = berth.rv + 1 /\ v = [NoWorkload EXCEPT !.uid = u]
      BY Zenon
    <3>2. v \in Workload /\ v.phase = "" /\ v.token = 0
      BY <3>1, NothingRecorded, WorkloadIs, Zenon
    <3>3. n \in Nat /\ n > berth.rv
      BY <2>1, <3>1
    <3>4. PICK k : k = [berth EXCEPT !.w = v]
      BY Zenon
    <3>5. k \in Berth /\ k.w = v
      BY <2>1, <3>2, <3>4, LeaseIs, Zenon
    <3>6. PICK b : b = [k EXCEPT !.rv = n]
      BY Zenon
    <3>7. b.w = v /\ b.rv = n
      BY <3>3, <3>5, <3>6, LeaseIs, Zenon
    <3>8. b = [berth EXCEPT !.w = v, !.rv = n]
      BY <3>4, <3>6
    <3>9. berth' = b /\ berth.w.phase = "" /\ berth.exists
      BY <2>6, <3>1, <3>8, Zenon DEF CreateTarget, recordTarget
    <3>10. UNCHANGED <<service, orphans, ident>> /\ pods' = pods /\ worker' = worker
      BY <2>6, Zenon DEF CreateTarget, System
    <3>11. W' = W /\ Copies /\ Onward
      BY <3>10, <1>PodsSame, Zenon DEF W, Copies
    <3>12. PICK m : m = [kind |-> "create", uid |-> u]
      BY Zenon
    <3>13. m.kind # "lease" /\ late' = late \cup {m}
      <4>1. m.kind # "lease"
        BY <3>12
      <4> QED BY <2>6, <3>12, <4>1, Zenon DEF CreateTarget
    <3>14. NoNewWrite
      BY <3>13, Zenon DEF NoNewWrite
    <3>15. berth'.rv > berth.rv /\ berth'.w.phase = "" /\ berth'.w.token = 0
      BY <3>2, <3>3, <3>7, <3>9, Zenon
    <3>16. Edits
      BY <3>9, <3>10, <3>11, <3>14, <3>15, Zenon DEF Edits
    <3> QED BY <3>11, <3>16, Zenon DEF Shaped, Form
  <2> QED BY <2>2, <2>3, <2>4, <2>5, <2>6, Zenon DEF User
\* Kubernetes creates, binds and removes Pods and Jobs.
<1>FKubernetes. ASSUME RInv, Kubernetes
                PROVE  Shaped
  <2> USE <1>FKubernetes
  <2>1. pods \in [Pod -> PodObject]
    BY Zenon DEF RInv, ObjectTypes
  <2>2. ASSUME NEW p \in Pod, NEW from, NEW to \in PodStates, Pods(p, from, to),
               from \notin {"done", "gone"}, to \notin {"none", "creating"}
        PROVE  Shaped
    <3>1. UNCHANGED <<service, berth, orphans, ident>> /\ worker' = worker /\ NoNewWrite
          /\ pods[p].st = from /\ pods' = [pods EXCEPT ![p].st = to]
      BY <2>2, Zenon DEF Pods, System, NoNewWrite
    <3>2. Onward
      BY <2>1, <2>2, <3>1, MovedOnward, Zenon
    <3> QED BY <3>1, <3>2, <1>AsideForm, Zenon
  <2>3. ASSUME NEW p \in Pod, PodCreated(p) \/ PodBind(p) \/ PodFinish(p) \/ PodTerminated(p) PROVE Shaped
    <3>1. /\ {"gated", "bound", "done", "gone"} \subseteq PodStates
          /\ {"creating", "open", "bound", "leaving"} \cap {"done", "gone"} = {}
          /\ {"gated", "bound", "done", "gone"} \cap {"none", "creating"} = {}
      BY DEF PodStates
    <3> QED BY <2>2, <2>3, <3>1, Zenon DEF PodCreated, PodBind, PodFinish, PodTerminated
  <2>4. ASSUME NEW p \in Pod, PodDelete(p) PROVE Shaped
    <3>1. UNCHANGED <<service, berth, orphans, ident>> /\ worker' = worker /\ NoNewWrite /\ pods' = Deleted({p})
      BY <2>4, Zenon DEF PodDelete, System, NoNewWrite
    <3>2. Onward
      BY <2>1, <3>1, DeletedIs, Zenon
    <3> QED BY <3>1, <3>2, <1>AsideForm, Zenon
  <2>5. ASSUME NEW p \in Pod, PodAdmit(p) PROVE Shaped
    <3>1. UNCHANGED <<service, berth, orphans, ident>> /\ worker' = worker /\ NoNewWrite /\ pods[p].st = "none"
          /\ pods' = [pods EXCEPT ![p] = [st |-> "creating", root |-> target.uid]]
      BY <2>5, Zenon DEF PodAdmit, System, NoNewWrite
    <3>2. \A q \in Pod : q # p => pods'[q] = pods[q]
      BY <2>1, <3>1, Zenon
    <3>3. "none" \notin {"done", "gone"} /\ "none" \in {"none", "creating"}
      OBVIOUS
    <3>4. Onward
      BY <3>1, <3>2, <3>3, Zenon DEF Onward, Over, Known
    <3> QED BY <3>1, <3>4, <1>AsideForm, Zenon
  <2>6. ASSUME NEW j \in Job, JobCreate(j) \/ JobRemoved(j) PROVE Shaped
    BY <2>6, <1>FJobs, Zenon
  <2> QED BY <2>3, <2>4, <2>5, <2>6, Zenon DEF Kubernetes
<1>Step. ASSUME RInv, [Next]_vars
         PROVE  Shaped
  <2> USE <1>Step
  <2>1. ASSUME NEW x \in Worker, LeaseStepOf(x) \/ StopStepOf(x) \/ PermitStepOf(x) \/ Fail(x) PROVE Shaped
    BY <2>1, <1>FReconcile, <1>FVerify, <1>FServeAcquire, <1>FAcquireError, <1>FAcquireReturns,
        <1>FActivate, <1>FListPods,
       <1>FStop, <1>FStopTarget, <1>FDrainJobs, <1>FDrainPods, <1>FRelease, <1>FClear, <1>FPermit, <1>FUngate, <1>FPodReconcile, <1>FFail,
       Zenon DEF LeaseStepOf, StopStepOf, PermitStepOf
  <2>2. ASSUME Act PROVE Shaped
    BY <2>1, <2>2, <1>FJobs, <1>FArrive, <1>FAdmit, <1>FService, <1>FUser, <1>FKubernetes,
        <1>FReconfigure, <1>FStutter,
       Zenon DEF Act, Finished
  <2> QED BY <2>2, <1>FAdmit, <1>FStutter, Zenon DEF Next
<1> QED BY <1>Step, Zenon

-----------------------------------------------------------------------------
(* The theorems.                                                           *)

\* At the start nobody holds the lease and nothing is active.
LEMMA OInit ==
  ASSUME Init, Counts
  PROVE  OInv /\ KInv
<1>1. RInv
  BY RInit, Zenon
<1>2. /\ late = {} /\ orphans = {} /\ worker = [x \in Worker |-> Idle] /\ LeaseInit
  BY Zenon DEF Init
<1>3. W = Idle /\ \A x \in Worker : worker[x] = Idle
  BY <1>2 DEF W, Worker
<1>4. berth.w.phase = "" /\ berth.w.token = 0
  <2>1. NoBerth \in Berth /\ NoBerth.w = NoWorkload /\ NoWorkload.phase = "" /\ NoWorkload.token = 0
    BY <1>1, OTypes, Nothing, Zenon DEF NoBerth, NoWorkload
  <2>2. CASE berth = [NoBerth EXCEPT !.exists = TRUE, !.rv = 1]
    BY <2>1, <2>2, Zenon DEF NoBerth
  <2>3. ASSUME NEW u, berth = [NoBerth EXCEPT !.exists = TRUE, !.rv = 1, !.fin = TRUE, !.w.uid = u]
        PROVE  berth.w.phase = "" /\ berth.w.token = 0
    BY <2>1, <2>3, Zenon DEF NoBerth, NoWorkload
  <2> QED BY <2>2, <2>3, Zenon DEF Init
<1>5. token[Lease] = 0 /\ expires[Lease] = 0 /\ clock = 0
  BY <1>2, OperatorAssumption DEF LeaseInit, Unclaimed
<1>6. Bounded
  BY <1>1, <1>5, OTypes DEF Bounded
<1>7. "" # "Active" /\ "" # "Stopping" /\ 0 <= 0 /\ "idle" # "clear" /\ NoBerth.w.token = 0
  <2>1. NoBerth.w.token = 0
    BY Zenon DEF NoBerth, NoWorkload
  <2> QED BY <2>1
<1>8. OInv
  BY <1>2, <1>3, <1>4, <1>6, <1>7, IdleIs, Zenon DEF OInv, Live, Asks, Settled
<1>9. KInv
  BY <1>2, <1>3, <1>4, <1>5, <1>7, IdleIs, Zenon DEF KInv, Issued, Cleans
<1> QED BY <1>8, <1>9, Zenon

\* The lease changes hands only when nobody has it, or it has run out.
LEMMA GrantsTake ==
  ASSUME NEW h, Grants(h) \/ Denies(h), holder'[Lease] # holder[Lease], holder[Lease] # NoHolder
  PROVE  Expired
BY Zenon DEF Grants, Denies, Extend, leaseVars

\* With Pods executing, the present tenure ends only by running out.
LEMMA EndsExpired ==
  ASSUME RInv, OInv, KInv \/ NoLateRelease, Form, NEW p \in Pod, Runnable(p),
         token[Lease] = berth.w.token, holder[Lease] = berth.w.holder, holder'[Lease] # holder[Lease]
  PROVE  Expired
<1>1. /\ berth.exists /\ p \in berth.w.pods /\ berth.w.token > 0 /\ Sound(berth) /\ ~Over(p)
  <2>1. ~Over(p)
    BY DEF Runnable, Over
  <2> QED BY <2>1, Zenon DEF RInv, Registered, Sound
<1>2. holder[Lease] \in Identity /\ holder[Lease] # NoHolder /\ berth.w.phase # ""
  <2>1. ~(0 > 0)
    OBVIOUS
  <2> QED BY <1>1, <2>1, OTypes, Zenon DEF Sound
<1>3. ASSUME NEW x \in Worker, Release(x) PROVE Expired
  <2>1. W.pc = "release" /\ W.pc \in DrainPC
    BY <1>3, Released, Zenon
  <2>2. berth.w = W.l.w
    <3>1. berth.w \in Workload
      BY OTypes, Zenon DEF Berth
    <3>2. berth.w.phase = "Stopping"
      BY <1>1, <1>2, <2>1, <3>1, Zenon DEF OInv, Settled, Workload
    <3> QED BY <1>1, <2>1, <3>2, Zenon DEF OInv, Settled
  <2>3. Over(p)
    <3>1. W.pc \in {"release", "clear"}
      BY <2>1
    <3> QED BY <1>1, <2>2, <3>1, OTypes, Zenon DEF Knows
  <2> QED BY <1>1, <2>3, Zenon
<1>4. ASSUME NEW n \in orphans, ServeOrphan(n) PROVE Expired
  <2>1. CASE n.op = "acquire" /\ (Grants(n.holder) \/ Denies(n.holder))
    BY <1>2, <2>1, GrantsTake, Zenon
  <2>2. CASE n.op = "release" /\ Releases(n.holder, n.token)
    <3>1. Concerns(n)
      BY <2>2, Zenon DEF KInv, NoLateRelease
    <3>2. holder[Lease] = n.holder /\ token[Lease] = n.token
      BY <2>2, Zenon DEF Releases, leaseVars
    <3>3. Unfinished(n)
      BY <1>1, <3>2, Zenon DEF Unfinished
    <3> QED BY <1>1, <3>1, <3>3, Zenon DEF Concerns
  <2> QED BY <1>4, <2>1, <2>2, Zenon DEF ServeOrphan
<1>5. ASSUME NEW x \in Worker, ServeAcquire(x) PROVE Expired
  BY <1>2, <1>5, GrantsTake, Zenon DEF ServeAcquire
<1>6. ASSUME Rival PROVE Expired
  BY <1>2, <1>6, Zenon DEF Rival
<1>7. ASSUME UNCHANGED leaseVars PROVE FALSE
  BY <1>7, Zenon DEF leaseVars
<1>8. ASSUME UNCHANGED service PROVE FALSE
  BY <1>7, <1>8, Zenon DEF service
<1>9. ASSUME Tick PROVE FALSE
  BY <1>7, <1>9, Zenon DEF Tick, Advance
<1>10. ASSUME Aside \/ Proceeds \/ Requests \/ Edits \/ Reconfigure PROVE FALSE
  BY <1>8, <1>10, Zenon DEF Aside, Proceeds, Requests, Edits, Reconfigure
<1>11. ASSUME NEW x \in Worker, NEW l \in Berth, Saves(x, l) PROVE FALSE
  BY <1>8, <1>11, Zenon DEF Saves
<1>12. ASSUME NEW m \in late, Arrive(m) PROVE FALSE
  BY <1>8, <1>12, Zenon DEF Arrive
<1> QED BY <1>3, <1>4, <1>5, <1>6, <1>9, <1>10, <1>11, <1>12, Zenon DEF Form

-----------------------------------------------------------------------------
Sets == INSTANCE FiniteSetTheorems

\* The library's cardinality is this module's.
LEMMA Same ==
  \A S : Cardinality(S) = Sets!Cardinality(S) /\ (IsFiniteSet(S) <=> Sets!IsFiniteSet(S))
BY Zenon DEF Cardinality, IsFiniteSet, Sets!Cardinality, Sets!IsFiniteSet

\* Subsets are no larger, and one more element adds at most one.
LEMMA Counting == Counts
<1> SUFFICES ASSUME NEW n \in Nat
             PROVE  /\ Few({}, n)
                    /\ \A S \in SUBSET Pod : Few(S, n) =>
                         /\ \A T \in SUBSET S : Few(T, n)
                         /\ ~(Cardinality(S) >= n) => \A p \in Pod : Few(S \cup {p}, n)
  BY Zenon DEF Counts
<1>1. Few({}, n)
  BY Same, Sets!FS_EmptySet DEF Few
<1>2. ASSUME NEW S, Few(S, n), NEW T \in SUBSET S PROVE Few(T, n)
  <2>1. IsFiniteSet(T) /\ Cardinality(T) <= Cardinality(S)
    BY <1>2, Same, Sets!FS_Subset, Zenon DEF Few
  <2>2. Cardinality(T) \in Nat /\ Cardinality(S) \in Nat
    BY <1>2, <2>1, Same, Sets!FS_CardinalityType, Zenon DEF Few
  <2> QED BY <1>2, <2>1, <2>2 DEF Few
<1>3. ASSUME NEW S, Few(S, n), ~(Cardinality(S) >= n), NEW p PROVE Few(S \cup {p}, n)
  <2>1. /\ IsFiniteSet(S \cup {p})
        /\ Cardinality(S \cup {p}) \in {Cardinality(S), Cardinality(S) + 1}
    BY <1>3, Same, Sets!FS_AddElement DEF Few
  <2>2. Cardinality(S) \in Nat
    BY <1>3, Same, Sets!FS_CardinalityType, Zenon DEF Few
  <2> QED BY <1>3, <2>1, <2>2 DEF Few
<1> QED BY <1>1, <1>2, <1>3, Zenon

\* Registration is an invariant of the operator.
THEOREM Registration == Spec => []RInv
<1>1. Init => RInv
  BY Counting, RInit, Zenon
<1> QED BY <1>1, RNext, PTL DEF Spec

\* No Pod executes unless its UID is registered in the status (permitPod,
\* workload.go), under the token of an activation whose cleanup is still owed,
\* for all numbers of Pods, edits and faults.
THEOREM RunnableRegistered == Spec => []RunnableIsRegistered
<1>1. ASSUME RInv PROVE RunnableIsRegistered
  <2>1. Sound(berth) /\ \A p \in Pod : Runnable(p) => Registered(p)
    BY <1>1, Zenon DEF RInv
  <2>2. berth.w.pods # {} => berth.w.token > 0 /\ berth.w.phase # ""
    <3>1. ~(0 > 0)
      OBVIOUS
    <3> QED BY <2>1, <3>1, Zenon DEF Sound
  <2>3. Counts /\ MaxPermittedPods \in Nat
    BY <1>1, SetupTypes, Zenon DEF RInv, ObjectTypes
  <2>4. Cardinality(berth.w.pods) <= MaxPermittedPods
    BY <2>1, <2>3, Zenon DEF Sound, Counts, Few
  <2> QED BY <2>1, <2>2, <2>4, Zenon DEF RunnableIsRegistered, Registered
<1> QED BY <1>1, Registration, PTL

\* What the theorems rest on, as one invariant.
Owned == RInv /\ OInv /\ (KInv \/ NoLateRelease)

\* The invariants of a behaviour without abandoned Releases, or without
\* abandoned Acquires.
LEMMA Ownership ==
  Spec /\ ([]NoLateAcquire \/ []NoLateRelease) => []Owned
<1>1. Init => RInv /\ OInv /\ KInv
  BY Counting, OInit, RInit, Zenon
<1>2. RInv /\ OInv /\ NoLateRelease /\ [Next]_vars => RInv' /\ OInv'
  BY RNext, FNext, ONext, Zenon DEF Shaped
<1>3. RInv /\ OInv /\ KInv /\ NoLateAcquire /\ [Next]_vars => RInv' /\ OInv' /\ KInv'
  BY RNext, FNext, ONext, KNext, Zenon DEF Shaped
<1>4. Spec /\ []NoLateRelease => [](RInv /\ OInv)
  BY <1>1, <1>2, PTL DEF Spec
<1>5. Spec /\ []NoLateAcquire => [](RInv /\ OInv /\ KInv)
  BY <1>1, <1>3, PTL DEF Spec
<1> QED BY <1>4, <1>5, PTL DEF Owned

\* While the BerthLease says that Pods may start (activeAt, workload.go), the
\* service has this cluster as the holder under the recorded token and the
\* lease has not run out: for every number of lost replies, late status
\* writes, restarts and users' edits, and every clock offset, as long as
\* abandoned Acquires and abandoned Releases do not both occur.
THEOREM ActiveOwned ==
  Spec /\ ([]NoLateAcquire \/ []NoLateRelease) => []ActiveProvesOwnership
<1>1. ASSUME Owned PROVE ActiveProvesOwnership
  <2> SUFFICES ASSUME activeAt(berth, Now)
               PROVE  /\ holder[Lease] = berth.w.holder /\ token[Lease] = berth.w.token
                      /\ clock < expires[Lease]
    BY Zenon DEF ActiveProvesOwnership
  <2>1. RInv /\ OInv
    BY <1>1, Zenon DEF Owned
  <2>2. PICK d : d = berth.w.deadline
    OBVIOUS
  <2>3. Now < d /\ Backed(berth.w.holder, berth.w.token, d)
    BY <2>1, <2>2, Zenon DEF activeAt, OInv, Live
  <2>4. holder[Lease] = berth.w.holder /\ token[Lease] = berth.w.token /\ d <= expires[Lease] + Offset
    BY <2>3, Zenon DEF Backed
  <2>5. d \in Int /\ clock \in Int /\ expires[Lease] \in Int /\ Offset \in Int
    BY <2>1, <2>2, OTypes, SetupTypes, OperatorAssumption, Zenon DEF Berth, Workload, LeaseTypes
  <2>6. clock < expires[Lease]
    BY <2>3, <2>4, <2>5 DEF Now
  <2> QED BY <2>4, <2>6, Zenon
<1> QED BY <1>1, Ownership, PTL

\* The tenure under which a Pod executes ends by running out, never because
\* this cluster gave the lease back before the Pod had terminated
\* (stopAndRelease, reconciler.go), under the same condition.
THEOREM ReleasedAfterStop ==
  Spec /\ ([]NoLateAcquire \/ []NoLateRelease) => StoppedBeforeRelease
<1> DEFINE A == (\E p \in Pod : Runnable(p)) /\ token[Lease] = berth.w.token
                /\ holder[Lease] = berth.w.holder /\ holder'[Lease] # holder[Lease]
                => Expired
<1>1. Owned /\ [Next]_vars => [A]_vars
  BY FNext, EndsExpired, Zenon DEF Owned, Shaped
<1>2. Spec => [][Next]_vars
  BY PTL DEF Spec
<1> QED BY <1>1, <1>2, Ownership, PTL DEF StoppedBeforeRelease

\* The target that admission recorded is not scaled up while no activation is
\* recorded (stopTarget, workload.go, and Handle, admission.go): a request that was
\* on its way when the target was stopped is refused, or cleanup has not ended.
THEOREM StaysStopped == Spec => StoppedStaysStopped
<1> DEFINE A == target.uid # None /\ target.uid = berth.w.uid /\ target'.uid = target.uid
                /\ ~target.active /\ target'.active
                => berth.exists /\ berth.w.phase # ""
<1>1. RInv /\ TInv /\ [Next]_vars => [A]_vars
  BY RisesActive, Zenon DEF Rises
<1>2. Init => TInv
  <2>1. Init => RInv
    BY Counting, RInit, Zenon
  <2> QED BY <2>1, TInit, Zenon
<1>3. Spec => [][Next]_vars
  BY PTL DEF Spec
<1>4. Spec => Init
  BY PTL DEF Spec
<1>5. Spec => []TInv
  BY <1>2, <1>3, <1>4, Registration, TNext, PTL
<1> QED BY <1>1, <1>3, <1>5, Registration, PTL DEF StoppedStaysStopped

=============================================================================
