---------------------------- MODULE HelperProofs ----------------------------
(***************************************************************************)
(* The sidecar's health marker proves the lease, and a stale one stops     *)
(* counting in time, for any number of Pods and any TTL, heartbeat and     *)
(* client timeout.  Signals stop the workload in time, with the grace they *)
(* promise, for any processes.  The helpers' containers, environment and   *)
(* mounts are what the gate needs, for any Pod and configuration.          *)
(***************************************************************************)
EXTENDS Renewer, SignalEnforcer, Injector, TLAPS

\* Only a call that is waited for is answered; only a Pod that has stopped has
\* asked for a release.
NetInv ==
  \A m \in net :
    /\ m.live => rpc[m.pod] # NoCall
    /\ m.op = "release" => ~m.live /\ phase[m.pod] = "stopped"

\* The service has p as holder, under tok, until u at least.
Owns(p, tok, u) == holder[Lease] = p /\ token[Lease] = tok /\ u <= expires[Lease]

\* What a call in flight proves.
CallInv(p) ==
  LET c == rpc[p]
  IN /\ phase[p] \in {"boot", "down", "stopped"} => c = NoCall
     /\ c # NoCall =>
          /\ c.started <= clock
          /\ c.reply = "granted" =>
               /\ c.started + TTL <= granted[p]
               /\ clock <= c.started + TTL => Owns(p, c.token, c.started + TTL)
          /\ phase[p] = "run" =>
               /\ c.deadline <= c.started + Heartbeat
               /\ c.op = "renew" => held[p] /\ (Confirmed(p) => c.deadline <= expiresAt[p])
               /\ c.op = "acquire" => ~held[p]

\* What the sidecar's own deadline proves.
HeldInv(p) ==
  (phase[p] = "run" /\ held[p] /\ Confirmed(p) /\ clock <= expiresAt[p]) =>
    Owns(p, myToken[p], expiresAt[p])

\* The marker is there only before that deadline, if file writes succeed, ...
MarkInv(p) ==
  (p \notin Faulty /\ phase[p] = "run" /\ marker[p] # Absent) =>
    held[p] /\ Confirmed(p) /\ clock <= expiresAt[p]

\* ... and is always younger than the last grant.
AgeInv(p) ==
  (phase[p] \in {"run", "down"} /\ marker[p] # Absent) =>
    marker[p] + TTL < granted[p] + Heartbeat

PodInv(p) == CallInv(p) /\ HeldInv(p) /\ MarkInv(p) /\ AgeInv(p)

ClockInv == expires[Lease] <= clock + TTL /\ \A p \in Holder : granted[p] <= clock + TTL

IInv == TypeOK /\ NetInv /\ ClockInv /\ \A p \in Holder : PodInv(p)

Message == [pod : Holder, op : {"acquire", "renew", "release"}, token : Nat, live : BOOLEAN]

-----------------------------------------------------------------------------
\* The messages of Abandoned(p) are those of net, the ones of p no longer live.
LEMMA AbandonedSet ==
  ASSUME net \subseteq Message, NEW p \in Holder
  PROVE  /\ Abandoned(p) \subseteq Message
         /\ \A n \in Abandoned(p) : \E m \in net :
              /\ n.pod = m.pod /\ n.op = m.op /\ n.token = m.token
              /\ n.live = (m.live /\ m.pod # p)
<1>1. ASSUME NEW m \in net
      PROVE  LET n == [m EXCEPT !.live = m.live /\ m.pod # p]
             IN n \in Message /\ n.pod = m.pod /\ n.op = m.op /\ n.token = m.token
                /\ n.live = (m.live /\ m.pod # p)
  BY Zenon DEF Message
<1> QED BY <1>1, Zenon DEF Abandoned

\* The initial state meets the invariant.
LEMMA InitInv == Init => IInv
<1> SUFFICES ASSUME Init PROVE IInv
  OBVIOUS
<1> USE RenewerAssumption DEF Init, LeaseInit, Unclaimed
<1>1. TypeOK
  BY DEF TypeOK, Unconfirmed
<1>2. NetInv /\ ClockInv
  BY DEF NetInv, ClockInv
<1>3. \A p \in Holder : PodInv(p)
  BY Zenon DEF PodInv, CallInv, HeldInv, MarkInv, AgeInv
<1> QED BY <1>1, <1>2, <1>3, Zenon DEF IInv

\* A step of one Pod's helper leaves what is known of the others.
LEMMA OtherPods ==
  ASSUME IInv, NEW p \in Holder, NEW q \in Holder, q # p,
         UNCHANGED <<leaseVars, clock, granted>>,
         phase'[q] = phase[q], held'[q] = held[q], myToken'[q] = myToken[q],
         expiresAt'[q] = expiresAt[q], marker'[q] = marker[q], rpc'[q] = rpc[q]
  PROVE  PodInv(q)'
BY DEF IInv, PodInv, CallInv, HeldInv, MarkInv, AgeInv, Owns, Confirmed, leaseVars

\* Between requests the network keeps its invariant ...
LEMMA SendNet ==
  ASSUME IInv, NEW p \in Holder, NEW op \in {"acquire", "renew"}, NEW tok \in Nat,
         NEW d \in Nat, Send(p, op, tok, d), phase' = phase
  PROVE  /\ NetInv' /\ net' \subseteq Message
         /\ rpc' \in [Holder -> Call \cup {NoCall}]
         /\ rpc'[p].op = op /\ rpc'[p].started = clock /\ rpc'[p].deadline = d
         /\ rpc'[p].reply = "none"
         /\ rpc'[p] # NoCall /\ \A q \in Holder : q # p => rpc'[q] = rpc[q]
<1> DEFINE c == [op |-> op, started |-> clock, deadline |-> d, reply |-> "none", token |-> 0]
<1> DEFINE n == [pod |-> p, op |-> op, token |-> tok, live |-> TRUE]
<1>1. clock \in Nat /\ rpc \in [Holder -> Call \cup {NoCall}] /\ net \subseteq Message
  BY RenewerAssumption DEF IInv, TypeOK, Message
<1>2. c \in Call /\ c # NoCall /\ n \in Message
  BY <1>1, Zenon DEF Call, NoCall, Message
<1>3. rpc' = [rpc EXCEPT ![p] = c] /\ net' = net \cup {n}
  BY Zenon DEF Send
<1>4. rpc'[p] = c /\ \A q \in Holder : q # p => rpc'[q] = rpc[q]
  BY <1>1, <1>3, Zenon
<1>5. n.pod = p /\ n.op # "release"
  OBVIOUS
<1> HIDE DEF c, n
<1>6. NetInv'
  BY <1>1, <1>2, <1>3, <1>4, <1>5, Zenon DEF IInv, NetInv, Message
<1>7. net' \subseteq Message /\ rpc' \in [Holder -> Call \cup {NoCall}]
  BY <1>1, <1>2, <1>3, Zenon
<1> QED BY <1>2, <1>4, <1>6, <1>7 DEF c

\* ... and so it does when a call returns.
LEMMA ReturnNet ==
  ASSUME IInv, NEW p \in Holder, Return(p),
         \A q \in Holder : phase[q] = "stopped" => phase'[q] = "stopped"
  PROVE  /\ NetInv' /\ net' \subseteq Message
         /\ rpc' \in [Holder -> Call \cup {NoCall}]
         /\ rpc'[p] = NoCall /\ \A q \in Holder : q # p => rpc'[q] = rpc[q]
<1>1. rpc \in [Holder -> Call \cup {NoCall}] /\ net \subseteq Message
  BY Zenon DEF IInv, TypeOK, Message
<1>2. rpc'[p] = NoCall /\ \A q \in Holder : q # p => rpc'[q] = rpc[q]
  BY <1>1, Zenon DEF Return
<1>3. net' \subseteq Message /\ \A n \in net' : \E m \in net :
              /\ n.pod = m.pod /\ n.op = m.op /\ n.token = m.token
              /\ n.live = (m.live /\ m.pod # p)
  BY <1>1, AbandonedSet, Zenon DEF Return
<1>4. NetInv'
  BY <1>1, <1>2, <1>3 DEF IInv, NetInv, Message
<1> QED BY <1>1, <1>2, <1>3, <1>4, Zenon DEF Return

\* What one Pod's step has to show.
LocalStep(p) ==
  /\ UNCHANGED <<leaseVars, clock, granted>> /\ crashes' \in 0 .. MaxCrashes
  /\ phase' \in [Holder -> {"init", "boot", "run", "down", "stopped"}]
  /\ held' \in [Holder -> BOOLEAN] /\ myToken' \in [Holder -> Nat]
  /\ expiresAt' \in [Holder -> Nat] /\ saved' \in [Holder -> Nat]
  /\ marker' \in [Holder -> Nat \cup {Absent}]
  /\ rpc' \in [Holder -> Call \cup {NoCall}] /\ net' \subseteq Message
  /\ \A q \in Holder : q # p =>
       /\ phase'[q] = phase[q] /\ held'[q] = held[q] /\ myToken'[q] = myToken[q]
       /\ expiresAt'[q] = expiresAt[q] /\ marker'[q] = marker[q] /\ rpc'[q] = rpc[q]

\* A step of one Pod's helper keeps the invariant if it keeps that Pod's part.
LEMMA LocalInv ==
  ASSUME IInv, NEW p \in Holder, LocalStep(p), NetInv', PodInv(p)'
  PROVE  IInv'
<1>1. TypeOK'
  BY Zenon DEF IInv, TypeOK, LocalStep, leaseVars, Message
<1>2. ClockInv'
  BY Zenon DEF IInv, ClockInv, LocalStep, leaseVars
<1>3. \A q \in Holder : PodInv(q)'
  BY OtherPods, Zenon DEF LocalStep
<1> QED BY <1>1, <1>2, <1>3, Zenon DEF IInv

-----------------------------------------------------------------------------
\* The init container's steps, which only matter for the calls they leave.
LEMMA HoldInv ==
  ASSUME IInv, NEW p \in Holder, HoldSend(p) \/ HoldReceive(p) \/ HoldError(p)
  PROVE  IInv'
<1> USE RenewerAssumption
<1>0. phase[p] = "init" /\ clock \in Nat /\ TypeOK /\ PodInv(p)
  BY DEF IInv, TypeOK, HoldSend, HoldReceive, HoldError
<1>1. CASE HoldSend(p)
  <2>1. Send(p, "acquire", 0, clock + ClientTimeout) /\ phase' = phase
        /\ clock + ClientTimeout \in Nat /\ UNCHANGED <<podVars, leaseVars, clock, granted, crashes>>
    BY <1>0, <1>1 DEF HoldSend, podVars, Outside
  <2>2. /\ NetInv' /\ net' \subseteq Message /\ rpc' \in [Holder -> Call \cup {NoCall}]
        /\ rpc'[p].started = clock /\ rpc'[p].reply = "none" /\ rpc'[p] # NoCall
        /\ \A q \in Holder : q # p => rpc'[q] = rpc[q]
    BY <2>1, SendNet, 0 \in Nat, "acquire" \in {"acquire", "renew"}, Zenon
  <2>3. LocalStep(p)
    BY <1>0, <2>1, <2>2, Zenon DEF LocalStep, podVars, TypeOK
  <2>4. PodInv(p)'
    BY <1>0, <2>1, <2>2 DEF PodInv, CallInv, HeldInv, MarkInv, AgeInv, podVars
  <2> QED BY <2>2, <2>3, <2>4, LocalInv, Zenon
<1>2. CASE HoldReceive(p) \/ HoldError(p)
  <2>1. Return(p) /\ UNCHANGED <<leaseVars, clock, granted, crashes, held, myToken, expiresAt>>
    BY <1>2, Zenon DEF HoldReceive, HoldError, Outside, podVars
  <2>2. /\ phase' \in [Holder -> {"init", "boot", "run", "down", "stopped"}]
        /\ saved' \in [Holder -> Nat] /\ marker' \in [Holder -> Nat \cup {Absent}]
        /\ phase'[p] \in {"init", "boot"}
        /\ \A q \in Holder : q # p => phase'[q] = phase[q] /\ marker'[q] = marker[q]
    BY <1>0, <1>2 DEF HoldReceive, HoldError, podVars, TypeOK, Call, SaveToken, MarkHealthy
  <2>3. /\ NetInv' /\ net' \subseteq Message /\ rpc' \in [Holder -> Call \cup {NoCall}]
        /\ rpc'[p] = NoCall /\ \A q \in Holder : q # p => rpc'[q] = rpc[q]
    BY <1>0, <2>1, <2>2, ReturnNet, Zenon
  <2>4. LocalStep(p)
    BY <1>0, <2>1, <2>2, <2>3, Zenon DEF LocalStep, TypeOK
  <2>5. PodInv(p)'
    BY <2>2, <2>3, Zenon DEF PodInv, CallInv, HeldInv, MarkInv, AgeInv
  <2> QED BY <2>3, <2>4, <2>5, LocalInv, Zenon
<1> QED BY <1>1, <1>2, Zenon

\* The sidecar starts with the gate closed, expires on time, and sends.
LEMMA TickInv ==
  ASSUME IInv, NEW p \in Holder, Boot(p) \/ Expire(p) \/ TickHeld(p) \/ TickReacquire(p)
  PROVE  IInv'
<1> USE RenewerAssumption
<1>0. clock \in Nat /\ TypeOK /\ PodInv(p)
  BY DEF IInv, TypeOK
<1>1. CASE Boot(p)
  <2>1. rpc[p] = NoCall
    BY <1>0, <1>1, Zenon DEF Boot, PodInv, CallInv
  <2>2. phase'[p] = "run" /\ marker'[p] = Absent /\ expiresAt'[p] = Unconfirmed /\ rpc'[p] = NoCall
    BY <1>0, <1>1, <2>1, Zenon DEF Boot, TypeOK
  <2>3. PodInv(p)'
    BY <2>2, Zenon DEF PodInv, CallInv, HeldInv, MarkInv, AgeInv, Confirmed
  <2>4. LocalStep(p)
    BY <1>0, <1>1 DEF LocalStep, Boot, TypeOK, Outside, Unconfirmed, Message
  <2>5. NetInv'
    BY <1>1, Zenon DEF IInv, NetInv, Boot, TypeOK
  <2> QED BY <2>3, <2>4, <2>5, LocalInv, Zenon
<1>2. CASE Expire(p)
  <2>1. LocalStep(p) /\ held'[p] = FALSE /\ UNCHANGED <<phase, rpc, net, clock, granted>>
        /\ (marker'[p] = Absent \/ (p \in Faulty /\ marker'[p] = marker[p]))
    BY <1>0, <1>2, Zenon DEF LocalStep, Expire, lose, MarkUnhealthy, TypeOK, Outside, Message
  <2>2. rpc[p] = NoCall
    BY <1>2, Zenon DEF Expire
  <2>3. PodInv(p)'
    BY <1>0, <2>1, <2>2, Zenon DEF PodInv, CallInv, HeldInv, MarkInv, AgeInv
  <2>4. NetInv'
    BY <2>1, Zenon DEF IInv, NetInv
  <2> QED BY <2>1, <2>3, <2>4, LocalInv, Zenon
<1>3. CASE TickHeld(p)
  <2> DEFINE d == CallDeadline(p)
  <2>1. /\ Send(p, "renew", myToken[p], d) /\ held[p] /\ phase[p] = "run"
        /\ UNCHANGED <<phase, held, myToken, expiresAt, saved, marker, leaseVars, clock, granted, crashes>>
    BY <1>3, Zenon DEF TickHeld, podVars, Outside
  <2>2. d \in Nat /\ d <= clock + Heartbeat /\ (Confirmed(p) => d <= expiresAt[p])
    BY <1>0, <2>1 DEF CallDeadline, TypeOK
  <2> HIDE DEF d
  <2>3. myToken[p] \in Nat
    BY <1>0, Zenon DEF TypeOK
  <2>4. /\ NetInv' /\ net' \subseteq Message /\ rpc' \in [Holder -> Call \cup {NoCall}]
        /\ rpc'[p].started = clock /\ rpc'[p].reply = "none" /\ rpc'[p] # NoCall
        /\ rpc'[p].op = "renew" /\ rpc'[p].deadline = d
        /\ \A q \in Holder : q # p => rpc'[q] = rpc[q]
    BY <2>1, <2>2, <2>3, SendNet, "renew" \in {"acquire", "renew"}, Zenon
  <2>5. LocalStep(p)
    BY <1>0, <2>1, <2>4, Zenon DEF LocalStep, TypeOK
  <2>6. PodInv(p)'
    BY <1>0, <2>1, <2>2, <2>4 DEF PodInv, CallInv, HeldInv, MarkInv, AgeInv, Confirmed, Owns, leaseVars
  <2> QED BY <2>4, <2>5, <2>6, LocalInv, Zenon
<1>4. CASE TickReacquire(p)
  <2> DEFINE d == CallDeadline(p)
  <2>1. /\ Send(p, "acquire", 0, d) /\ ~held[p] /\ phase[p] = "run"
        /\ UNCHANGED <<phase, held, myToken, expiresAt, saved, leaseVars, clock, granted, crashes>>
    BY <1>4, Zenon DEF TickReacquire, Outside
  <2>2. d \in Nat /\ d <= clock + Heartbeat
    BY <1>0, <2>1 DEF CallDeadline, TypeOK
  <2> HIDE DEF d
  <2>3. /\ marker' \in [Holder -> Nat \cup {Absent}]
        /\ (marker'[p] = Absent \/ (p \in Faulty /\ marker'[p] = marker[p]))
        /\ \A q \in Holder : q # p => marker'[q] = marker[q]
    BY <1>0, <1>4, Zenon DEF TickReacquire, MarkUnhealthy, TypeOK
  <2>4. /\ NetInv' /\ net' \subseteq Message /\ rpc' \in [Holder -> Call \cup {NoCall}]
        /\ rpc'[p].started = clock /\ rpc'[p].reply = "none" /\ rpc'[p] # NoCall
        /\ rpc'[p].op = "acquire" /\ rpc'[p].deadline = d
        /\ \A q \in Holder : q # p => rpc'[q] = rpc[q]
    BY <2>1, <2>2, SendNet, 0 \in Nat, "acquire" \in {"acquire", "renew"}
  <2>5. LocalStep(p)
    BY <1>0, <2>1, <2>3, <2>4, Zenon DEF LocalStep, TypeOK
  <2>6. PodInv(p)'
    BY <1>0, <2>1, <2>2, <2>3, <2>4 DEF PodInv, CallInv, HeldInv, MarkInv, AgeInv
  <2> QED BY <2>4, <2>5, <2>6, LocalInv, Zenon
<1> QED BY <1>1, <1>2, <1>3, <1>4, Zenon

\* A call of the sidecar returns: a timely grant moves deadline and marker
\* together, anything else leaves or closes the gate.
LEMMA ReceiveInv ==
  ASSUME IInv, NEW p \in Holder,
         RenewReceive(p) \/ RenewError(p) \/ AcquireReceive(p) \/ AcquireError(p)
  PROVE  IInv'
<1> USE RenewerAssumption
<1> DEFINE c == rpc[p]
<1>0. /\ phase[p] = "run" /\ c # NoCall /\ clock \in Nat /\ TypeOK /\ PodInv(p) /\ c \in Call
      /\ Return(p) /\ UNCHANGED <<phase, leaseVars, clock, granted, crashes>>
  BY DEF IInv, TypeOK, RenewReceive, RenewError, AcquireReceive, AcquireError, Waiting,
         Outside, podVars
<1>1. /\ NetInv' /\ net' \subseteq Message /\ rpc' \in [Holder -> Call \cup {NoCall}]
      /\ rpc'[p] = NoCall /\ \A q \in Holder : q # p => rpc'[q] = rpc[q]
  BY <1>0, ReturnNet, Zenon
<1>2. /\ held' \in [Holder -> BOOLEAN] /\ myToken' \in [Holder -> Nat]
      /\ expiresAt' \in [Holder -> Nat] /\ saved' \in [Holder -> Nat]
      /\ marker' \in [Holder -> Nat \cup {Absent}]
      /\ \A q \in Holder : q # p =>
           /\ held'[q] = held[q] /\ myToken'[q] = myToken[q]
           /\ expiresAt'[q] = expiresAt[q] /\ marker'[q] = marker[q]
  <2>0. rpc[p].started + TTL \in Nat /\ rpc[p].token \in Nat
        /\ clock \in Nat \cup {Absent} /\ Absent \in Nat \cup {Absent}
    BY <1>0 DEF Call
  <2>a. /\ held \in [Holder -> BOOLEAN] /\ myToken \in [Holder -> Nat]
        /\ expiresAt \in [Holder -> Nat] /\ saved \in [Holder -> Nat]
        /\ marker \in [Holder -> Nat \cup {Absent}]
    BY <1>0, Zenon DEF TypeOK
  <2>b. MarkHealthy(p) \/ MarkUnhealthy(p) \/ UNCHANGED marker =>
          /\ marker' \in [Holder -> Nat \cup {Absent}]
          /\ \A q \in Holder : q # p => marker'[q] = marker[q]
    BY <2>0, <2>a, Zenon DEF MarkHealthy, MarkUnhealthy
  <2>1. CASE RenewReceive(p)
    <3>1. CASE lose(p) /\ UNCHANGED <<myToken, expiresAt, saved>>
      BY <2>a, <2>b, <3>1, Zenon DEF lose
    <3>2. CASE /\ myToken' = [myToken EXCEPT ![p] = rpc[p].token]
               /\ expiresAt' = [expiresAt EXCEPT ![p] = rpc[p].started + TTL]
               /\ MarkHealthy(p) /\ UNCHANGED <<held, saved>>
      BY <2>0, <2>a, <2>b, <3>2, Zenon
    <3> QED BY <2>1, <3>1, <3>2, Zenon DEF RenewReceive, NewDeadline
  <2>2. CASE RenewError(p)
    BY <1>0, <2>2, Zenon DEF RenewError, lose, MarkUnhealthy, TypeOK
  <2>3. CASE AcquireReceive(p)
    <3>1. CASE UNCHANGED <<held, myToken, expiresAt, saved, marker>>
      BY <2>a, <3>1, Zenon
    <3>2. CASE /\ held' = [held EXCEPT ![p] = TRUE]
               /\ myToken' = [myToken EXCEPT ![p] = rpc[p].token]
               /\ expiresAt' = [expiresAt EXCEPT ![p] = rpc[p].started + TTL]
               /\ SaveToken(p, rpc[p].token) /\ MarkHealthy(p)
      <4>1. saved' \in [Holder -> Nat]
        BY <2>0, <2>a, <3>2, Zenon DEF SaveToken
      <4> QED BY <2>0, <2>a, <2>b, <3>2, <4>1, Zenon
    <3> QED BY <2>3, <3>1, <3>2, Zenon DEF AcquireReceive, NewDeadline
  <2>4. CASE AcquireError(p)
    BY <1>0, <2>4, Zenon DEF AcquireError, podVars, TypeOK
  <2> QED BY <2>1, <2>2, <2>3, <2>4, Zenon
<1>3. LocalStep(p)
  BY <1>0, <1>1, <1>2, Zenon DEF LocalStep, TypeOK
<1>4. CASE held'[p] = FALSE /\ (marker'[p] = Absent \/ (p \in Faulty /\ marker'[p] = marker[p]))
  <2>1. PodInv(p)'
    BY <1>0, <1>1, <1>4, Zenon DEF PodInv, CallInv, HeldInv, MarkInv, AgeInv
  <2> QED BY <1>1, <1>3, <2>1, LocalInv, Zenon
<1>5. CASE UNCHANGED <<held, myToken, expiresAt, marker>>
  <2>1. PodInv(p)'
    BY <1>0, <1>1, <1>5, Zenon DEF PodInv, CallInv, HeldInv, MarkInv, AgeInv, Confirmed, Owns, leaseVars
  <2> QED BY <1>1, <1>3, <2>1, LocalInv, Zenon
<1>6. CASE /\ c.reply = "granted" /\ ~Late(p) /\ held'[p] = TRUE
           /\ myToken'[p] = c.token /\ expiresAt'[p] = c.started + TTL
           /\ (marker'[p] = clock \/ (p \in Faulty /\ marker'[p] = marker[p]))
  <2>1. c.started \in Nat /\ c.deadline \in Nat /\ c.token \in Nat /\ TTL \in Nat /\ Heartbeat \in Nat
    BY <1>0, Zenon DEF Call
  <2>2. clock < c.deadline /\ clock < c.started + TTL /\ c.deadline <= c.started + Heartbeat
        /\ c.started + TTL <= granted[p] /\ Owns(p, c.token, c.started + TTL)
    BY <1>0, <1>6, <2>1 DEF Late, PodInv, CallInv
  <2>3. CallInv(p)' /\ HeldInv(p)'
    BY <1>0, <1>1, <1>6, <2>2, Zenon DEF CallInv, HeldInv, Owns, leaseVars
  <2>4. MarkInv(p)'
    BY <1>0, <1>6, <2>1, <2>2 DEF MarkInv, Confirmed, Unconfirmed
  <2>5. AgeInv(p)'
    <3>1. CASE marker'[p] = clock
      <4>1. clock + TTL < granted[p] + Heartbeat
        BY <1>0, <2>1, <2>2 DEF TypeOK
      <4> QED BY <1>0, <3>1, <4>1, Zenon DEF AgeInv
    <3>2. CASE marker'[p] = marker[p]
      BY <1>0, <3>2, Zenon DEF PodInv, AgeInv
    <3> QED BY <1>6, <3>1, <3>2, Zenon
  <2> QED BY <1>1, <1>3, <2>3, <2>4, <2>5, LocalInv, Zenon DEF PodInv
<1>7. CASE RenewReceive(p)
  <2>1. held[p]
    BY <1>0, <1>7, Zenon DEF RenewReceive, Waiting, PodInv, CallInv
  <2> QED BY <1>0, <1>4, <1>6, <1>7, <2>1, Zenon DEF RenewReceive, lose, MarkUnhealthy,
          MarkHealthy, NewDeadline, TypeOK
<1>8. CASE RenewError(p)
  BY <1>0, <1>4, <1>5, <1>8, Zenon DEF RenewError, lose, MarkUnhealthy, TypeOK
<1>9. CASE AcquireReceive(p)
  BY <1>0, <1>5, <1>6, <1>9, Zenon DEF AcquireReceive, MarkHealthy, NewDeadline, TypeOK
<1>10. CASE AcquireError(p)
  BY <1>5, <1>10, Zenon DEF AcquireError, podVars
<1> QED BY <1>7, <1>8, <1>9, <1>10, Zenon

\* A sidecar dies or is shut down.
LEMMA StopInv ==
  ASSUME IInv, NEW p \in Holder, Crash(p) \/ Shutdown(p)
  PROVE  IInv'
<1> USE RenewerAssumption
<1>0. phase[p] = "run" /\ TypeOK /\ PodInv(p) /\ UNCHANGED <<leaseVars, clock, granted, expiresAt, marker>>
  BY Zenon DEF IInv, Crash, Shutdown, Outside
<1>1. CASE Crash(p)
  <2>1. Return(p) /\ phase' = [phase EXCEPT ![p] = "down"] /\ phase'[p] = "down"
    BY <1>0, <1>1, Zenon DEF Crash, TypeOK
  <2>2. /\ NetInv' /\ net' \subseteq Message /\ rpc' \in [Holder -> Call \cup {NoCall}]
        /\ rpc'[p] = NoCall /\ \A q \in Holder : q # p => rpc'[q] = rpc[q]
    BY <1>0, <2>1, ReturnNet, Zenon DEF TypeOK
  <2>3. LocalStep(p)
    <3>1. crashes' \in 0 .. MaxCrashes
      BY <1>0, <1>1 DEF Crash, TypeOK
    <3> QED BY <1>0, <1>1, <2>1, <2>2, <3>1, Zenon DEF LocalStep, Crash, TypeOK
  <2>4. PodInv(p)'
    BY <1>0, <2>1, <2>2, Zenon DEF PodInv, CallInv, HeldInv, MarkInv, AgeInv
  <2> QED BY <2>2, <2>3, <2>4, LocalInv, Zenon
<1>2. CASE Shutdown(p)
  <2> DEFINE n == [pod |-> p, op |-> "release", token |-> myToken[p], live |-> FALSE]
  <2>1. net \subseteq Message /\ n \in Message
    BY <1>0, Zenon DEF TypeOK, Message
  <2>2. net' = Abandoned(p) \/ net' = Abandoned(p) \cup {n}
    BY <1>2, Zenon DEF Shutdown
  <2>3. /\ Abandoned(p) \subseteq Message
        /\ \A a \in Abandoned(p) : \E m \in net :
              a.pod = m.pod /\ a.op = m.op /\ a.live = (m.live /\ m.pod # p)
    BY <2>1, AbandonedSet
  <2>4. n.pod = p /\ n.live = FALSE
    OBVIOUS
  <2> HIDE DEF n
  <2>5. rpc'[p] = NoCall /\ phase'[p] = "stopped"
        /\ \A q \in Holder : q # p => rpc'[q] = rpc[q] /\ phase'[q] = phase[q]
    BY <1>0, <1>2, Zenon DEF Shutdown, TypeOK
  <2>6. NetInv'
    BY <2>1, <2>2, <2>3, <2>4, <2>5 DEF IInv, NetInv, Message
  <2>7. LocalStep(p)
    BY <1>0, <1>2, <2>1, <2>2, <2>3 DEF LocalStep, Shutdown, Outside, TypeOK
  <2>8. PodInv(p)'
    BY <2>5, Zenon DEF PodInv, CallInv, HeldInv, MarkInv, AgeInv
  <2> QED BY <2>6, <2>7, <2>8, LocalInv, Zenon
<1> QED BY <1>1, <1>2, Zenon

\* A request served moves the lease only in its sender's favour: an unexpired
\* tenure of a Pod that has not stopped survives it.
LEMMA ServiceStep ==
  ASSUME IInv, NEW m \in net, Serve(m)
  PROVE  /\ holder' \in [Key -> Holder \cup {NoHolder}] /\ token' \in [Key -> Nat]
         /\ expires' \in [Key -> Nat] /\ expires'[Lease] <= clock + TTL
         /\ granted' \in [Holder -> Nat]
         /\ \A q \in Holder : granted[q] <= granted'[q] /\ granted'[q] <= clock + TTL
         /\ \A q \in Holder, tok, u \in Nat :
              Owns(q, tok, u) /\ clock <= u /\ phase[q] # "stopped" => Owns(q, tok, u)'
         /\ Grants(m) => /\ holder'[Lease] = m.pod /\ expires'[Lease] = clock + TTL
<1> USE RenewerAssumption
<1>0. /\ clock \in Nat /\ Lease \in Key /\ m \in Message /\ TTL \in Nat
      /\ holder \in [Key -> Holder \cup {NoHolder}] /\ token \in [Key -> Nat]
      /\ expires \in [Key -> Nat] /\ granted \in [Holder -> Nat]
      /\ expires[Lease] <= clock + TTL /\ \A q \in Holder : granted[q] <= clock + TTL
  BY DEF IInv, TypeOK, ClockInv, Message
<1>1. m.pod \in Holder /\ (m.op = "release" => phase[m.pod] = "stopped") /\ clock + TTL \in Nat
  BY <1>0 DEF Message, IInv, NetInv
<1>2. ASSUME Grants(m), granted' = [granted EXCEPT ![m.pod] = clock + TTL] \/ UNCHANGED granted
      PROVE  /\ holder' \in [Key -> Holder \cup {NoHolder}] /\ token' \in [Key -> Nat]
             /\ expires' \in [Key -> Nat] /\ expires'[Lease] = clock + TTL
             /\ holder'[Lease] = m.pod
             /\ \A q \in Holder, tok, u \in Nat :
                  Owns(q, tok, u) /\ clock <= u => Owns(q, tok, u)'
  <2>1. expires' = [expires EXCEPT ![Lease] = clock + TTL]
    BY <1>2, Zenon DEF Grants
  <2>2. expires' \in [Key -> Nat] /\ expires'[Lease] = clock + TTL
    BY <1>0, <1>1, <2>1, Zenon
  <2>3. CASE holder[Lease] = m.pod /\ UNCHANGED <<holder, token>>
    <3>1. \A q \in Holder, tok, u \in Nat : Owns(q, tok, u) => Owns(q, tok, u)'
      BY <1>0, <2>2, <2>3 DEF Owns
    <3> QED BY <1>0, <2>2, <2>3, <3>1, Zenon
  <2>4. CASE /\ holder[Lease] = NoHolder \/ Expired
             /\ holder' = [holder EXCEPT ![Lease] = m.pod]
             /\ token' = [token EXCEPT ![Lease] = token[Lease] + 1]
    <3>1. holder' \in [Key -> Holder \cup {NoHolder}] /\ token' \in [Key -> Nat] /\ holder'[Lease] = m.pod
      BY <1>0, <1>1, <2>4
    <3>2. \A q \in Holder, tok, u \in Nat : ~(Owns(q, tok, u) /\ clock <= u)
      BY <1>0, <2>4 DEF Owns, Expired
    <3> QED BY <2>2, <3>1, <3>2, Zenon
  <2> QED BY <1>2, <2>3, <2>4, Zenon DEF Grants, Extend, Claim
<1>3. CASE Grants(m) /\ granted' = [granted EXCEPT ![m.pod] = clock + TTL]
  <2>1. granted' \in [Holder -> Nat] /\ granted'[m.pod] = clock + TTL
        /\ \A q \in Holder : q # m.pod => granted'[q] = granted[q]
    BY <1>0, <1>1, <1>3, Zenon
  <2>2. \A q \in Holder : granted[q] <= granted'[q] /\ granted'[q] <= clock + TTL
    BY <1>0, <1>1, <2>1
  <2> QED BY <1>0, <1>1, <1>2, <1>3, <2>1, <2>2, Zenon
<1>4. CASE UNCHANGED leaseVars /\ UNCHANGED granted
  BY <1>0, <1>2, <1>4 DEF leaseVars, Owns
<1>5. CASE Releases(m) /\ UNCHANGED granted
  <2>1. CASE UNCHANGED leaseVars
    BY <1>4, <1>5, <2>1, Zenon
  <2>2. CASE /\ holder[Lease] = m.pod /\ expires' = [expires EXCEPT ![Lease] = clock] /\ Vacate(Lease)
    <3>1. holder' \in [Key -> Holder \cup {NoHolder}] /\ token' = token /\ expires' \in [Key -> Nat]
          /\ expires'[Lease] = clock
      BY <1>0, <2>2, Zenon DEF Vacate
    <3>2. ~Grants(m)
      BY <1>5, Zenon DEF Grants, Releases
    <3>3. \A q \in Holder, tok, u \in Nat : Owns(q, tok, u) => phase[q] = "stopped"
      BY <1>1, <1>5, <2>2, Zenon DEF Owns, Releases
    <3> QED BY <1>0, <1>5, <3>1, <3>2, <3>3
  <2> QED BY <1>5, <2>1, <2>2, Zenon DEF Releases
<1> QED BY <1>3, <1>4, <1>5, Zenon DEF Serve, Denies

\* What the service does to the lease costs a Pod that has not stopped nothing
\* of what it could prove: neither by its deadline and its marker ...
LEMMA KeptByService ==
  ASSUME IInv, NEW q \in Holder, clock' = clock, UNCHANGED podVars,
         granted'[q] \in Nat, granted[q] <= granted'[q],
         \A tok, u \in Nat : Owns(q, tok, u) /\ clock <= u /\ phase[q] # "stopped"
                             => Owns(q, tok, u)'
  PROVE  HeldInv(q)' /\ MarkInv(q)' /\ AgeInv(q)'
<1>1. /\ phase'[q] = phase[q] /\ held'[q] = held[q] /\ myToken'[q] = myToken[q]
      /\ expiresAt'[q] = expiresAt[q] /\ marker'[q] = marker[q]
  BY Zenon DEF podVars
<1>2. /\ expiresAt[q] \in Nat /\ myToken[q] \in Nat /\ granted[q] \in Nat
      /\ marker[q] \in Nat \cup {Absent}
  BY Zenon DEF IInv, TypeOK
<1>3. HeldInv(q) /\ MarkInv(q) /\ AgeInv(q)
  BY Zenon DEF IInv, PodInv
<1>4. HeldInv(q)'
  <2> SUFFICES ASSUME phase[q] = "run", held[q], Confirmed(q), clock <= expiresAt[q]
               PROVE  Owns(q, myToken[q], expiresAt[q])'
    BY <1>1, Zenon DEF HeldInv, Confirmed
  <2>1. Owns(q, myToken[q], expiresAt[q])
    BY <1>3, Zenon DEF HeldInv
  <2>2. holder'[Lease] = q /\ token'[Lease] = myToken[q] /\ expiresAt[q] <= expires'[Lease]
    BY <1>2, <2>1, Zenon DEF Owns
  <2> QED BY <1>1, <2>2, Zenon DEF Owns
<1>5. MarkInv(q)'
  BY <1>1, <1>3, Zenon DEF MarkInv, Confirmed
<1>6. AgeInv(q)'
  <2> SUFFICES ASSUME phase[q] \in {"run", "down"}, marker[q] # Absent
               PROVE  marker[q] + TTL < granted'[q] + Heartbeat
    BY <1>1, Zenon DEF AgeInv
  <2>1. marker[q] + TTL < granted[q] + Heartbeat
    BY <1>3, Zenon DEF AgeInv
  <2> QED BY <1>2, <2>1, RenewerAssumption
<1> QED BY <1>4, <1>5, <1>6, Zenon

\* ... nor by a call of its own that is not answered by this step.
LEMMA CallKeptByService ==
  ASSUME IInv, NEW q \in Holder, clock' = clock, UNCHANGED podVars, rpc'[q] = rpc[q],
         granted'[q] \in Nat, granted[q] <= granted'[q],
         \A tok, u \in Nat : Owns(q, tok, u) /\ clock <= u /\ phase[q] # "stopped"
                             => Owns(q, tok, u)'
  PROVE  CallInv(q)'
<1>1. phase'[q] = phase[q] /\ held'[q] = held[q] /\ expiresAt'[q] = expiresAt[q]
  BY Zenon DEF podVars
<1>2. CallInv(q) /\ rpc[q] \in Call \cup {NoCall} /\ granted[q] \in Nat
  BY Zenon DEF IInv, PodInv, TypeOK
<1>3. CASE rpc[q] = NoCall
  BY <1>3, Zenon DEF CallInv
<1>4. CASE rpc[q] \in Call /\ rpc[q] # NoCall
  <2>1. rpc[q].started \in Nat /\ rpc[q].token \in Nat /\ rpc[q].started + TTL \in Nat
    BY <1>4, RenewerAssumption DEF Call
  <2>2. phase[q] # "stopped"
    BY <1>2, <1>4, Zenon DEF CallInv
  <2>3. ASSUME rpc[q].reply = "granted"
        PROVE  /\ rpc[q].started + TTL <= granted'[q]
               /\ clock <= rpc[q].started + TTL =>
                    /\ holder'[Lease] = q /\ token'[Lease] = rpc[q].token
                    /\ rpc[q].started + TTL <= expires'[Lease]
    <3>1. rpc[q].started + TTL <= granted[q]
      BY <1>2, <1>4, <2>3, Zenon DEF CallInv
    <3>2. clock <= rpc[q].started + TTL => Owns(q, rpc[q].token, rpc[q].started + TTL)
      BY <1>2, <1>4, <2>3, Zenon DEF CallInv
    <3>3. clock <= rpc[q].started + TTL => Owns(q, rpc[q].token, rpc[q].started + TTL)'
      BY <2>1, <2>2, <3>2, Zenon
    <3>4. rpc[q].started + TTL <= granted'[q]
      BY <1>2, <2>1, <3>1
    <3> QED BY <3>3, <3>4, Zenon DEF Owns
  <2> QED BY <1>1, <1>2, <1>4, <2>3, Zenon DEF CallInv, Confirmed, Owns
<1> QED BY <1>2, <1>3, <1>4, Zenon

\* The service answers a request, or the network loses it.
LEMMA ServeInv ==
  ASSUME IInv, NEW m \in net, Serve(m) \/ Lose(m)
  PROVE  IInv'
<1> USE RenewerAssumption
<1>0. /\ clock \in Nat /\ Lease \in Key /\ m \in Message /\ net \subseteq Message /\ TTL \in Nat
      /\ TypeOK /\ rpc \in [Holder -> Call \cup {NoCall}] /\ m.pod \in Holder
      /\ (m.live => rpc[m.pod] # NoCall)
  BY DEF IInv, TypeOK, NetInv, Message
<1>1. net' \subseteq net /\ clock' = clock /\ UNCHANGED <<podVars, crashes>>
  BY Zenon DEF Serve, Lose
<1>2. CASE Lose(m)
  <2>1. UNCHANGED <<leaseVars, clock, podVars, rpc, crashes, granted>>
    BY <1>2, Zenon DEF Lose
  <2>2. TypeOK' /\ NetInv' /\ ClockInv'
    BY <1>0, <1>1, <2>1, Zenon DEF IInv, TypeOK, NetInv, ClockInv, podVars, leaseVars
  <2>3. ASSUME NEW q \in Holder PROVE PodInv(q)'
    BY <2>1, Zenon DEF IInv, PodInv, CallInv, HeldInv, MarkInv, AgeInv, Owns, Confirmed,
        leaseVars, podVars
  <2> QED BY <2>2, <2>3, Zenon DEF IInv
<1>3. CASE Serve(m)
  <2>1. /\ holder' \in [Key -> Holder \cup {NoHolder}] /\ token' \in [Key -> Nat]
        /\ expires' \in [Key -> Nat] /\ expires'[Lease] <= clock + TTL
        /\ granted' \in [Holder -> Nat]
        /\ \A q \in Holder : granted[q] <= granted'[q] /\ granted'[q] <= clock + TTL
        /\ \A q \in Holder, tok, u \in Nat :
              Owns(q, tok, u) /\ clock <= u /\ phase[q] # "stopped" => Owns(q, tok, u)'
        /\ Grants(m) => /\ holder'[Lease] = m.pod /\ expires'[Lease] = clock + TTL
    BY <1>3, ServiceStep, Zenon
  <2>2. CASE rpc' = rpc
    <3>1. TypeOK' /\ NetInv' /\ ClockInv'
      BY <1>0, <1>1, <2>1, <2>2, Zenon DEF IInv, TypeOK, NetInv, ClockInv, podVars
    <3>2. ASSUME NEW q \in Holder PROVE PodInv(q)'
      <4>1. rpc'[q] = rpc[q] /\ granted'[q] \in Nat /\ granted[q] <= granted'[q]
            /\ clock' = clock /\ UNCHANGED podVars
        BY <1>1, <2>1, <2>2, Zenon
      <4> QED BY <2>1, <4>1, KeptByService, CallKeptByService, Zenon DEF PodInv
    <3> QED BY <3>1, <3>2, Zenon DEF IInv
  <2>3. CASE /\ m.live /\ rpc[m.pod] \in Call
             /\ \E res \in {"granted", "denied"} :
                  /\ rpc' = [rpc EXCEPT ![m.pod].reply = res, ![m.pod].token = token'[Lease]]
                  /\ res = "granted" => Grants(m) /\ granted'[m.pod] = clock + TTL
    <3> DEFINE c == rpc'[m.pod]
    <3>1. PICK res \in {"granted", "denied"} :
            /\ rpc' = [rpc EXCEPT ![m.pod].reply = res, ![m.pod].token = token'[Lease]]
            /\ res = "granted" => Grants(m) /\ granted'[m.pod] = clock + TTL
      BY <2>3, Zenon
    <3>2. token'[Lease] \in Nat
      BY <1>0, <2>1, Zenon
    <3>3. /\ c \in Call /\ c # NoCall /\ c.op = rpc[m.pod].op /\ c.started = rpc[m.pod].started
          /\ c.deadline = rpc[m.pod].deadline /\ c.reply = res /\ c.token = token'[Lease]
      BY <1>0, <2>3, <3>1, <3>2, Zenon DEF Call, NoCall
    <3>4. rpc' \in [Holder -> Call \cup {NoCall}] /\ \A q \in Holder : q # m.pod => rpc'[q] = rpc[q]
      BY <1>0, <2>3, <3>1, <3>3, Zenon
    <3>5. TypeOK' /\ NetInv' /\ ClockInv'
      <4>1. TypeOK' /\ ClockInv'
        BY <1>0, <1>1, <2>1, <3>4, Zenon DEF IInv, TypeOK, ClockInv, podVars
      <4>2. NetInv'
        BY <1>0, <1>1, <3>3, <3>4, Zenon DEF IInv, NetInv, podVars, Message
      <4> QED BY <4>1, <4>2, Zenon
    <3>6. ASSUME NEW q \in Holder PROVE PodInv(q)'
      <4>0. /\ clock \in Nat /\ rpc[q] \in Call \cup {NoCall} /\ expiresAt[q] \in Nat
            /\ myToken[q] \in Nat /\ granted[q] \in Nat /\ granted'[q] \in Nat
            /\ granted[q] <= granted'[q] /\ PodInv(q) /\ marker[q] \in Nat \cup {Absent}
        BY <1>0, <2>1, Zenon DEF TypeOK, IInv
      <4>1. CallInv(q)'
        <5>1. CASE q # m.pod
          <6>1. rpc'[q] = rpc[q] /\ clock' = clock /\ UNCHANGED podVars
            BY <1>1, <3>4, <5>1, Zenon
          <6> QED BY <2>1, <4>0, <6>1, CallKeptByService, Zenon
        <5>2. CASE q = m.pod
          <6>1. rpc[q] # NoCall /\ rpc[q].started \in Nat /\ rpc[q].started <= clock
            BY <1>0, <2>3, <4>0, <5>2, Zenon DEF Call, PodInv, CallInv
          <6>2. rpc'[q].reply = "granted" =>
                  /\ holder'[Lease] = q /\ token'[Lease] = rpc'[q].token
                  /\ expires'[Lease] = clock + TTL /\ granted'[q] = clock + TTL
            BY <2>1, <3>1, <3>3, <5>2, Zenon
          <6>3. rpc'[q].reply = "granted" =>
                  /\ holder'[Lease] = q /\ token'[Lease] = rpc'[q].token
                  /\ rpc'[q].started + TTL <= expires'[Lease]
                  /\ rpc'[q].started + TTL <= granted'[q]
            BY <1>0, <3>3, <5>2, <6>1, <6>2, SMTT(60)
          <6>4. /\ phase[q] \notin {"boot", "down", "stopped"}
                /\ phase[q] = "run" =>
                     /\ rpc[q].deadline <= rpc[q].started + Heartbeat
                     /\ rpc[q].op = "renew" => held[q] /\ (Confirmed(q) => rpc[q].deadline <= expiresAt[q])
                     /\ rpc[q].op = "acquire" => ~held[q]
            BY <4>0, <6>1, Zenon DEF PodInv, CallInv
          <6>5. rpc'[q].op = rpc[q].op /\ rpc'[q].started = rpc[q].started
                /\ rpc'[q].deadline = rpc[q].deadline
            BY <3>3, <5>2, Zenon
          <6> QED BY <1>1, <6>1, <6>3, <6>4, <6>5, Zenon DEF CallInv, podVars, Confirmed, Owns
        <5> QED BY <5>1, <5>2, Zenon
      <4>2. HeldInv(q)' /\ MarkInv(q)' /\ AgeInv(q)'
        BY <1>1, <2>1, <4>0, KeptByService, Zenon
      <4> QED BY <4>1, <4>2, Zenon DEF PodInv
    <3> QED BY <3>5, <3>6, Zenon DEF IInv
  <2>4. granted \in [Holder -> Nat] /\ (m.live => rpc[m.pod] \in Call)
    BY <1>0, Zenon DEF TypeOK
  <2> QED BY <1>0, <1>3, <2>2, <2>3, <2>4, Zenon DEF Serve, Answer
<1> QED BY <1>2, <1>3, Zenon

\* Time passes: a helper that is up has acted on every deadline reached.
LEMMA ClockStep ==
  ASSUME IInv, Tick
  PROVE  IInv'
<1> USE RenewerAssumption
<1>0. /\ clock \in Nat /\ clock' = clock + 1 /\ clock' \in 0 .. MaxClock
      /\ UNCHANGED <<leaseVars, podVars, rpc, net, crashes, granted>>
  BY DEF IInv, TypeOK, Tick, Advance
<1>1. TypeOK' /\ NetInv'
  BY <1>0, Zenon DEF IInv, TypeOK, NetInv, leaseVars, podVars
<1>2. ClockInv'
  BY <1>0 DEF IInv, TypeOK, ClockInv, leaseVars
<1>3. ASSUME NEW p \in Holder PROVE PodInv(p)'
  <2>0. /\ PodInv(p) /\ Punctual(p) /\ rpc[p] \in Call \cup {NoCall} /\ expiresAt[p] \in Nat
        /\ rpc[p] \in Call => /\ rpc[p].started \in Nat /\ rpc[p].deadline \in Nat
                              /\ rpc[p].op \in {"acquire", "renew"}
    BY Zenon DEF IInv, TypeOK, Tick, Call
  <2>a. /\ phase' = phase /\ held' = held /\ myToken' = myToken /\ expiresAt' = expiresAt
        /\ marker' = marker /\ rpc' = rpc /\ granted' = granted
        /\ holder' = holder /\ token' = token /\ expires' = expires
    BY <1>0, Zenon DEF leaseVars, podVars
  <2>1. CallInv(p)'
    <3>1. CallInv(p)
      BY <2>0, Zenon DEF PodInv
    <3>2. CASE rpc[p] = NoCall
      BY <2>a, <3>2, Zenon DEF CallInv
    <3>3. CASE rpc[p] \in Call
      <4>1. rpc[p].started \in Nat /\ rpc[p].started + TTL \in Nat
        BY <2>0, <3>3
      <4>2. clock + 1 <= rpc[p].started + TTL => clock <= rpc[p].started + TTL
        BY <1>0, <4>1
      <4>3. rpc[p].started <= clock => rpc[p].started <= clock + 1
        BY <1>0, <4>1
      <4> QED BY <1>0, <2>a, <3>1, <3>3, <4>2, <4>3, Zenon DEF CallInv, Owns, Confirmed
    <3> QED BY <2>0, <3>2, <3>3, Zenon
  <2>2. HeldInv(p)' /\ AgeInv(p)'
    <3>1. HeldInv(p) /\ AgeInv(p)
      BY <2>0, Zenon DEF PodInv
    <3>2. clock + 1 <= expiresAt[p] => clock <= expiresAt[p]
      BY <1>0, <2>0
    <3>3. HeldInv(p)'
      BY <1>0, <2>a, <3>1, <3>2, Zenon DEF HeldInv, Owns, Confirmed
    <3>4. AgeInv(p)'
      BY <2>a, <3>1, Zenon DEF AgeInv
    <3> QED BY <3>3, <3>4, Zenon
  <2>3. MarkInv(p)'
    <3> SUFFICES ASSUME p \notin Faulty, phase[p] = "run", marker[p] # Absent
                 PROVE  held[p] /\ Confirmed(p) /\ clock + 1 <= expiresAt[p]
      BY <1>0, Zenon DEF MarkInv, Confirmed, podVars
    <3>1. held[p] /\ Confirmed(p) /\ clock <= expiresAt[p]
      BY <2>0, Zenon DEF PodInv, MarkInv
    <3>2. CASE rpc[p] = NoCall
      BY <1>0, <2>0, <3>1, <3>2 DEF Punctual, PastDeadline
    <3>3. CASE rpc[p] # NoCall
      <4>1. clock < rpc[p].deadline /\ rpc[p].deadline <= expiresAt[p]
        BY <2>0, <3>1, <3>3, Zenon DEF Punctual, PodInv, CallInv
      <4> QED BY <1>0, <2>0, <3>1, <3>3, <4>1
    <3> QED BY <3>2, <3>3, Zenon
  <2> QED BY <2>1, <2>2, <2>3, Zenon DEF PodInv
<1> QED BY <1>1, <1>2, <1>3, Zenon DEF IInv

\* Every step keeps the invariant.
LEMMA NextInv == IInv /\ [Next]_vars => IInv'
<1> SUFFICES ASSUME IInv, [Next]_vars PROVE IInv'
  OBVIOUS
<1>1. CASE UNCHANGED vars
  BY <1>1 DEF vars, leaseVars, podVars, IInv, TypeOK, NetInv, ClockInv, PodInv, CallInv, HeldInv,
              MarkInv, AgeInv, Owns, Confirmed
<1>2. ASSUME NEW p \in Holder, Helper(p) \/ Crash(p) \/ Shutdown(p)
      PROVE  IInv'
  BY <1>2, HoldInv, TickInv, ReceiveInv, StopInv, Zenon DEF Helper
<1>3. ASSUME NEW m \in net, Serve(m) \/ Lose(m)
      PROVE  IInv'
  BY <1>3, ServeInv, Zenon
<1> QED BY <1>1, <1>2, <1>3, ClockStep, Zenon DEF Next, AllStopped

\* IInv holds in every reachable state, for any number of competing Pods.
THEOREM Invariance == Spec => []IInv
BY InitInv, NextInv, PTL DEF Spec

\* The helpers', network's and service's state stays well-formed.
THEOREM TypeCorrect == Spec => []TypeOK
<1>1. IInv => TypeOK
  BY Zenon DEF IInv
<1> QED BY <1>1, Invariance, PTL

\* Where the sidecar can write its state volume, the health marker it keeps
\* proves the lease, whatever is lost, delayed or restarted.
THEOREM MarkerSound == Spec => []MarkerProvesLease
<1>1. IInv => MarkerProvesLease
  <2> SUFFICES ASSUME IInv, NEW p \in Holder \ Faulty, phase[p] = "run", marker[p] # Absent
               PROVE  holder[Lease] = p /\ token[Lease] = myToken[p] /\ clock <= expires[Lease]
    BY Zenon DEF MarkerProvesLease
  <2>1. PodInv(p) /\ clock \in Nat /\ expiresAt[p] \in Nat /\ expires[Lease] \in Nat
    BY RenewerAssumption DEF IInv, TypeOK
  <2>2. held[p] /\ Confirmed(p) /\ clock <= expiresAt[p]
    BY <2>1, Zenon DEF PodInv, MarkInv
  <2>3. Owns(p, myToken[p], expiresAt[p])
    BY <2>1, <2>2, Zenon DEF PodInv, HeldInv
  <2> QED BY <2>1, <2>2, <2>3, SMTT(60) DEF Owns
<1> QED BY <1>1, Invariance, PTL

\* With failing writes and dead sidecars too, the probe stops passing less than
\* one heartbeat after the last lease granted to the Pod has ended.
THEOREM Backstop == Spec => []FreshnessBackstop
<1>1. IInv => FreshnessBackstop
  <2> SUFFICES ASSUME IInv, NEW p \in Holder, phase[p] \in {"run", "down"}, Fresh(p)
               PROVE  clock < granted[p] + Heartbeat
    BY Zenon DEF FreshnessBackstop
  <2>1. AgeInv(p) /\ clock \in Nat /\ granted[p] \in Nat /\ marker[p] \in Nat \cup {Absent}
        /\ TTL \in Nat /\ Heartbeat \in Nat
    BY RenewerAssumption DEF IInv, TypeOK, PodInv
  <2>2. marker[p] \in Nat /\ marker[p] + TTL < granted[p] + Heartbeat /\ clock - marker[p] <= TTL
    BY <2>1, Zenon DEF AgeInv, Fresh
  <2>3. \A c, m, t, g, h \in Nat : m + t < g + h /\ c - m <= t => c < g + h
    OBVIOUS
  <2> QED BY <2>1, <2>2, <2>3, Zenon
<1> QED BY <1>1, Invariance, PTL

-----------------------------------------------------------------------------
(* Enforcement by signals: the sidecar's signalEnforcer over the processes *)
(* of its Pod, with its own view of the lease and of the marker.           *)


Process == [kind : {"target", "other"}, stubborn : BOOLEAN, guarded : BOOLEAN,
            termed : Nat \cup {Never}, born : Nat, heir : BOOLEAN]

Types ==
  /\ Beat \in Nat \ {0} /\ Grace \in Nat /\ Never \notin Nat
  /\ proc \in [DOMAIN proc -> Process]
  /\ termedAt \in [DOMAIN termedAt -> Nat]
  /\ leased \in BOOLEAN /\ now \in Nat /\ nextTick \in Nat /\ lost \in Nat /\ calm \in Nat

\* A heartbeat is due within its interval, and the record of signals is of
\* this loss of the lease.
Times ==
  /\ now <= nextTick /\ nextTick <= now + Beat /\ lost <= now /\ calm <= now
  /\ leased => DOMAIN termedAt = {}
  /\ \A pid \in DOMAIN termedAt : lost <= termedAt[pid] /\ termedAt[pid] <= now

Reachable(pid) == proc[pid].kind = "target" /\ ~proc[pid].guarded

\* What the record says of a process that did not inherit its id is true of it.
Warned(pid) ==
  /\ proc[pid].kind = "other" => proc[pid].termed = Never
  /\ Reachable(pid) /\ ~proc[pid].heir /\ pid \in DOMAIN termedAt => proc[pid].termed = termedAt[pid]

\* The lease was lost, something failed, or the process began, at u or later.
Since(pid, u) == \E t \in {lost, calm, proc[pid].born} : u <= t

\* The next heartbeat comes in time to signal the process, or to kill it.
Due(pid) ==
  ~leased /\ Reachable(pid) =>
    /\ pid \notin DOMAIN termedAt => Since(pid, nextTick - Beat)
    /\ pid \in DOMAIN termedAt =>
         /\ Since(pid, termedAt[pid] - Beat)
         /\ Since(pid, nextTick - Beat) \/ nextTick <= termedAt[pid] + Grace + Beat

SInv ==
  /\ Types /\ Times
  /\ \A pid \in DOMAIN proc : proc[pid].born <= now /\ Warned(pid) /\ Due(pid)

\* Hold's signals: what is left of the processes and what is recorded of them.
LEMMA SignalsIs ==
  ASSUME Types, Signals
  PROVE  /\ proc' \in [DOMAIN proc' -> Process] /\ termedAt' \in [DOMAIN termedAt' -> Nat]
         /\ \A pid \in DOMAIN termedAt' :
              \/ pid \in DOMAIN termedAt /\ termedAt'[pid] = termedAt[pid]
              \/ pid \notin DOMAIN termedAt /\ termedAt'[pid] = now
         /\ \A pid \in DOMAIN proc' :
              /\ pid \in DOMAIN proc
              /\ proc'[pid].kind = proc[pid].kind /\ proc'[pid].guarded = proc[pid].guarded
              /\ proc'[pid].born = proc[pid].born /\ proc'[pid].heir = proc[pid].heir
              /\ Reachable(pid) =>
                   \/ /\ pid \notin DOMAIN termedAt /\ pid \in DOMAIN termedAt' /\ proc'[pid].termed = now
                      /\ termedAt'[pid] = now
                   \/ /\ pid \in DOMAIN termedAt /\ pid \in DOMAIN termedAt' /\ proc'[pid].termed = proc[pid].termed
                      /\ termedAt'[pid] = termedAt[pid]
                      /\ ~(now - termedAt[pid] >= Grace)
              /\ ~Reachable(pid) => proc'[pid].termed = proc[pid].termed
<1>1. Terms \subseteq DOMAIN proc /\ Delivered(Kills) \subseteq DOMAIN proc
  BY DEF Terms, Kills, Delivered, workloadPIDs
<1>2. DOMAIN proc' = DOMAIN proc \ Delivered(Kills) /\ DOMAIN termedAt' = DOMAIN termedAt \cup Terms
  BY DEF Signals
<1>3. ASSUME NEW pid \in DOMAIN termedAt'
      PROVE  /\ termedAt'[pid] \in Nat
             /\ \/ pid \in DOMAIN termedAt /\ termedAt'[pid] = termedAt[pid]
                \/ pid \notin DOMAIN termedAt /\ termedAt'[pid] = now
  <2>1. termedAt'[pid] = IF pid \in Terms THEN now ELSE termedAt[pid]
    BY <1>2, <1>3 DEF Signals
  <2>2. pid \in Terms => pid \notin DOMAIN termedAt
    BY DEF Terms
  <2>3. now \in Nat /\ (pid \in DOMAIN termedAt => termedAt[pid] \in Nat)
    BY DEF Types
  <2> QED BY <1>2, <2>1, <2>2, <2>3
<1>4. ASSUME NEW pid \in DOMAIN proc'
      PROVE  /\ pid \in DOMAIN proc /\ proc'[pid] \in Process
             /\ proc'[pid].kind = proc[pid].kind /\ proc'[pid].guarded = proc[pid].guarded
             /\ proc'[pid].born = proc[pid].born /\ proc'[pid].heir = proc[pid].heir
             /\ pid \in Delivered(Terms) => proc'[pid].termed = now
             /\ pid \notin Delivered(Terms) => proc'[pid].termed = proc[pid].termed
  <2>1. pid \in DOMAIN proc /\ proc[pid] \in Process /\ now \in Nat
    BY <1>2, <1>4 DEF Types
  <2>2. proc'[pid] = IF pid \in Delivered(Terms) THEN [proc[pid] EXCEPT !.termed = now] ELSE proc[pid]
    BY <1>2, <1>4 DEF Signals
  <2> QED BY <2>1, <2>2 DEF Process
<1>5. ASSUME NEW pid \in DOMAIN proc', Reachable(pid), pid \notin DOMAIN termedAt
      PROVE  /\ pid \in DOMAIN termedAt' /\ proc'[pid].termed = now /\ termedAt'[pid] = now
  <2>1. pid \in Terms /\ pid \in Delivered(Terms)
    BY <1>4, <1>5 DEF Terms, Delivered, workloadPIDs, Reachable
  <2> QED BY <1>2, <1>3, <1>4, <1>5, <2>1
<1>6. ASSUME NEW pid \in DOMAIN proc', Reachable(pid), pid \in DOMAIN termedAt
      PROVE  /\ pid \in DOMAIN termedAt' /\ proc'[pid].termed = proc[pid].termed
             /\ termedAt'[pid] = termedAt[pid] /\ ~(now - termedAt[pid] >= Grace)
  <2>1. pid \notin Terms /\ pid \notin Delivered(Terms)
    BY <1>6 DEF Terms, Delivered
  <2>2. pid \in Kills => pid \in Delivered(Kills)
    BY <1>6 DEF Delivered, Reachable
  <2>3. ~(now - termedAt[pid] >= Grace)
    BY <1>2, <1>4, <1>6, <2>1, <2>2 DEF Kills, workloadPIDs, Reachable
  <2> QED BY <1>2, <1>3, <1>4, <1>6, <2>1, <2>3
<1>7. ASSUME NEW pid \in DOMAIN proc', ~Reachable(pid) PROVE proc'[pid].termed = proc[pid].termed
  BY <1>4, <1>7 DEF Delivered, Terms, workloadPIDs, Reachable
<1>8. proc' \in [DOMAIN proc' -> Process] /\ termedAt' \in [DOMAIN termedAt' -> Nat]
  BY <1>3, <1>4 DEF Signals
<1> QED BY <1>3, <1>4, <1>5, <1>6, <1>7, <1>8, Zenon
\* A process whose time begins now is signalled or killed in time.
LEMMA DueNow ==
  ASSUME Types', Times', NEW pid, now' \in {lost', calm', proc'[pid].born}
  PROVE  Due(pid)'
<1>1. /\ nextTick' - Beat <= now'
      /\ pid \in DOMAIN termedAt' => termedAt'[pid] - Beat <= now'
  BY DEF Types, Times
<1> QED BY <1>1 DEF Due, Since

\* Hold's marker and signals, when the lease is lost and at every heartbeat
\* without it.
LEMMA HoldKeeps ==
  ASSUME SInv, Hold, now' = now, leased' = FALSE,
         \/ leased /\ lost' = now /\ nextTick' = nextTick
         \/ ~leased /\ lost' = lost /\ now = nextTick /\ nextTick' = now + Beat
  PROVE  SInv'
<1>1. /\ Types /\ Times /\ calm' \in {calm, now}
      /\ \/ Signals
         \/ UNCHANGED <<proc, termedAt>> /\ calm' = now
  BY DEF SInv, Hold, Fault, faultVars
<1>2. Types'
  <2>1. proc' \in [DOMAIN proc' -> Process] /\ termedAt' \in [DOMAIN termedAt' -> Nat]
    BY <1>1, SignalsIs DEF Types
  <2>2. nextTick' \in Nat /\ lost' \in Nat /\ calm' \in Nat /\ now' \in Nat
    BY <1>1 DEF Types
  <2> QED BY <1>1, <2>1, <2>2 DEF Types
<1>3. Times'
  <2>1. now' <= nextTick' /\ nextTick' <= now' + Beat /\ lost' <= now' /\ calm' <= now'
    BY <1>1 DEF Types, Times
  <2>2. ASSUME NEW pid \in DOMAIN termedAt' PROVE lost' <= termedAt'[pid] /\ termedAt'[pid] <= now'
    <3>1. \/ pid \in DOMAIN termedAt /\ termedAt'[pid] = termedAt[pid]
          \/ termedAt'[pid] = now
      BY <1>1, <2>2, SignalsIs
    <3>2. leased => pid \notin DOMAIN termedAt
      BY <1>1 DEF Times
    <3> QED BY <1>1, <3>1, <3>2 DEF Times, Types
  <2> QED BY <2>1, <2>2 DEF Times
<1>4. ASSUME NEW pid \in DOMAIN proc' PROVE proc'[pid].born <= now' /\ Warned(pid)'
  <2>1. pid \in DOMAIN proc /\ proc[pid].born <= now /\ Warned(pid)
    BY <1>1, <1>4, SignalsIs DEF SInv
  <2>2. CASE Signals
    BY <1>1, <1>4, <2>1, <2>2, SignalsIs DEF Warned, Reachable
  <2>3. CASE UNCHANGED <<proc, termedAt>>
    BY <2>1, <2>3 DEF Warned, Reachable
  <2> QED BY <1>1, <2>2, <2>3
<1>5. ASSUME NEW pid \in DOMAIN proc' PROVE Due(pid)'
  <2>1. CASE leased \/ calm' = now
    BY <1>2, <1>3, <2>1, DueNow
  <2>2. CASE ~leased /\ calm' = calm /\ Signals
    <3>1. pid \in DOMAIN proc /\ Due(pid) /\ proc'[pid].born = proc[pid].born /\ (Reachable(pid)' <=> Reachable(pid))
      BY <1>1, <1>5, <2>2, SignalsIs DEF SInv, Reachable
    <3> SUFFICES ASSUME Reachable(pid) PROVE Due(pid)'
      BY <3>1 DEF Due
    <3>2. \A u : Since(pid, u)' <=> Since(pid, u)
      BY <2>2, <3>1 DEF Since
    <3>3. nextTick' = nextTick + Beat /\ now = nextTick
      BY <2>2
    <3>4. CASE pid \notin DOMAIN termedAt
      <4>1. pid \in DOMAIN termedAt' /\ termedAt'[pid] = nextTick
        BY <1>1, <1>5, <2>2, <3>3, <3>4, SignalsIs
      <4>2. Since(pid, nextTick - Beat)
        BY <2>2, <3>1, <3>4 DEF Due
      <4>3. nextTick' <= termedAt'[pid] + Grace + Beat
        BY <1>1, <3>3, <4>1 DEF Types
      <4> QED BY <3>2, <4>1, <4>2, <4>3 DEF Due
    <3>5. CASE pid \in DOMAIN termedAt
      <4>1. pid \in DOMAIN termedAt' /\ termedAt'[pid] = termedAt[pid] /\ ~(now - termedAt[pid] >= Grace)
        BY <1>1, <1>5, <2>2, <3>5, SignalsIs
      <4>2. Since(pid, termedAt[pid] - Beat)
        BY <2>2, <3>1, <3>5 DEF Due
      <4>3. nextTick' <= termedAt'[pid] + Grace + Beat
        BY <1>1, <3>3, <3>5, <4>1 DEF Types
      <4> QED BY <3>2, <4>1, <4>2, <4>3 DEF Due
    <3> QED BY <3>4, <3>5
  <2> QED BY <1>1, <2>1, <2>2
<1> QED BY <1>2, <1>3, <1>4, <1>5 DEF SInv

\* A record of signals that is emptied, while the lease is held.
LEMMA HeldKeeps ==
  ASSUME SInv, leased' = TRUE, UNCHANGED <<proc, now, lost>>, calm' \in {calm, now},
         termedAt' = [pid \in {} |-> 0] \/ (leased /\ termedAt' = termedAt),
         nextTick' = nextTick \/ nextTick' = now + Beat
  PROVE  SInv'
<1>1. Types /\ Times
  BY DEF SInv
<1>2. DOMAIN termedAt' = {} /\ termedAt' \in [DOMAIN termedAt' -> Nat]
  BY <1>1 DEF Types, Times
<1>3. Types' /\ Times'
  BY <1>1, <1>2 DEF Types, Times
<1>4. ASSUME NEW pid \in DOMAIN proc' PROVE proc'[pid].born <= now' /\ Warned(pid)' /\ Due(pid)'
  BY <1>2, <1>4 DEF SInv, Warned, Due, Reachable
<1> QED BY <1>3, <1>4 DEF SInv

\* Every step keeps the invariant.
LEMMA SNext == SInv /\ [SignalNext]_signalVars => SInv'
<1> SUFFICES ASSUME SInv, [SignalNext]_signalVars PROVE SInv'
  OBVIOUS
<1>0. Types /\ Times /\ \A pid \in DOMAIN proc : proc[pid].born <= now /\ Warned(pid) /\ Due(pid)
  BY DEF SInv
<1>1. CASE LoseLease \/ tickReacquire
  <2>1. CASE LoseLease
    BY <2>1, HoldKeeps DEF LoseLease
  <2>2. CASE tickReacquire
    <3>1. leased' = FALSE /\ ~leased /\ Hold /\ UNCHANGED <<now, lost>>
      BY <1>0, <2>2, Zenon DEF tickReacquire, Types
    <3>2. now = nextTick /\ nextTick' = now + Beat
      BY <2>2 DEF tickReacquire
    <3> QED BY <3>1, <3>2, HoldKeeps
  <2> QED BY <1>1, <2>1, <2>2
<1>2. CASE Reacquired \/ tickHeld
  <2>1. calm' \in {calm, now} /\ leased' = TRUE /\ UNCHANGED <<proc, now, lost>>
    BY <1>0, <1>2 DEF Reacquired, tickHeld, Release, Fault,
        faultVars, Types
  <2>2. /\ termedAt' = [pid \in {} |-> 0] \/ (leased /\ termedAt' = termedAt)
        /\ nextTick' = nextTick \/ nextTick' = now + Beat
    BY <1>2 DEF Reacquired, tickHeld, Release
  <2> QED BY <2>1, <2>2, HeldKeeps
<1>3. CASE Restart
  <2>1. /\ calm' = now /\ leased' = FALSE /\ nextTick' = now + Beat /\ now' = now
        /\ lost' \in {lost, now} /\ termedAt' = [pid \in workloadPIDs |-> now]
        /\ DOMAIN proc' = DOMAIN proc
    BY <1>3 DEF Restart, Fault
  <2>2. ASSUME NEW pid \in DOMAIN proc
        PROVE  /\ proc'[pid] \in Process
               /\ proc'[pid].kind = proc[pid].kind /\ proc'[pid].guarded = proc[pid].guarded
               /\ proc'[pid].born = proc[pid].born
               /\ proc'[pid].kind = "other" => proc'[pid].termed = proc[pid].termed
               /\ proc'[pid].kind = "target" /\ ~proc'[pid].guarded => proc'[pid].termed = now
    <3>1. proc[pid] \in Process /\ now \in Nat
      BY <1>0 DEF Types
    <3>2. proc'[pid] = IF pid \in Delivered(workloadPIDs) THEN [proc[pid] EXCEPT !.termed = now] ELSE proc[pid]
      BY <1>3 DEF Restart
    <3>3. pid \in Delivered(workloadPIDs) <=> proc[pid].kind = "target" /\ ~proc[pid].guarded
      BY DEF Delivered, workloadPIDs
    <3> QED BY <3>1, <3>2, <3>3 DEF Process
  <2>3. Types'
    <3>1. proc' \in [DOMAIN proc' -> Process]
      BY <1>3, <2>1, <2>2 DEF Restart
    <3>2. termedAt' \in [DOMAIN termedAt' -> Nat]
      BY <1>0, <2>1 DEF Types
    <3>3. nextTick' \in Nat /\ lost' \in Nat /\ calm' \in Nat /\ now' \in Nat
      BY <1>0, <2>1 DEF Types
    <3> QED BY <1>0, <2>1, <3>1, <3>2, <3>3, Zenon DEF Types
  <2>4. Times'
    BY <1>0, <2>1 DEF Types, Times
  <2>5. ASSUME NEW pid \in DOMAIN proc' PROVE proc'[pid].born <= now' /\ Warned(pid)' /\ Due(pid)'
    <3>0. now' \in {lost', calm', proc'[pid].born}
      BY <2>1
    <3>1. Due(pid)'
      BY <2>3, <2>4, <3>0, DueNow
    <3> QED BY <1>0, <2>1, <2>2, <2>5, <3>1 DEF Warned, Reachable
  <2> QED BY <2>3, <2>4, <2>5 DEF SInv
<1>4. ASSUME UNCHANGED <<termedAt, leased, nextTick, lost, calm>>, now' = now \/ (now' = now + 1 /\ now < nextTick),
             proc' \in [DOMAIN proc' -> Process],
             \A pid \in DOMAIN proc' :
               \/ pid \in DOMAIN proc /\ proc'[pid] = proc[pid]
               \/ /\ now' = now /\ proc'[pid].born = now /\ proc'[pid].termed = Never
                  /\ pid \in DOMAIN termedAt => proc'[pid].heir
      PROVE  SInv'
  <2>1. Types' /\ Times'
    BY <1>0, <1>4 DEF Types, Times
  <2>2. ASSUME NEW pid \in DOMAIN proc' PROVE proc'[pid].born <= now' /\ Warned(pid)' /\ Due(pid)'
    <3>1. CASE pid \in DOMAIN proc /\ proc'[pid] = proc[pid]
      <4>1. proc'[pid].born <= now'
        BY <1>0, <1>4, <3>1 DEF Types, Process
      <4> QED BY <1>0, <1>4, <3>1, <4>1 DEF Warned, Due, Since, Reachable
    <3>2. CASE now' = now /\ proc'[pid].born = now /\ proc'[pid].termed = Never /\ (pid \in DOMAIN termedAt => proc'[pid].heir)
      <4>0. now' \in {lost', calm', proc'[pid].born}
        BY <3>2
      <4>1. Due(pid)'
        BY <2>1, <4>0, DueNow
      <4> QED BY <1>0, <1>4, <3>2, <4>1 DEF Warned, Reachable, Types
    <3> QED BY <1>4, <2>2, <3>1, <3>2
  <2> QED BY <2>1, <2>2 DEF SInv
<1>5. CASE Start
  <2>1. PICK pid \in Pid \ DOMAIN proc, kind \in {"target", "other"}, s \in BOOLEAN, g \in BOOLEAN :
          proc' = [q \in DOMAIN proc \cup {pid} |->
            IF q = pid THEN [kind |-> kind, stubborn |-> s, guarded |-> g, termed |-> Never,
                             born |-> now, heir |-> pid \in DOMAIN termedAt]
            ELSE proc[q]]
    BY <1>5, SMTT(60) DEF Start
  <2>2. proc'[pid] \in Process /\ proc'[pid].born = now /\ proc'[pid].termed = Never
        /\ (pid \in DOMAIN termedAt => proc'[pid].heir)
    <3>1. proc'[pid] = [kind |-> kind, stubborn |-> s, guarded |-> g, termed |-> Never,
                        born |-> now, heir |-> pid \in DOMAIN termedAt]
      BY <2>1, Zenon
    <3>2. now \in Nat /\ (pid \in DOMAIN termedAt) \in BOOLEAN
      BY <1>0 DEF Types
    <3>3. \A h \in BOOLEAN : [kind |-> kind, stubborn |-> s, guarded |-> g, termed |-> Never,
                              born |-> now, heir |-> h] \in Process
      BY <3>2 DEF Process
    <3>4. proc'[pid] \in Process
      BY <3>1, <3>2, <3>3, Zenon
    <3>5. proc'[pid].born = now /\ proc'[pid].termed = Never
      BY <3>1
    <3>6. ASSUME pid \in DOMAIN termedAt PROVE proc'[pid].heir
      <4>1. (pid \in DOMAIN termedAt) = TRUE
        BY <3>6
      <4>2. proc'[pid] = [kind |-> kind, stubborn |-> s, guarded |-> g, termed |-> Never, born |-> now, heir |-> TRUE]
        BY <3>1, <4>1, Zenon
      <4> QED BY <4>2
    <3> QED BY <3>4, <3>5, <3>6, Zenon
  <2>3. \A q \in DOMAIN proc : proc'[q] = proc[q] /\ proc[q] \in Process
    BY <1>0, <2>1 DEF Types
  <2>4. DOMAIN proc' = DOMAIN proc \cup {pid} /\ proc' \in [DOMAIN proc' -> Process]
    BY <2>1, <2>2, <2>3
  <2>5. UNCHANGED <<termedAt, leased, nextTick, lost, calm>> /\ now' = now
    BY <1>5 DEF Start, faultVars
  <2> QED BY <1>4, <2>2, <2>3, <2>4, <2>5
<1>6. CASE Exit
  <2>1. PICK pid \in DOMAIN proc : proc' = [q \in DOMAIN proc \ {pid} |-> proc[q]]
    BY <1>6 DEF Exit, Restrict
  <2>2. \A q \in DOMAIN proc' : q \in DOMAIN proc /\ proc'[q] = proc[q]
    BY <2>1
  <2>3. proc' \in [DOMAIN proc' -> Process]
    BY <1>0, <2>1, <2>2 DEF Types
  <2>4. UNCHANGED <<termedAt, leased, nextTick, lost, calm>> /\ now' = now
    BY <1>6 DEF Exit, faultVars
  <2> QED BY <1>4, <2>2, <2>3, <2>4
<1>7. CASE TimePasses
  BY <1>0, <1>4, <1>7 DEF TimePasses, faultVars, Types
<1>8. CASE UNCHANGED signalVars
  BY <1>0, <1>4, <1>8 DEF signalVars, faultVars, Types
<1> QED BY <1>1, <1>2, <1>3, <1>5, <1>6, <1>7, <1>8 DEF SignalNext, Horizon

\* The invariant holds.
LEMMA SInvariance == SignalSpec => []SInv
<1>0. Beat \in Nat \ {0} /\ Grace \in Nat /\ Never \notin Nat
  BY SignalAssumption
<1>1. ASSUME SignalInit PROVE SInv
  <2>1. DOMAIN proc = {} /\ DOMAIN termedAt = {}
    BY <1>1 DEF SignalInit
  <2>2. proc \in [DOMAIN proc -> Process] /\ termedAt \in [DOMAIN termedAt -> Nat]
    BY <1>1, <2>1 DEF SignalInit
  <2>3. leased \in BOOLEAN
    BY <1>1, Zenon DEF SignalInit
  <2>4. Types
    BY <1>0, <1>1, <2>2, <2>3 DEF SignalInit, Types
  <2>5. Times
    BY <1>0, <1>1, <2>1 DEF SignalInit, Times
  <2> QED BY <2>1, <2>4, <2>5 DEF SInv
<1> QED BY <1>1, SNext, PTL DEF SignalSpec

\* A process that a Hold kills has had its SIGTERM for this loss of the lease,
\* the whole grace period ago (signalEnforcer, enforce.go), for any number of
\* processes, restarts and failures and any grace period and heartbeat.
THEOREM GivesGrace == SignalSpec => []GraceGiven
<1>1. SInv => GraceGiven
  BY DEF SInv, GraceGiven, Warned, Times, Types, Reachable, Delivered,
      Kills, Terms, workloadPIDs
<1> QED BY <1>1, SInvariance, PTL

\* Without the lease no process that signals can reach outlives the grace
\* period and two heartbeats (Hold, enforce.go), counted from the loss, the last
\* failure or its own start.
THEOREM StopsInTime == SignalSpec => []StoppedInTime
<1>1. SInv => StoppedInTime
  <2> SUFFICES ASSUME SInv, ~leased, NEW pid \in workloadPIDs, ~proc[pid].guarded
               PROVE  \E t \in {lost, calm, proc[pid].born} : now - t <= Grace + 2 * Beat
    BY DEF StoppedInTime
  <2>1. Types /\ Times /\ Due(pid) /\ Reachable(pid) /\ proc[pid].born \in Nat
    BY DEF SInv, workloadPIDs, Reachable, Types, Process
  <2>2. CASE Since(pid, nextTick - Beat)
    <3>1. PICK t \in {lost, calm, proc[pid].born} : nextTick - Beat <= t
      BY <2>2 DEF Since
    <3>2. now - t <= Grace + 2 * Beat
      BY <2>1, <3>1, SMTT(60) DEF Types, Times
    <3> QED BY <3>2
  <2>3. CASE pid \in DOMAIN termedAt /\ Since(pid, termedAt[pid] - Beat) /\ nextTick <= termedAt[pid] + Grace + Beat
    <3>1. PICK t \in {lost, calm, proc[pid].born} : termedAt[pid] - Beat <= t
      BY <2>3 DEF Since
    <3>2. t \in Nat /\ termedAt[pid] \in Nat /\ now \in Nat /\ nextTick \in Nat /\ now <= nextTick
      BY <2>1, <2>3 DEF Types, Times
    <3>3. now - t <= Grace + 2 * Beat
      BY <2>1, <2>3, <3>1, <3>2 DEF Types
    <3> QED BY <3>3
  <2> QED BY <2>1, <2>2, <2>3 DEF Due
<1> QED BY <1>1, SInvariance, PTL

-----------------------------------------------------------------------------
(* Injection: the helpers' containers and environment, from the submitted  *)
(* Pod to the admitted one.                                                *)

\* The two helpers of a runtime singleton.
Gate == <<HelperContainer("berth-acquire", FALSE), HelperContainer("berth-sidecar", TRUE)>>

Harmless(c) == \A m \in c.mounts : ~Writable(m)

\* A mutated Pod: unless another injector has changed it, it is as mutate left
\* it; its init containers are the gate's, or too many; what an earlier
\* admission found in its ephemeral containers is still true.
Injected ==
  /\ ~meddled => /\ CreateValid(pod) /\ pod.env = buildEnv(resolve(pod))
                 /\ pod.init # <<>> /\ pod.init[1] = HelperContainer("berth-acquire", FALSE)
  /\ Runtime(pod) => pod.init = Gate \/ Len(pod.init) > 2
  /\ \A c \in Range(pod.eph) : c.name \in Helpers \/ Harmless(c)

JInv ==
  /\ setup \in DOMAIN Setups /\ config \in InjectorConfig /\ ConfigValid(config)
  /\ pod \in Pod
  /\ (stage \in {"mutated", "admitted"} /\ OptedIn(pod)) => Injected
  /\ stage = "admitted" => CreateValid(pod)

\* The injector's own strings.
LEMMA Known ==
  /\ "none" \in Text /\ "berth" \in Text /\ "berth-state" \in Text /\ "token" \in Text
  /\ "ca" \in Text /\ "state" \in Text /\ "berth-acquire" \in Text /\ "berth-sidecar" \in Text
  /\ "" \in Text /\ "true" \in Text /\ "emptyDir" \in Text
  /\ "runtime-singleton" \in Text /\ "probe" \in Text
BY DEF Text, Words

\* Sequences by their elements.
LEMMA IsSeq ==
  ASSUME NEW S, NEW n \in Nat, NEW f \in [1 .. n -> S]
  PROVE  f \in Seq(S) /\ Len(f) = n
OBVIOUS

LEMMA SeqIs ==
  ASSUME NEW S, NEW s \in Seq(S)
  PROVE  /\ s \in [1 .. Len(s) -> S] /\ Len(s) \in Nat /\ DOMAIN s = 1 .. Len(s)
         /\ Range(s) \subseteq S /\ (s # <<>> => s[1] \in S /\ Len(s) > 0)
BY DEF Range

LEMMA Joined ==
  ASSUME NEW S, NEW s \in Seq(S), NEW t \in Seq(S)
  PROVE  Range(s \o t) = Range(s) \cup Range(t) /\ s \o t \in Seq(S)
<1>1. s \o t \in Seq(S) /\ Len(s \o t) = Len(s) + Len(t)
  OBVIOUS
<1>2. \A i \in 1 .. Len(s) + Len(t) : (s \o t)[i] = IF i <= Len(s) THEN s[i] ELSE t[i - Len(s)]
  OBVIOUS
<1>3. ASSUME NEW x \in Range(s) PROVE x \in Range(s \o t)
  <2>1. PICK i \in 1 .. Len(s) : x = s[i]
    BY DEF Range
  <2>2. i \in 1 .. Len(s \o t) /\ (s \o t)[i] = x
    BY <1>1, <1>2, <2>1
  <2> QED BY <1>1, <2>2 DEF Range
<1>4. ASSUME NEW x \in Range(t) PROVE x \in Range(s \o t)
  <2>1. PICK i \in 1 .. Len(t) : x = t[i]
    BY DEF Range
  <2>2. Len(s) + i \in 1 .. Len(s \o t) /\ (s \o t)[Len(s) + i] = x
    BY <1>1, <1>2, <2>1
  <2> QED BY <1>1, <2>2 DEF Range
<1>5. ASSUME NEW x \in Range(s \o t) PROVE x \in Range(s) \cup Range(t)
  <2>1. PICK i \in 1 .. Len(s) + Len(t) : x = (s \o t)[i]
    BY <1>1 DEF Range
  <2>2. CASE i <= Len(s)
    BY <1>2, <2>1, <2>2 DEF Range
  <2>3. CASE ~(i <= Len(s))
    <3>1. i - Len(s) \in 1 .. Len(t) /\ x = t[i - Len(s)]
      BY <1>2, <2>1, <2>3
    <3> QED BY <3>1 DEF Range
  <2> QED BY <2>2, <2>3
<1> QED BY <1>1, <1>3, <1>4, <1>5

-----------------------------------------------------------------------------
\* resolve reads the annotations only.
LEMMA ResolveIs ==
  ASSUME NEW p \in Pod, config \in InjectorConfig
  PROVE  LET r == resolve(p) IN
         /\ r.ttl \in Int /\ r.heartbeat \in Int /\ r.grace \in Int
         /\ r.mode \in Text /\ r.enforce \in Text /\ r.target \in Text /\ r.release \in Text
         /\ r.lease \in Text /\ r.holder \in Text
<1>1. p.ann \in Annotations
  BY DEF Pod
<1>2. \A v \in Seq(Int), d \in Int : intAnn(v, d) \in Int
  BY DEF intAnn
<1>3. \A v \in Text, d \in Text : orDefault(v, d) \in Text
  BY DEF orDefault
<1>4. /\ p.ann.mode \in Text /\ p.ann.enforce \in Text /\ p.ann.target \in Text
      /\ p.ann.release \in Text /\ p.ann.lease \in Text /\ p.ann.holder \in Text
      /\ p.ann.ttl \in Seq(Int) /\ p.ann.heartbeat \in Seq(Int) /\ p.ann.grace \in Seq(Int)
  BY <1>1 DEF Annotations
<1>5. config.mode \in Text /\ config.enforce \in Text /\ config.ttl \in Int /\ 0 \in Int
  BY DEF InjectorConfig
<1>6. /\ orDefault(p.ann.mode, config.mode) \in Text /\ orDefault(p.ann.enforce, config.enforce) \in Text
      /\ intAnn(p.ann.ttl, config.ttl) \in Int /\ intAnn(p.ann.heartbeat, 0) \in Int
      /\ intAnn(p.ann.grace, 0) \in Int
  BY <1>2, <1>3, <1>4, <1>5, Zenon
<1> QED BY <1>4, <1>6 DEF resolve

LEMMA SameAnn ==
  ASSUME NEW p, NEW q, q.ann = p.ann
  PROVE  resolve(q) = resolve(p) /\ (Runtime(q) <=> Runtime(p)) /\ freshnessProbe(q) = freshnessProbe(p)
BY Zenon DEF resolve, Runtime, freshnessProbe

\* Opting in depends on labels only.
LEMMA SameOptIn ==
  ASSUME NEW p, NEW q, q.optin = p.optin, q.controlPlane = p.controlPlane
  PROVE  OptedIn(q) <=> OptedIn(p)
BY Zenon DEF OptedIn

\* The repair of a container touches its mounts only.
LEMMA RepairIs ==
  ASSUME NEW c \in Container
  PROVE  Repair(c) \in Container
<1>1. \A m \in Mount : (IF Writable(m) /\ m.path = "state" THEN [m EXCEPT !.ro = TRUE] ELSE m) \in Mount
  BY DEF Mount
<1>2. {IF Writable(m) /\ m.path = "state" THEN [m EXCEPT !.ro = TRUE] ELSE m : m \in c.mounts} \in SUBSET Mount
  BY <1>1 DEF Container
<1> QED BY <1>2 DEF Repair, Container

LEMMA RepairedIs ==
  ASSUME NEW p \in Pod
  PROVE  LET q == Repaired(p) IN
         /\ q \in Pod /\ q.ann = p.ann /\ q.optin = p.optin /\ q.controlPlane = p.controlPlane
<1> DEFINE main == [i \in DOMAIN p.main |-> Repair(p.main[i])]
           init == [i \in DOMAIN p.init |-> Repair(p.init[i])]
<1>1. main \in Seq(Container)
  <2>1. p.main \in Seq(Container)
    BY DEF Pod
  <2>2. main \in [1 .. Len(p.main) -> Container]
    BY <2>1, SeqIs, RepairIs
  <2> QED BY <2>1, <2>2, IsSeq
<1>2. init \in Seq(Container)
  <2>1. p.init \in Seq(Container)
    BY DEF Pod
  <2>2. init \in [1 .. Len(p.init) -> Container]
    BY <2>1, SeqIs, RepairIs
  <2> QED BY <2>1, <2>2, IsSeq
<1>3. Repaired(p) = [p EXCEPT !.main = main, !.init = init]
  BY DEF Repaired
<1> HIDE DEF main, init
<1> QED BY <1>1, <1>2, <1>3 DEF Pod

\* What applyEnforcement makes of a container.
LEMMA EnforcedIs ==
  ASSUME NEW c \in Container, NEW p, resolve(p).ttl \in Int
  PROVE  LET e == applyEnforcement(p, c) IN
         /\ e \in Container /\ e.name = c.name /\ e.startup = c.startup
         /\ e.liveness = freshnessProbe(p)
         /\ e.mounts = IF \E m \in c.mounts : m.vol = "berth-state" /\ m.path = "state" THEN c.mounts
                       ELSE c.mounts \cup {StateMount(TRUE)}
<1> DEFINE ms == IF \E m \in c.mounts : m.vol = "berth-state" /\ m.path = "state" THEN c.mounts
                 ELSE c.mounts \cup {StateMount(TRUE)}
<1>1. freshnessProbe(p) \in [kind : Text, maxAge : Int]
  BY Known DEF freshnessProbe
<1>2. StateMount(TRUE) \in Mount
  BY Known DEF StateMount, Mount
<1>3. ms \in SUBSET Mount
  BY <1>2 DEF Container
<1>4. applyEnforcement(p, c) = [c EXCEPT !.liveness = freshnessProbe(p), !.mounts = ms]
  BY DEF applyEnforcement
<1> HIDE DEF ms
<1>5. LET e == applyEnforcement(p, c) IN
      /\ e \in Container /\ e.name = c.name /\ e.startup = c.startup
      /\ e.liveness = freshnessProbe(p) /\ e.mounts = ms
  BY <1>1, <1>3, <1>4 DEF Container
<1> QED BY <1>5 DEF ms

\* The helpers' mounts: the state volume and the credentials.
LEMMA HelperIs ==
  ASSUME config \in InjectorConfig, NEW n \in Text, NEW b \in BOOLEAN
  PROVE  LET h == HelperContainer(n, b) IN
         /\ h \in Container /\ h.name = n /\ h.restart = b
         /\ h.mounts = {StateMount(FALSE)} \cup authVolumeMounts
<1>0. \A v, d \in Text, b1, b2 \in BOOLEAN : [vol |-> v, path |-> d, ro |-> b1, sub |-> b2] \in Mount
  BY DEF Mount
<1>1. StateMount(FALSE) \in Mount /\ NoProbe \in [kind : Text, maxAge : Int]
  <2>1. StateMount(FALSE) \in Mount
    BY <1>0, Known, Zenon DEF StateMount
  <2>2. NoProbe \in [kind : Text, maxAge : Int]
    <3>1. \A k \in Text, n2 \in Int : [kind |-> k, maxAge |-> n2] \in [kind : Text, maxAge : Int]
      OBVIOUS
    <3>2. 0 \in Int
      OBVIOUS
    <3> QED BY <3>1, <3>2, Known, Zenon DEF NoProbe
  <2> QED BY <2>1, <2>2
<1>2. config.keyFile.dir \in Text /\ config.caFile.dir \in Text
  BY DEF InjectorConfig, File
<1>3. authVolumeMounts \in SUBSET Mount
  <2>1. /\ [vol |-> "token", path |-> config.keyFile.dir, ro |-> TRUE, sub |-> FALSE] \in Mount
        /\ [vol |-> "ca", path |-> config.caFile.dir, ro |-> TRUE, sub |-> FALSE] \in Mount
    BY <1>0, <1>2, Known, Zenon
  <2> QED BY <2>1, Zenon DEF authVolumeMounts
<1> QED BY <1>1, <1>3 DEF HelperContainer, Container

\* What the helper's environment is built of.
LEMMA EnvIs ==
  ASSUME config \in InjectorConfig, NEW p \in Pod
  PROVE  buildEnv(resolve(p)) \in Environment
<1>1. PICK r : r = resolve(p)
  OBVIOUS
<1>2. /\ r.ttl \in Int /\ r.heartbeat \in Int /\ r.grace \in Int
      /\ r.mode \in Text /\ r.enforce \in Text /\ r.target \in Text /\ r.release \in Text
      /\ r.lease \in Text /\ r.holder \in Text
  BY <1>1, ResolveIs
<1>3. config.apiServer \in BOOLEAN /\ config.keyFile \in File /\ config.caFile \in File
  BY DEF InjectorConfig
<1>4. <<r.ttl>> \in Seq(Int) /\ <<r.heartbeat>> \in Seq(Int) /\ <<r.grace>> \in Seq(Int) /\ <<>> \in Seq(Int)
  BY <1>2
<1>5. buildEnv(r) \in Environment
  BY <1>2, <1>3, <1>4, Known DEF buildEnv, Environment
<1> QED BY <1>1, <1>5

\* What mutate makes of a Pod.
LEMMA MutateIs ==
  ASSUME config \in InjectorConfig, NEW p \in Pod
  PROVE  LET q == mutate(p) IN
         /\ q \in Pod /\ q.ann = p.ann /\ q.optin = p.optin /\ q.controlPlane = p.controlPlane
         /\ q.eph = p.eph /\ q.state = "emptyDir" /\ q.env = buildEnv(resolve(p))
         /\ q.share = (IF Runtime(p) /\ resolve(p).enforce = "signal" THEN "true" ELSE p.share)
         /\ q.init = (IF Runtime(p) THEN Gate ELSE <<HelperContainer("berth-acquire", FALSE)>>) \o p.init
         /\ q.main = IF Runtime(p) THEN [i \in DOMAIN p.main |-> applyEnforcement(p, p.main[i])]
                     ELSE p.main
<1> DEFINE env == buildEnv(resolve(p))
           share == IF Runtime(p) /\ resolve(p).enforce = "signal" THEN "true" ELSE p.share
           init == (IF Runtime(p) THEN Gate ELSE <<HelperContainer("berth-acquire", FALSE)>>) \o p.init
           main == IF Runtime(p) THEN [i \in DOMAIN p.main |-> applyEnforcement(p, p.main[i])] ELSE p.main
           tv == p.tokenVolume \/ config.keySecret
           cv == p.caVolume \/ config.caMap
<1>1. env \in Environment
  BY EnvIs, Zenon
<1>2. share \in Text /\ tv \in BOOLEAN /\ cv \in BOOLEAN
  BY Known DEF Pod
<1>3. init \in Seq(Container)
  <2>1. HelperContainer("berth-acquire", FALSE) \in Container /\ HelperContainer("berth-sidecar", TRUE) \in Container
    BY Known, HelperIs
  <2>2. Gate \in Seq(Container) /\ <<HelperContainer("berth-acquire", FALSE)>> \in Seq(Container)
    <3>1. \A a, b \in Container : <<a, b>> \in Seq(Container) /\ <<a>> \in Seq(Container)
      OBVIOUS
    <3> QED BY <2>1, <3>1, Zenon DEF Gate
  <2>3. p.init \in Seq(Container)
    BY DEF Pod
  <2> QED BY <2>2, <2>3, Joined
<1>4. main \in Seq(Container)
  <2>1. p.main \in Seq(Container)
    BY DEF Pod
  <2>2. resolve(p).ttl \in Int
    BY ResolveIs
  <2>3. CASE Runtime(p)
    <3>1. main \in [1 .. Len(p.main) -> Container]
      BY <2>1, <2>2, <2>3, SeqIs, EnforcedIs
    <3> QED BY <2>1, <3>1, IsSeq
  <2> QED BY <2>1, <2>3
<1>5. mutate(p) = [p EXCEPT !.state = "emptyDir", !.marked = TRUE, !.env = env, !.tokenVolume = tv,
                            !.caVolume = cv, !.share = share, !.init = init, !.main = main]
  BY Zenon DEF mutate, Gate
<1> HIDE DEF env, share, init, main, tv, cv
<1>6. LET q == mutate(p) IN
         /\ q \in Pod /\ q.ann = p.ann /\ q.optin = p.optin /\ q.controlPlane = p.controlPlane
         /\ q.eph = p.eph /\ q.state = "emptyDir" /\ q.env = env /\ q.share = share
         /\ q.init = init /\ q.main = main
  BY <1>1, <1>2, <1>3, <1>4, <1>5, Known, ZenonT(60) DEF Pod
<1> QED BY <1>6, Zenon DEF env, share, init, main

\* A mount that validateProbeMounts lets pass stays so beside the read-only one.
LEMMA ProbedIs ==
  ASSUME NEW c \in Container, NEW p, resolve(p).ttl \in Int, ProbeMounts(c, FALSE)
  PROVE  ProbeMounts(applyEnforcement(p, c), TRUE)
<1>1. PICK e : e = applyEnforcement(p, c)
  OBVIOUS
<1>2. e.mounts = IF \E m \in c.mounts : m.vol = "berth-state" /\ m.path = "state" THEN c.mounts
                 ELSE c.mounts \cup {StateMount(TRUE)}
  BY <1>1, EnforcedIs
<1>3. \A m \in e.mounts : m \in c.mounts \/ m = StateMount(TRUE)
  BY <1>2
<1>4. \E m \in e.mounts : m.path = "state"
  <2>1. CASE \E m \in c.mounts : m.vol = "berth-state" /\ m.path = "state"
    BY <1>2, <2>1
  <2>2. CASE ~\E m \in c.mounts : m.vol = "berth-state" /\ m.path = "state"
    <3>1. StateMount(TRUE) \in e.mounts
      BY <1>2, <2>2
    <3>2. StateMount(TRUE).path = "state"
      BY Zenon DEF StateMount
    <3> QED BY <3>1, <3>2, Zenon
  <2> QED BY <2>1, <2>2, Zenon
<1>5. LET m == StateMount(TRUE) IN m.path = "state" /\ m.vol = "berth-state" /\ ~m.sub /\ m.ro
  BY Zenon DEF StateMount
<1>6. \A m \in c.mounts : /\ m.path \in {"state", "alias", "below"} =>
                               m.path = "state" /\ m.vol = "berth-state" /\ ~m.sub /\ m.ro
                          /\ ~Writable(m)
  BY DEF ProbeMounts
<1>7. \A m \in e.mounts : /\ m.path \in {"state", "alias", "below"} =>
                               m.path = "state" /\ m.vol = "berth-state" /\ ~m.sub /\ m.ro
                          /\ ~Writable(m)
  BY <1>3, <1>5, <1>6, Zenon DEF Writable
<1>8. ProbeMounts(e, TRUE)
  BY <1>4, <1>7 DEF ProbeMounts
<1> QED BY <1>1, <1>8

\* Default's outcome passes ValidateCreate.
LEMMA MutatedValid ==
  ASSUME config \in InjectorConfig, NEW p \in Pod, Resolves(p), preflight(p)
  PROVE  CreateValid(mutate(p))
<1>1. PICK q : q = mutate(p)
  OBVIOUS
<1>2. /\ q.ann = p.ann /\ q.state = "emptyDir"
      /\ q.share = (IF Runtime(p) /\ resolve(p).enforce = "signal" THEN "true" ELSE p.share)
      /\ q.init = (IF Runtime(p) THEN Gate ELSE <<HelperContainer("berth-acquire", FALSE)>>) \o p.init
      /\ q.main = IF Runtime(p) THEN [i \in DOMAIN p.main |-> applyEnforcement(p, p.main[i])]
                  ELSE p.main
  BY <1>1, MutateIs, Zenon
<1>3. resolve(q) = resolve(p) /\ (Runtime(q) <=> Runtime(p)) /\ freshnessProbe(q) = freshnessProbe(p)
  BY <1>2, SameAnn, Zenon
<1>4. Resolves(q)
  <2>1. q.share # "false" \/ q.share = p.share
    BY <1>2
  <2> QED BY <1>2, <1>3, <2>1, Zenon DEF Resolves
<1>5. ASSUME Runtime(q)
      PROVE  /\ HelpersOnly(q)
             /\ \A c \in Range(q.main) : ~c.startup /\ c.liveness = freshnessProbe(q) /\ ProbeMounts(c, TRUE)
  <2>1. p.init = <<>> /\ \A c \in Range(p.main) : ~c.startup /\ ProbeMounts(c, FALSE)
    BY <1>3, <1>5, Zenon DEF preflight
  <2>2. HelpersOnly(q)
    <3>1. PICK a, b : a = HelperContainer("berth-acquire", FALSE) /\ b = HelperContainer("berth-sidecar", TRUE)
      OBVIOUS
    <3>2. a.name = "berth-acquire" /\ ~a.restart /\ b.name = "berth-sidecar" /\ b.restart
      BY <3>1, Zenon DEF HelperContainer
    <3>3. q.init = <<a, b>>
      <4>1. a \in Container /\ b \in Container
        BY <3>1, Known, HelperIs
      <4>2. \A x, y \in Container : <<x, y>> \o <<>> = <<x, y>>
        OBVIOUS
      <4>3. <<a, b>> \o <<>> = <<a, b>>
        BY <4>1, <4>2, Zenon
      <4> QED BY <1>2, <1>3, <1>5, <2>1, <3>1, <4>3, Zenon DEF Gate
    <3> QED BY <3>2, <3>3 DEF HelpersOnly
  <2>3. ASSUME NEW c \in Range(q.main)
        PROVE  ~c.startup /\ c.liveness = freshnessProbe(q) /\ ProbeMounts(c, TRUE)
    <3>1. PICK i \in DOMAIN p.main : c = applyEnforcement(p, p.main[i])
      BY <1>2, <1>3, <1>5, <2>3 DEF Range
    <3>2. PICK d : d = p.main[i] /\ d \in Range(p.main) /\ d \in Container
      BY <3>1, SeqIs, SMTT(60) DEF Range, Pod
    <3>3. resolve(p).ttl \in Int
      BY ResolveIs
    <3>4. c.startup = d.startup /\ c.liveness = freshnessProbe(p)
      BY <3>1, <3>2, <3>3, EnforcedIs
    <3>5. ProbeMounts(c, TRUE)
      BY <2>1, <3>1, <3>2, <3>3, ProbedIs, Zenon
    <3> QED BY <1>3, <2>1, <3>2, <3>4, <3>5, Zenon
  <2> QED BY <2>2, <2>3
<1>6. CreateValid(q)
  BY <1>2, <1>4, <1>5, Zenon DEF CreateValid
<1> QED BY <1>1, <1>6

-----------------------------------------------------------------------------
\* The configuration is valid and complete, and the Pod one that may be submitted.
LEMMA JInit == InjectInit => JInv
<1> SUFFICES ASSUME InjectInit PROVE JInv
  OBVIOUS
<1>1. PICK c \in Configs : config = withDefaults(c)
  BY DEF InjectInit
<1>2. setup \in DOMAIN Setups /\ ConfigValid(config) /\ pod \in Pods /\ stage = "submitted"
  BY Zenon DEF InjectInit
<1>3. c \in InjectorConfig /\ pod \in Pod
  BY <1>1, <1>2, InjectorAssumption DEF Configs, Pods
<1>4. /\ orDefault(c.mode, "runtime-singleton") \in Text
      /\ orDefault(c.enforce, "probe") \in Text
  BY <1>3, Known DEF orDefault, InjectorConfig
<1>5. config \in InjectorConfig
  BY <1>1, <1>3, <1>4 DEF withDefaults, InjectorConfig
<1> QED BY <1>2, <1>3, <1>5 DEF JInv

\* What is said of a Pod is said of the next state's as well.
LEMMA Later ==
  ASSUME config' = config, NEW p, pod' = p
  PROVE  /\ CreateValid(pod)' <=> CreateValid(p)
         /\ Runtime(pod)' <=> Runtime(p)
         /\ buildEnv(resolve(pod))' = buildEnv(resolve(p))
         /\ OptedIn(pod)' <=> OptedIn(p)
         /\ Gate' = Gate
         /\ HelperContainer("berth-acquire", FALSE)' = HelperContainer("berth-acquire", FALSE)
<1>1. resolve(pod)' = resolve(p)
  BY Zenon DEF resolve
<1>2. Runtime(pod)' <=> Runtime(p)
  BY <1>1 DEF Runtime
<1>3. buildEnv(resolve(pod))' = buildEnv(resolve(p))
  BY <1>1 DEF buildEnv
<1>4. OptedIn(pod)' <=> OptedIn(p)
  BY DEF OptedIn
<1>5. authVolumeMounts' = authVolumeMounts
  BY DEF authVolumeMounts
<1>6. Gate' = Gate /\ HelperContainer("berth-acquire", FALSE)' = HelperContainer("berth-acquire", FALSE)
  BY <1>5 DEF Gate, HelperContainer
<1>7. Resolves(pod)' <=> Resolves(p)
  BY <1>1 DEF Resolves
<1>8. freshnessProbe(pod)' = freshnessProbe(p)
  BY <1>1 DEF freshnessProbe
<1>9. CreateValid(pod)' <=> CreateValid(p)
  BY <1>2, <1>4, <1>7, <1>8 DEF CreateValid, HelpersOnly
<1> QED BY <1>2, <1>3, <1>4, <1>6, <1>9

\* Default: the Pod is left alone, refused, or mutated.
LEMMA JDefault == ASSUME JInv, Default PROVE JInv'
<1> DEFINE q == Repaired(pod)
<1>1. setup \in DOMAIN Setups /\ config \in InjectorConfig /\ ConfigValid(config) /\ pod \in Pod
  BY Zenon DEF JInv
<1>2. UNCHANGED <<setup, config, meddled>>
  BY DEF Default
<1>3. \/ ~OptedIn(pod) /\ stage' = "mutated" /\ pod' = pod
      \/ stage' = "refused" /\ pod' = pod
      \/ /\ OptedIn(pod) /\ stage' = "mutated" /\ pod' = mutate(q)
         /\ MountsAllowed(q, FALSE) /\ Resolves(q) /\ preflight(q)
  BY Zenon DEF Default, Skips
<1>4. (setup \in DOMAIN Setups)' /\ (config \in InjectorConfig)' /\ ConfigValid(config)'
  BY <1>1, <1>2 DEF ConfigValid
<1>5. CASE ~OptedIn(pod) /\ stage' = "mutated" /\ pod' = pod
  <2>1. ~OptedIn(pod)'
    BY <1>5 DEF OptedIn
  <2> QED BY <1>1, <1>4, <1>5, <2>1 DEF JInv
<1>6. CASE stage' = "refused" /\ pod' = pod
  BY <1>1, <1>4, <1>6 DEF JInv
<1>7. CASE /\ OptedIn(pod) /\ stage' = "mutated" /\ pod' = mutate(q)
           /\ MountsAllowed(q, FALSE) /\ Resolves(q) /\ preflight(q)
  <2>1. q \in Pod
    BY <1>1, RepairedIs
  <2> HIDE DEF q
  <2>2. PICK r : r = mutate(q)
    OBVIOUS
  <2>3. /\ r \in Pod /\ r.ann = q.ann /\ r.eph = q.eph /\ r.env = buildEnv(resolve(q))
        /\ r.init = (IF Runtime(q) THEN Gate ELSE <<HelperContainer("berth-acquire", FALSE)>>) \o q.init
    BY <1>1, <2>1, <2>2, MutateIs, Zenon
  <2>4. resolve(r) = resolve(q) /\ (Runtime(r) <=> Runtime(q))
    BY <2>3, SameAnn, Zenon
  <2>5. CreateValid(r)
    BY <1>1, <1>7, <2>1, <2>2, MutatedValid
  <2>6. Runtime(r) => r.init = Gate
    <3>1. Runtime(r) => q.init = <<>>
      BY <1>7, <2>4, Zenon DEF preflight
    <3>2. \A x, y \in Container : <<x, y>> \o <<>> = <<x, y>>
      OBVIOUS
    <3>3. HelperContainer("berth-acquire", FALSE) \in Container /\ HelperContainer("berth-sidecar", TRUE) \in Container
      BY <1>1, Known, HelperIs
    <3>4. Gate \o <<>> = Gate
      BY <3>2, <3>3, Zenon DEF Gate
    <3> QED BY <2>3, <2>4, <3>1, <3>4, Zenon
  <2>7. r.init # <<>> /\ r.init[1] = HelperContainer("berth-acquire", FALSE)
    <3>1. PICK a, b \in Container : a = HelperContainer("berth-acquire", FALSE) /\ b = HelperContainer("berth-sidecar", TRUE)
      BY <1>1, Known, HelperIs
    <3>2. q.init \in Seq(Container)
      BY <2>1 DEF Pod
    <3>3. r.init = <<a, b>> \o q.init \/ r.init = <<a>> \o q.init
      BY <2>3, <3>1, Zenon DEF Gate
    <3>4. \A s \in Seq(Container) : /\ <<a, b>> \o s # <<>> /\ (<<a, b>> \o s)[1] = a
                                    /\ <<a>> \o s # <<>> /\ (<<a>> \o s)[1] = a
      BY <3>1
    <3> QED BY <3>1, <3>2, <3>3, <3>4, Zenon
  <2>8. \A c \in Range(r.eph) : Harmless(c)
    BY <1>7, <2>3, Zenon DEF MountsAllowed, Harmless
  <2>9. pod' = r /\ config' = config /\ meddled' = meddled
    BY <1>2, <1>7, <2>2
  <2>10. Injected'
    BY <2>3, <2>4, <2>5, <2>6, <2>7, <2>8, <2>9, Later DEF Injected
  <2> QED BY <1>4, <1>7, <2>3, <2>9, <2>10 DEF JInv
<1> QED BY <1>3, <1>5, <1>6, <1>7, Zenon
\* Another injector leaves the gate alone or adds to it.
LEMMA Touched ==
  ASSUME JInv, stage = "mutated", stage' = stage, meddled' = TRUE, UNCHANGED <<setup, config>>,
         NEW main \in Seq(Container), NEW init \in Seq(Container),
         init = pod.init \/ Len(init) = Len(pod.init) + 1,
         pod' = [pod EXCEPT !.main = main, !.init = init]
  PROVE  JInv'
<1>1. setup \in DOMAIN Setups /\ config \in InjectorConfig /\ ConfigValid(config) /\ pod \in Pod
  BY Zenon DEF JInv
<1>2. PICK r : r = pod'
  OBVIOUS
<1>3. /\ r \in Pod /\ r.ann = pod.ann /\ r.optin = pod.optin /\ r.controlPlane = pod.controlPlane
      /\ r.eph = pod.eph /\ r.init = init
  BY <1>1, <1>2 DEF Pod
<1>4. (setup \in DOMAIN Setups)' /\ (config \in InjectorConfig)' /\ ConfigValid(config)' /\ (pod \in Pod)'
  BY <1>1, <1>2, <1>3 DEF ConfigValid
<1>5. (OptedIn(r) <=> OptedIn(pod)) /\ (Runtime(r) <=> Runtime(pod))
  BY <1>3, SameAnn, SameOptIn, Zenon
<1>6. ASSUME OptedIn(r) PROVE Injected'
  <2>1. Injected
    BY <1>5, <1>6 DEF JInv
  <2>2. Runtime(r) => r.init = Gate \/ Len(r.init) > 2
    <3>1. Len(Gate) = 2
      BY DEF Gate
    <3>2. Len(pod.init) \in Nat
      BY <1>1 DEF Pod
    <3>3. Runtime(r) => pod.init = Gate \/ Len(pod.init) > 2
      BY <1>5, <2>1, Zenon DEF Injected
    <3>4. CASE pod.init = Gate
      <4>1. CASE init = pod.init
        BY <1>3, <3>4, <4>1, Zenon
      <4>2. CASE Len(init) = Len(pod.init) + 1
        <5>1. Len(pod.init) = 2
          BY <3>1, <3>4, Zenon
        <5> QED BY <1>3, <4>2, <5>1
      <4> QED BY <4>1, <4>2
    <3>5. CASE Len(pod.init) > 2
      BY <1>3, <3>2, <3>5
    <3> QED BY <3>3, <3>4, <3>5
  <2>3. \A c \in Range(r.eph) : c.name \in Helpers \/ Harmless(c)
    BY <1>3, <2>1, Zenon DEF Injected
  <2> QED BY <1>2, <2>2, <2>3, Later DEF Injected
<1>7. OptedIn(pod)' <=> OptedIn(r)
  BY <1>2, Later
<1> QED BY <1>4, <1>6, <1>7 DEF JInv

\* Another mutating webhook, between mutation and validation.
LEMMA JMeddle == ASSUME JInv, Meddle PROVE JInv'
<1>1. /\ stage = "mutated" /\ stage' = stage /\ meddled' = TRUE /\ UNCHANGED <<setup, config>>
      /\ pod \in Pod /\ setup \in DOMAIN Setups
  BY Zenon DEF JInv, Meddle
<1>2. pod.main \in Seq(Container) /\ pod.init \in Seq(Container)
  BY <1>1 DEF Pod
<1>3. PICK x \in Meddling :
         \/ x.where = "mount" /\ pod' = [pod EXCEPT !.main[1].mounts = @ \cup {x.what}]
         \/ x.where = "first" /\ pod' = [pod EXCEPT !.init = <<x.what>> \o @]
         \/ x.where = "main" /\ pod' = [pod EXCEPT !.main = Append(@, x.what)]
  BY Zenon DEF Meddle
<1>4. \/ x.where = "mount" /\ x.what \in Mount
      \/ x.where \in {"first", "main"} /\ x.what \in Container
  BY <1>1, <1>3, InjectorAssumption, Zenon DEF Meddling
<1>5. CASE x.where = "mount" /\ pod' = [pod EXCEPT !.main[1].mounts = @ \cup {x.what}]
  <2> DEFINE main == [pod.main EXCEPT ![1].mounts = @ \cup {x.what}]
  <2>1. x.what \in Mount
    BY <1>4, <1>5
  <2>2. main \in Seq(Container)
    <3>1. \A c \in Container : [c EXCEPT !.mounts = @ \cup {x.what}] \in Container
      BY <2>1 DEF Container
    <3>2. pod.main \in [1 .. Len(pod.main) -> Container] /\ Len(pod.main) \in Nat
      BY <1>2, SeqIs
    <3>3. main \in [1 .. Len(pod.main) -> Container]
      BY <3>1, <3>2
    <3> QED BY <3>2, <3>3, IsSeq
  <2>3. pod' = [pod EXCEPT !.main = main, !.init = pod.init]
    BY <1>1, <1>5 DEF Pod
  <2> HIDE DEF main
  <2> QED BY <1>1, <1>2, <2>2, <2>3, Touched
<1>6. CASE x.where = "first" /\ pod' = [pod EXCEPT !.init = <<x.what>> \o @]
  <2> DEFINE init == <<x.what>> \o pod.init
  <2>1. x.what \in Container
    BY <1>4, <1>6
  <2>2. init \in Seq(Container) /\ Len(init) = Len(pod.init) + 1
    BY <1>2, <2>1
  <2>3. pod' = [pod EXCEPT !.main = pod.main, !.init = init]
    BY <1>1, <1>6 DEF Pod
  <2> HIDE DEF init
  <2> QED BY <1>1, <1>2, <2>2, <2>3, Touched
<1>7. CASE x.where = "main" /\ pod' = [pod EXCEPT !.main = Append(@, x.what)]
  <2> DEFINE main == Append(pod.main, x.what)
  <2>1. x.what \in Container
    BY <1>4, <1>7
  <2>2. main \in Seq(Container)
    BY <1>2, <2>1
  <2>3. pod' = [pod EXCEPT !.main = main, !.init = pod.init]
    BY <1>1, <1>7 DEF Pod
  <2> HIDE DEF main
  <2> QED BY <1>1, <1>2, <2>2, <2>3, Touched
<1> QED BY <1>3, <1>5, <1>6, <1>7

\* The validator changes nothing of the Pod.
LEMMA JValidate == ASSUME JInv, ValidateCreate PROVE JInv'
<1>1. PICK r : r = pod
  OBVIOUS
<1>2. pod' = r /\ UNCHANGED <<setup, config, pod, meddled>> /\ stage = "mutated"
  BY <1>1 DEF ValidateCreate
<1>3. stage' = (IF CreateValid(r) THEN "admitted" ELSE "refused")
  BY <1>1 DEF ValidateCreate
<1>4. (OptedIn(pod)' <=> OptedIn(r)) /\ (CreateValid(pod)' <=> CreateValid(r))
  BY <1>2, Later
<1>5. OptedIn(r) => Injected'
  <2>1. OptedIn(r) => Injected
    BY <1>1, <1>2 DEF JInv
  <2> QED BY <1>1, <1>2, <2>1, Later DEF Injected
<1>6. (setup \in DOMAIN Setups)' /\ (config \in InjectorConfig)' /\ ConfigValid(config)' /\ (pod \in Pod)'
  BY <1>2 DEF JInv, ConfigValid
<1> QED BY <1>3, <1>4, <1>5, <1>6 DEF JInv

\* A debug container: refused if it writes to the state volume.
LEMMA JAttach == ASSUME JInv, Attach PROVE JInv'
<1>0. PICK r : r = pod'
  OBVIOUS
<1>1. PICK c \in Debug : r = pod' /\ r \in {pod, [pod EXCEPT !.eph = <<c>>]} /\ (r # pod => AttachAllowed(r))
  BY <1>0, Zenon DEF Attach
<1>2. /\ stage = "admitted" /\ stage' = stage /\ UNCHANGED <<setup, config, meddled>>
      /\ pod \in Pod /\ setup \in DOMAIN Setups
  BY Zenon DEF Attach, JInv
<1>3. c \in Container
  BY <1>1, <1>2, InjectorAssumption DEF Debug
<1>4. /\ r \in Pod /\ r.ann = pod.ann /\ r.optin = pod.optin /\ r.controlPlane = pod.controlPlane
      /\ r.init = pod.init /\ r.main = pod.main /\ r.env = pod.env /\ r.state = pod.state
      /\ r.share = pod.share
  <2>1. <<c>> \in Seq(Container)
    BY <1>3
  <2>2. CASE r = pod
    BY <1>2, <2>2
  <2>3. CASE r = [pod EXCEPT !.eph = <<c>>]
    BY <1>2, <2>1, <2>3 DEF Pod
  <2> QED BY <1>1, <2>2, <2>3
<1>5. /\ OptedIn(r) <=> OptedIn(pod)
      /\ resolve(r) = resolve(pod) /\ (Runtime(r) <=> Runtime(pod)) /\ freshnessProbe(r) = freshnessProbe(pod)
  BY <1>4, SameAnn, SameOptIn, Zenon
<1>6. CreateValid(r) <=> CreateValid(pod)
  <2>1. Resolves(r) <=> Resolves(pod)
    BY <1>4, <1>5, Zenon DEF Resolves
  <2>2. HelpersOnly(r) <=> HelpersOnly(pod)
    BY <1>4, Zenon DEF HelpersOnly
  <2> QED BY <1>4, <1>5, <2>1, <2>2, Zenon DEF CreateValid
<1>7. ASSUME OptedIn(r) PROVE Injected'
  <2>1. Injected
    BY <1>2, <1>5, <1>7 DEF JInv
  <2>2. \A e \in Range(r.eph) : e.name \in Helpers \/ Harmless(e)
    <3>1. CASE r = pod
      BY <2>1, <3>1, Zenon DEF Injected
    <3>2. CASE r # pod
      BY <1>1, <1>7, <3>2, Zenon DEF AttachAllowed, MountsAllowed, Harmless
    <3> QED BY <3>1, <3>2
  <2>3. /\ ~meddled => /\ CreateValid(r) /\ r.env = buildEnv(resolve(r))
                       /\ r.init # <<>> /\ r.init[1] = HelperContainer("berth-acquire", FALSE)
        /\ Runtime(r) => r.init = Gate \/ Len(r.init) > 2
    BY <1>4, <1>5, <1>6, <2>1, Zenon DEF Injected
  <2>4. pod' = r /\ config' = config /\ meddled' = meddled
    BY <1>1, <1>2
  <2> QED BY <2>2, <2>3, <2>4, Later DEF Injected
<1>8. (OptedIn(pod)' <=> OptedIn(r)) /\ (CreateValid(pod)' <=> CreateValid(r))
  BY <1>1, <1>2, Later
<1>9. (setup \in DOMAIN Setups)' /\ (config \in InjectorConfig)' /\ ConfigValid(config)' /\ (pod \in Pod)'
  BY <1>1, <1>2, <1>4 DEF JInv, ConfigValid
<1>10. CreateValid(pod)
  BY <1>2 DEF JInv
<1> QED BY <1>6, <1>7, <1>8, <1>9, <1>10 DEF JInv

\* Every step keeps the invariant.
LEMMA JNext == JInv /\ [InjectNext]_injectVars => JInv'
<1> SUFFICES ASSUME JInv, [InjectNext]_injectVars PROVE JInv'
  OBVIOUS
<1>1. CASE UNCHANGED injectVars
  <2>1. PICK r : r = pod /\ pod' = r
    BY <1>1 DEF injectVars
  <2>2. UNCHANGED <<setup, config, stage, meddled>>
    BY <1>1 DEF injectVars
  <2>3. (OptedIn(pod)' <=> OptedIn(r)) /\ (CreateValid(pod)' <=> CreateValid(r))
    BY <2>1, <2>2, Later
  <2>4. Injected => Injected'
    BY <2>1, <2>2, Later DEF Injected
  <2>5. (setup \in DOMAIN Setups)' /\ (config \in InjectorConfig)' /\ ConfigValid(config)' /\ (pod \in Pod)'
    BY <2>1, <2>2 DEF JInv, ConfigValid
  <2> QED BY <2>1, <2>2, <2>3, <2>4, <2>5 DEF JInv
<1> QED BY <1>1, JDefault, JMeddle, JValidate, JAttach DEF InjectNext, Settled

\* The invariant holds.
LEMMA JInvariance == InjectSpec => []JInv
BY JInit, JNext, PTL DEF InjectSpec
\* No label or annotation lets an opted-in Pod start without the gate, and an
\* admitted runtime singleton is fenced whatever other injectors and debug
\* sessions add (Default, ValidateCreate), for all Pods and configurations.
THEOREM Fences == InjectSpec => []RuntimeFenced
<1>1. JInv => RuntimeFenced
  <2> SUFFICES ASSUME JInv, Fenced PROVE RuntimeFenced
    BY Zenon DEF RuntimeFenced
  <2>1. pod \in Pod /\ config \in InjectorConfig /\ OptedIn(pod) /\ CreateValid(pod) /\ Injected
    BY DEF JInv, Fenced
  <2>2. ~meddled => pod.init # <<>> /\ pod.init[1] = HelperContainer("berth-acquire", FALSE)
    BY <2>1, Zenon DEF Injected
  <2>3. ASSUME Runtime(pod)
        PROVE  /\ pod.init = Gate
               /\ \A c \in Range(pod.main) :
                    /\ c.liveness = [kind |-> "berth", maxAge |-> resolve(pod).ttl] /\ ~c.startup
                    /\ {m \in c.mounts : m.path \in {"state", "alias", "below"}} = {StateMount(TRUE)}
               /\ \A c \in Range(pod.init \o pod.main \o pod.eph) :
                    (\E m \in c.mounts : Writable(m)) => c.name \in Helpers
    <3>1. /\ HelpersOnly(pod)
          /\ \A c \in Range(pod.main) : ~c.startup /\ c.liveness = freshnessProbe(pod) /\ ProbeMounts(c, TRUE)
      BY <2>1, <2>3, Zenon DEF CreateValid
    <3>2. pod.init = Gate
      <4>1. Len(pod.init) = 2
        BY <3>1, Zenon DEF HelpersOnly
      <4>2. pod.init = Gate \/ Len(pod.init) > 2
        BY <2>1, <2>3, Zenon DEF Injected
      <4> QED BY <4>1, <4>2
    <3>3. pod.init \in Seq(Container) /\ pod.main \in Seq(Container) /\ pod.eph \in Seq(Container)
      BY <2>1 DEF Pod
    <3>4. ASSUME NEW c \in Range(pod.main)
          PROVE  {m \in c.mounts : m.path \in {"state", "alias", "below"}} = {StateMount(TRUE)}
      <4>1. c \in Container
        BY <3>3, SeqIs
      <4>2. \A m \in c.mounts : m \in Mount
        BY <4>1 DEF Container
      <4>3. /\ \E m \in c.mounts : m.path \in {"state", "alias", "below"}
            /\ \A m \in c.mounts : m.path \in {"state", "alias", "below"} =>
                 m.path = "state" /\ m.vol = "berth-state" /\ ~m.sub /\ m.ro
        BY <3>1 DEF ProbeMounts
      <4>4. \A m \in Mount : m.path = "state" /\ m.vol = "berth-state" /\ ~m.sub /\ m.ro => m = StateMount(TRUE)
        BY DEF Mount, StateMount
      <4>5. \A m \in c.mounts : m.path \in {"state", "alias", "below"} => m = StateMount(TRUE)
        BY <4>2, <4>3, <4>4, Zenon
      <4> QED BY <4>3, <4>5
    <3>5. ASSUME NEW c \in Range(pod.init \o pod.main \o pod.eph), NEW m \in c.mounts, Writable(m)
          PROVE  c.name \in Helpers
      <4>1. pod.init \o pod.main \in Seq(Container)
        BY <3>3, Joined
      <4>2. c \in Range(pod.init \o pod.main) \cup Range(pod.eph)
        <5>1. Range((pod.init \o pod.main) \o pod.eph) = Range(pod.init \o pod.main) \cup Range(pod.eph)
          BY <3>3, <4>1, Joined, ZenonT(60)
        <5> QED BY <3>5, <5>1, Zenon
      <4>3. c \in Range(pod.init) \cup Range(pod.main) \cup Range(pod.eph)
        BY <3>3, <4>2, Joined
      <4>4. CASE c \in Range(pod.init)
        <5>1. PICK a, b : a = HelperContainer("berth-acquire", FALSE) /\ b = HelperContainer("berth-sidecar", TRUE)
          OBVIOUS
        <5>2. a.name \in Helpers /\ b.name \in Helpers
          BY <5>1 DEF HelperContainer, Helpers
        <5>3. c \in {a, b}
          <6>1. \A x, y : Range(<<x, y>>) = {x, y}
            BY DEF Range
          <6> QED BY <3>2, <4>4, <5>1, <6>1, Zenon DEF Gate
        <5> QED BY <5>2, <5>3
      <4>5. CASE c \in Range(pod.main)
        BY <3>1, <3>5, <4>5, Zenon DEF ProbeMounts
      <4>6. CASE c \in Range(pod.eph)
        BY <2>1, <3>5, <4>6, Zenon DEF Injected, Harmless
      <4> QED BY <4>3, <4>4, <4>5, <4>6
    <3>6. \A c \in Range(pod.main) : c.liveness = [kind |-> "berth", maxAge |-> resolve(pod).ttl] /\ ~c.startup
      BY <3>1, Zenon DEF freshnessProbe
    <3> QED BY <3>2, <3>4, <3>5, <3>6, Zenon
  <2> QED BY <2>2, <2>3, Zenon DEF RuntimeFenced, Gate
<1> QED BY <1>1, JInvariance, PTL

\* The injector and the validator agree on every Pod (mutate, ValidateCreate).
THEOREM Agree == InjectSpec => []InjectedIsAdmitted
<1>1. JInv => InjectedIsAdmitted
  BY DEF JInv, InjectedIsAdmitted, Injected, CreateValid
<1> QED BY <1>1, JInvariance, PTL

\* Every file the helper's environment names is mounted into it, at a directory
\* of its own (authVolumeMounts, InjectorConfig.Validate), for all configurations.
THEOREM FilesMounted == InjectSpec => []HelperFilesMounted
<1>1. JInv => HelperFilesMounted
  <2> SUFFICES ASSUME JInv, Fenced, ~meddled PROVE HelperFilesMounted
    BY Zenon DEF HelperFilesMounted
  <2>1. /\ config \in InjectorConfig /\ ConfigValid(config) /\ pod.env = buildEnv(resolve(pod))
        /\ pod.init[1] = HelperContainer("berth-acquire", FALSE)
    BY DEF JInv, Fenced, Injected
  <2>2. PICK h, kf, cf : h = pod.init[1] /\ kf = config.keyFile /\ cf = config.caFile
    OBVIOUS
  <2>3. pod.env.keyFile = kf /\ pod.env.caFile = cf
    <3>1. \A r : buildEnv(r).keyFile = config.keyFile /\ buildEnv(r).caFile = config.caFile
      BY DEF buildEnv
    <3> QED BY <2>1, <2>2, <3>1, Zenon
  <2>4. /\ (kf = NoFile) = ~config.keySecret /\ (cf = NoFile) = ~config.caMap
        /\ kf.dir # "state" /\ cf.dir # "state"
        /\ kf = NoFile \/ cf = NoFile \/ kf.dir # cf.dir
    BY <2>1, <2>2, Zenon DEF ConfigValid, MountsDiffer
  <2>5. PICK s, t, u : /\ s = StateMount(FALSE)
                       /\ t = [vol |-> "token", path |-> kf.dir, ro |-> TRUE, sub |-> FALSE]
                       /\ u = [vol |-> "ca", path |-> cf.dir, ro |-> TRUE, sub |-> FALSE]
    OBVIOUS
  <2>6. s.path = "state" /\ t.path = kf.dir /\ u.path = cf.dir /\ t.vol # "berth-state" /\ u.vol # "berth-state"
    BY <2>5 DEF StateMount
  <2>7. h.mounts = {s} \cup (IF config.keySecret THEN {t} ELSE {}) \cup (IF config.caMap THEN {u} ELSE {})
    <3>1. h.mounts = {StateMount(FALSE)} \cup authVolumeMounts
      <4>1. \A n, b : HelperContainer(n, b).mounts = {StateMount(FALSE)} \cup authVolumeMounts
        BY DEF HelperContainer
      <4> QED BY <2>1, <2>2, <4>1, Zenon
    <3> QED BY <2>2, <2>5, <3>1 DEF authVolumeMounts
  <2>8. \A f \in {kf, cf} \ {NoFile} : \E m \in h.mounts : m.path = f.dir /\ m.vol # "berth-state"
    BY <2>4, <2>6, <2>7
  <2>9. \A m, n \in h.mounts : m.path = n.path => m = n
    BY <2>4, <2>6, <2>7
  <2> QED BY <2>2, <2>3, <2>8, <2>9, Zenon DEF HelperFilesMounted
<1> QED BY <1>1, JInvariance, PTL

\* A number of seconds that fits is not wrapped by the conversion.
LEMMA Fits ==
  ASSUME NEW n \in Nat, n * Second <= MaxDuration
  PROVE  Duration(n) = n * Second
<1> DEFINE M == MaxDuration + 1
           a == n * Second
<1>1. M \in Nat \ {0} /\ a \in Nat /\ a < M
  BY InjectorAssumption
<1> HIDE DEF M, a
<1>2. (a + M) % (2 * M) = a + M
  BY <1>1
<1>3. Duration(n) = ((a + M) % (2 * M)) - M
  BY InjectorAssumption DEF Duration, M, a
<1>4. Duration(n) = a
  BY <1>1, <1>2, <1>3
<1> QED BY <1>4 DEF a
\* The durations the helper reads are the numbers the injector resolved.
LEMMA EnvRead ==
  ASSUME NEW r, r.ttl \in Int, r.ttl > 0, r.ttl <= MaxTTL, r.heartbeat \in Int, HeartbeatFits(r),
         r.grace \in Int, r.grace >= 0, r.grace * Second <= MaxDuration
  PROVE  LET c == ConfigFromEnv(buildEnv(r)) IN
         /\ c.ttl = r.ttl * Second /\ c.heartbeat = r.heartbeat * Second /\ c.grace = r.grace * Second
         /\ c.lease = r.lease /\ c.mode = r.mode /\ c.enforce = r.enforce /\ c.holder = r.holder
         /\ c.target = (IF r.enforce = "signal" THEN r.target ELSE "")
         /\ c.release = r.release /\ c.apiServer = config.apiServer
<1>1. PICK e : e = buildEnv(r)
  OBVIOUS
<1>2. /\ e.ttl = <<r.ttl>>
      /\ e.heartbeat = IF r.heartbeat > 0 THEN <<r.heartbeat>> ELSE <<>>
      /\ e.grace = IF r.grace > 0 THEN <<r.grace>> ELSE <<>>
      /\ e.lease = r.lease /\ e.mode = r.mode /\ e.enforce = r.enforce /\ e.holder = r.holder
      /\ e.target = (IF r.enforce = "signal" THEN r.target ELSE "")
      /\ e.release = r.release /\ e.apiServer = config.apiServer
  BY <1>1 DEF buildEnv
<1>3. \A n \in Int : intAnn(<<n>>, 0) = n /\ intAnn(<<>>, 0) = 0
  BY DEF intAnn
<1>4. intAnn(e.ttl, 0) = r.ttl /\ intAnn(e.heartbeat, 0) = r.heartbeat /\ intAnn(e.grace, 0) = r.grace
  <2>1. (r.heartbeat > 0 \/ r.heartbeat = 0) /\ (r.grace > 0 \/ r.grace = 0)
    BY DEF HeartbeatFits
  <2> QED BY <1>2, <1>3, <2>1
<1>5. r.ttl * Second <= MaxDuration /\ r.heartbeat * Second <= MaxDuration
  <2>1. r.ttl \in Nat /\ r.heartbeat \in Nat /\ r.heartbeat <= MaxTTL
    BY InjectorAssumption, SMTT(60) DEF HeartbeatFits
  <2>2. \A x \in Nat : x <= MaxTTL => x * Second <= MaxTTL * Second
    BY InjectorAssumption
  <2>3. r.ttl * Second <= MaxTTL * Second /\ r.heartbeat * Second <= MaxTTL * Second
    BY <2>1, <2>2
  <2>4. r.ttl * Second \in Nat /\ r.heartbeat * Second \in Nat /\ MaxTTL * Second \in Nat
    BY <2>1, InjectorAssumption
  <2> QED BY <2>3, <2>4, InjectorAssumption
<1>6. /\ Duration(r.ttl) = r.ttl * Second /\ Duration(r.heartbeat) = r.heartbeat * Second
      /\ Duration(r.grace) = r.grace * Second
  <2>1. r.ttl \in Nat /\ r.heartbeat \in Nat /\ r.grace \in Nat
    BY DEF HeartbeatFits
  <2> QED BY <1>5, <2>1, Fits, Zenon
<1>7. LET c == ConfigFromEnv(e) IN
      /\ c.ttl = Duration(intAnn(e.ttl, 0)) /\ c.heartbeat = Duration(intAnn(e.heartbeat, 0))
      /\ c.grace = Duration(intAnn(e.grace, 0))
      /\ c.lease = e.lease /\ c.mode = e.mode /\ c.enforce = e.enforce /\ c.holder = e.holder
      /\ c.target = e.target /\ c.release = e.release /\ c.apiServer = e.apiServer
  BY DEF ConfigFromEnv, secondsEnv
<1> QED BY <1>1, <1>2, <1>4, <1>6, <1>7, Zenon

\* What the defaults change.
LEMMA Defaulted ==
  ASSUME NEW e, NEW c, c = ConfigFromEnv(e), c.mode \in Modes, c.enforce \in Enforcements
  PROVE  LET d == ApplyDefaults(c) IN
         /\ d.ttl = c.ttl /\ d.grace = c.grace /\ d.lease = c.lease /\ d.mode = c.mode
         /\ d.enforce = c.enforce /\ d.holder = c.holder /\ d.target = c.target
         /\ d.apiServer = c.apiServer
         /\ d.heartbeat = IF c.heartbeat <= 0 /\ c.ttl > 0 THEN c.ttl \div 3 ELSE c.heartbeat
<1>1. c.mode # "" /\ c.enforce # ""
  BY DEF Modes, Enforcements
<1>2. orDefault(c.mode, "runtime-singleton") = c.mode /\ orDefault(c.enforce, "probe") = c.enforce
  BY <1>1 DEF orDefault
<1> DEFINE hb == IF c.heartbeat <= 0 /\ c.ttl > 0 THEN c.ttl \div 3 ELSE c.heartbeat
           rel == orDefault(c.release, IF c.mode = "startup-gate" THEN "false" ELSE "true")
<1>3. ApplyDefaults(c) = [c EXCEPT !.mode = c.mode, !.enforce = c.enforce, !.heartbeat = hb, !.release = rel]
  BY <1>2, Zenon DEF ApplyDefaults
<1> HIDE DEF hb, rel
<1>4. LET d == ApplyDefaults(c) IN
      /\ d.ttl = c.ttl /\ d.grace = c.grace /\ d.lease = c.lease /\ d.mode = c.mode
      /\ d.enforce = c.enforce /\ d.holder = c.holder /\ d.target = c.target
      /\ d.apiServer = c.apiServer /\ d.heartbeat = hb
  BY <1>3 DEF ConfigFromEnv
<1> QED BY <1>4 DEF hb

\* The helper of an admitted Pod accepts its environment, with the TTL of the
\* probe and a heartbeat within it (ConfigFromEnv, Config.Validate), for all
\* annotations and configurations.
THEOREM Starts == InjectSpec => []HelperStarts
<1>1. JInv => HelperStarts
  <2> SUFFICES ASSUME JInv, Fenced, ~meddled, ~pod.long, resolve(pod).grace * Second <= MaxDuration
               PROVE  HelperStarts
    BY Zenon DEF HelperStarts
  <2>1. /\ config \in InjectorConfig /\ ConfigValid(config) /\ pod \in Pod /\ OptedIn(pod)
        /\ CreateValid(pod) /\ pod.env = buildEnv(resolve(pod))
    BY DEF JInv, Fenced, Injected
  <2>2. PICK r : r = resolve(pod)
    OBVIOUS
  <2>3. r.ttl \in Int /\ r.heartbeat \in Int /\ r.grace \in Int
    BY <2>1, <2>2, ResolveIs
  <2>4. /\ r.lease # "" /\ r.mode \in Modes /\ r.enforce \in Enforcements
        /\ (r.mode = "runtime-singleton" /\ r.enforce = "signal") => r.target # ""
        /\ r.ttl > 0 /\ r.ttl <= MaxTTL /\ HeartbeatFits(r) /\ r.grace >= 0
    BY <2>1, <2>2, Zenon DEF CreateValid, Resolves, TTLInRange
  <2>5. PICK c : c = ConfigFromEnv(buildEnv(r))
    OBVIOUS
  <2>6. /\ c.ttl = r.ttl * Second /\ c.heartbeat = r.heartbeat * Second /\ c.grace = r.grace * Second
        /\ c.lease = r.lease /\ c.mode = r.mode /\ c.enforce = r.enforce /\ c.holder = r.holder
        /\ c.target = (IF r.enforce = "signal" THEN r.target ELSE "")
        /\ c.apiServer = config.apiServer
    BY <2>2, <2>3, <2>4, <2>5, EnvRead, Zenon
  <2>7. PICK d : d = HelperConfig(pod)
    OBVIOUS
  <2>8. d = ApplyDefaults(c)
    BY <2>1, <2>2, <2>5, <2>7, Zenon DEF HelperConfig
  <2>9. /\ d.ttl = c.ttl /\ d.grace = c.grace /\ d.lease = c.lease /\ d.mode = c.mode
        /\ d.enforce = c.enforce /\ d.holder = c.holder /\ d.target = c.target
        /\ d.apiServer = c.apiServer
        /\ d.heartbeat = IF c.heartbeat <= 0 /\ c.ttl > 0 THEN c.ttl \div 3 ELSE c.heartbeat
    <3>1. c.mode \in Modes /\ c.enforce \in Enforcements
      BY <2>4, <2>6, Zenon
    <3> QED BY <2>5, <2>8, <3>1, Defaulted
  <2>10. d.ttl > 0 /\ d.ttl <= MaxTTL * Second /\ d.heartbeat > 0 /\ d.heartbeat < d.ttl /\ d.grace >= 0
    <3>0. r.ttl > 0 /\ r.grace >= 0 /\ r.heartbeat >= 0 /\ (r.heartbeat > 0 => r.heartbeat < r.ttl)
      BY <2>4, Zenon DEF HeartbeatFits
    <3>1. Second \in Nat /\ Second >= 3 /\ MaxTTL \in Nat
      BY InjectorAssumption
    <3>2. PICK T \in Int, H \in Int, G \in Int, X \in Int :
            T = r.ttl * Second /\ H = r.heartbeat * Second /\ G = r.grace * Second /\ X = MaxTTL * Second
      BY <2>3, <3>1
    <3>3. T >= 3 /\ T <= X /\ G >= 0
      <4>1. \A x \in Nat : /\ x * Second >= 0 /\ (x > 0 => x * Second >= Second)
                           /\ (x <= MaxTTL => x * Second <= MaxTTL * Second)
        BY <3>1
      <4>2. r.ttl \in Nat /\ r.grace \in Nat
        BY <2>3, <3>0
      <4>3. T >= Second /\ T <= X /\ G >= 0
        BY <2>4, <3>2, <4>1, <4>2, Zenon
      <4> QED BY <3>1, <4>3
    <3>4. d.ttl = T /\ d.grace = G /\ d.heartbeat = IF H <= 0 /\ T > 0 THEN T \div 3 ELSE H
      BY <2>6, <2>9, <3>2, Zenon
    <3>5. H = 0 \/ (H > 0 /\ H < T)
      <4>1. r.heartbeat = 0 \/ (r.heartbeat > 0 /\ r.heartbeat < r.ttl)
        BY <2>3, <3>0
      <4>2. CASE r.heartbeat = 0
        BY <3>1, <3>2, <4>2
      <4>3. CASE r.heartbeat > 0 /\ r.heartbeat < r.ttl
        BY <2>3, <3>1, <3>2, <4>3
      <4> QED BY <4>1, <4>2, <4>3
    <3>6. T \div 3 > 0 /\ T \div 3 < T
      BY <3>3
    <3>7. d.ttl > 0 /\ d.ttl <= X /\ d.heartbeat > 0 /\ d.heartbeat < d.ttl /\ d.grace >= 0
      BY <3>3, <3>4, <3>5, <3>6
    <3> QED BY <3>2, <3>7, Zenon
  <2>11. d.apiServer
    BY <2>1, <2>6, <2>9 DEF ConfigValid
  <2>12. HelperValid(d, pod.long)
    BY <2>4, <2>6, <2>9, <2>10, <2>11, Zenon DEF HelperValid
  <2>13. d.mode = r.mode /\ d.grace = r.grace * Second
    BY <2>6, <2>9, Zenon
  <2>14. ASSUME Runtime(pod), NEW x \in Range(pod.main) PROVE x.liveness.maxAge * Second = d.ttl
    <3>1. x.liveness = freshnessProbe(pod)
      BY <2>1, <2>14, Zenon DEF CreateValid
    <3>2. x.liveness.maxAge = r.ttl
      BY <2>2, <3>1 DEF freshnessProbe
    <3> QED BY <2>6, <2>9, <3>2, Zenon
  <2> QED BY <2>2, <2>7, <2>12, <2>13, <2>14, Zenon DEF HelperStarts
<1> QED BY <1>1, JInvariance, PTL
=============================================================================
