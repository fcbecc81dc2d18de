------------------------------- MODULE Renewer -------------------------------
(***************************************************************************)
(* The injected helper of a gated Pod (internal/acquire): the init         *)
(* container's Hold loop, then the sidecar's Renewer, which keeps a health *)
(* marker on the state volume while it can prove that it holds the lease.  *)
(* The Pods compete for one lease of the service FencedLease specifies,    *)
(* over a network that loses and delays requests and replies.              *)
(*                                                                         *)
(* Time: all local clocks advance at the rate of true time, and a helper   *)
(* that is up acts on a deadline before time moves past it.                *)
(***************************************************************************)
EXTENDS FencedLease, FiniteSets

CONSTANTS
  Lease,          \* the key the Pods compete for
  TTL,            \* cfg.TTL
  Heartbeat,      \* cfg.HeartbeatInterval
  ClientTimeout,  \* the API client's timeout, which bounds the Hold loop's calls
  Faulty,         \* the Pods whose writes to the state volume may fail
  MaxClock,       \* bound of the model on time
  MaxCrashes      \* bound of the model on helper crashes

ASSUME RenewerAssumption ==
  /\ Key = {Lease} /\ TTLs = {TTL} /\ Skew = 0 /\ NoHolder \notin Holder
  /\ TTL \in Nat /\ Heartbeat \in Nat \ {0} /\ Heartbeat < TTL
  /\ ClientTimeout \in Nat \ {0}
  /\ MaxClock \in Nat /\ MaxCrashes \in Nat

ASSUME FaultyAssumption == Faulty \subseteq Holder

VARIABLES
  phase,    \* "init": in Hold; "boot": sidecar to start for the first time, main
            \* container still to come; "run"; "down": sidecar to be restarted
            \* while the main container runs; "stopped": Pod gone
  held, myToken, expiresAt,   \* the Renewer's runtime state
  saved,    \* the token on the state volume, 0 if none
  marker,   \* when the health marker was last written, Absent if removed
  rpc,      \* the call a helper waits for
  net,      \* requests the service has not yet processed
  crashes,
  granted   \* history: when the last grant to each Pod ends at the service

podVars == <<phase, held, myToken, expiresAt, saved, marker>>
vars == <<leaseVars, clock, podVars, rpc, net, crashes, granted>>

Absent == -1

Unconfirmed == 0   \* a zero expiresAt

NoCall == [op |-> "none"]
Call == [op : {"acquire", "renew"}, started : Nat, deadline : Nat,
         reply : {"none", "granted", "denied"}, token : Nat]

-----------------------------------------------------------------------------
\* A request leaves; "live" while its sender still waits for it.
Send(p, op, tok, deadline) ==
  /\ rpc' = [rpc EXCEPT ![p] = [op |-> op, started |-> clock, deadline |-> deadline,
                                reply |-> "none", token |-> 0]]
  /\ net' = net \cup {[pod |-> p, op |-> op, token |-> tok, live |-> TRUE]}

\* The sender stops waiting; its request may still be processed.
Abandoned(p) == {[m EXCEPT !.live = m.live /\ m.pod # p] : m \in net}

Return(p) ==
  /\ rpc' = [rpc EXCEPT ![p] = NoCall]
  /\ net' = Abandoned(p)

Expired == clock > expires[Lease]

\* The manager's decision on a request, as one step of the service.
Grants(m) ==
  LET mine == holder[Lease] = m.pod /\ ~Expired
      free == holder[Lease] = NoHolder \/ Expired
  IN /\ expires' = [expires EXCEPT ![Lease] = clock + TTL]
     /\ \/ m.op = "acquire" /\ mine /\ Extend(Lease)
        \/ m.op = "acquire" /\ ~mine /\ free /\ Claim(Lease, m.pod)
        \/ m.op = "renew" /\ mine /\ token[Lease] = m.token /\ Extend(Lease)

\* A denial has no effect.  A renewal can be denied for a lost race, too.
Denies(m) ==
  /\ \/ m.op = "acquire" /\ holder[Lease] \notin {NoHolder, m.pod} /\ ~Expired
     \/ m.op = "renew"
  /\ UNCHANGED leaseVars

Releases(m) ==
  /\ m.op = "release"
  /\ IF holder[Lease] = m.pod /\ token[Lease] = m.token
     THEN expires' = [expires EXCEPT ![Lease] = clock] /\ Vacate(Lease)
     ELSE UNCHANGED leaseVars

Answer(m, res) ==
  rpc' = IF m.live THEN [rpc EXCEPT ![m.pod].reply = res, ![m.pod].token = token'[Lease]]
         ELSE rpc

\* An abandoned request stays: it stands for any number of identical ones, to be
\* processed at any later time or never.
Serve(m) ==
  /\ net' = IF m.live THEN net \ {m} ELSE net
  /\ \/ Grants(m) /\ Answer(m, "granted") /\ granted' = [granted EXCEPT ![m.pod] = clock + TTL]
     \/ Denies(m) /\ Answer(m, "denied") /\ UNCHANGED granted
     \/ Releases(m) /\ UNCHANGED <<rpc, granted>>
  /\ UNCHANGED <<clock, podVars, crashes>>

Lose(m) ==
  /\ m.live
  /\ net' = net \ {m}
  /\ UNCHANGED <<leaseVars, clock, podVars, rpc, crashes, granted>>

Outside == UNCHANGED <<leaseVars, clock, crashes, granted>>

-----------------------------------------------------------------------------
\* State.MarkHealthy and MarkUnhealthy; on a faulty volume the file may stay as it is.
MarkHealthy(p) ==
  \/ marker' = [marker EXCEPT ![p] = clock]
  \/ p \in Faulty /\ UNCHANGED marker

MarkUnhealthy(p) ==
  \/ marker' = [marker EXCEPT ![p] = Absent]
  \/ p \in Faulty /\ UNCHANGED marker

\* The token file of State.WriteAcquired.
SaveToken(p, tok) ==
  \/ saved' = [saved EXCEPT ![p] = tok]
  \/ p \in Faulty /\ UNCHANGED saved

\* Hold's Acquire.
HoldSend(p) ==
  /\ phase[p] = "init" /\ rpc[p] = NoCall
  /\ Send(p, "acquire", 0, clock + ClientTimeout)
  /\ Outside /\ UNCHANGED podVars

\* Hold's switch.  If the state or the check binary cannot be written the init
\* container fails and is run again.
HoldReceive(p) ==
  /\ phase[p] = "init" /\ rpc[p] # NoCall /\ rpc[p].reply # "none"
  /\ \/ /\ rpc[p].reply = "granted"
        /\ \/ /\ saved' = [saved EXCEPT ![p] = rpc[p].token]
              /\ marker' = [marker EXCEPT ![p] = clock]
              /\ phase' = [phase EXCEPT ![p] = "boot"]
           \/ /\ p \in Faulty /\ SaveToken(p, rpc[p].token) /\ MarkHealthy(p)
              /\ saved'[p] = rpc[p].token \/ UNCHANGED marker
              /\ UNCHANGED phase
     \/ rpc[p].reply = "denied" /\ UNCHANGED <<phase, saved, marker>>
  /\ Return(p)
  /\ Outside /\ UNCHANGED <<held, myToken, expiresAt>>

HoldError(p) ==
  /\ phase[p] = "init" /\ rpc[p] # NoCall
  /\ Return(p)
  /\ Outside /\ UNCHANGED podVars

\* Mutant: the sidecar trusts the handoff and leaves the gate as it is.
BootTrusting(p) ==
  /\ phase[p] \in {"boot", "down"}
  /\ held' = [held EXCEPT ![p] = saved[p] > 0]
  /\ myToken' = [myToken EXCEPT ![p] = saved[p]]
  /\ expiresAt' = [expiresAt EXCEPT ![p] = clock + TTL]
  /\ phase' = [phase EXCEPT ![p] = "run"]
  /\ Outside /\ UNCHANGED <<saved, marker, rpc, net>>

\* Run's start: loadHandoff, then the gate is closed; if that fails the sidecar
\* exits and is restarted.
Boot(p) ==
  /\ phase[p] \in {"boot", "down"}
  /\ held' = [held EXCEPT ![p] = saved[p] > 0]
  /\ myToken' = [myToken EXCEPT ![p] = saved[p]]
  /\ expiresAt' = [expiresAt EXCEPT ![p] = Unconfirmed]
  /\ marker' = [marker EXCEPT ![p] = Absent]
  /\ phase' = [phase EXCEPT ![p] = "run"]
  /\ Outside /\ UNCHANGED <<saved, rpc, net>>

lose(p) ==
  /\ held' = [held EXCEPT ![p] = FALSE]
  /\ MarkUnhealthy(p)

Confirmed(p) == expiresAt[p] # Unconfirmed
PastDeadline(p) == Confirmed(p) /\ clock >= expiresAt[p]

\* Mutant: the deadline of the lease that was lost bounds the call for a new one.
CallDeadlineOfLost(p) ==
  IF Confirmed(p) /\ expiresAt[p] < clock + Heartbeat
  THEN expiresAt[p] ELSE clock + Heartbeat

\* tickCtx
CallDeadline(p) ==
  IF held[p] /\ Confirmed(p) /\ expiresAt[p] < clock + Heartbeat
  THEN expiresAt[p] ELSE clock + Heartbeat

\* The expiry timer, and tickHeld's check before it calls.
Expire(p) ==
  /\ phase[p] = "run" /\ rpc[p] = NoCall /\ held[p] /\ PastDeadline(p)
  /\ lose(p)
  /\ Outside /\ UNCHANGED <<phase, myToken, expiresAt, saved, rpc, net>>

TickHeld(p) ==
  /\ phase[p] = "run" /\ rpc[p] = NoCall /\ held[p] /\ ~PastDeadline(p)
  /\ Send(p, "renew", myToken[p], CallDeadline(p))
  /\ Outside /\ UNCHANGED podVars

TickReacquire(p) ==
  /\ phase[p] = "run" /\ rpc[p] = NoCall /\ ~held[p]
  /\ MarkUnhealthy(p)
  /\ Send(p, "acquire", 0, CallDeadline(p))
  /\ Outside /\ UNCHANGED <<phase, held, myToken, expiresAt, saved>>

Waiting(p, op) == phase[p] = "run" /\ rpc[p] # NoCall /\ rpc[p].op = op

\* Mutant: any successful reply proves ownership.
LateByReplyTime(p) == FALSE

\* A successful reply that comes too late to prove ownership.
Late(p) ==
  \/ clock >= rpc[p].deadline
  \/ clock >= rpc[p].started + TTL
  \/ held[p] /\ PastDeadline(p)

\* The lifetime is counted from before the request was sent.
NewDeadline(p) == rpc[p].started + TTL

\* tickHeld's switch on a reply.
RenewReceive(p) ==
  /\ Waiting(p, "renew") /\ rpc[p].reply # "none"
  /\ \/ /\ rpc[p].reply = "denied" \/ Late(p)
        /\ lose(p) /\ UNCHANGED <<myToken, expiresAt>>
     \/ /\ rpc[p].reply = "granted" /\ ~Late(p)
        /\ myToken' = [myToken EXCEPT ![p] = rpc[p].token]
        /\ expiresAt' = [expiresAt EXCEPT ![p] = NewDeadline(p)]
        /\ MarkHealthy(p) /\ UNCHANGED held
  /\ Return(p)
  /\ Outside /\ UNCHANGED <<phase, saved>>

\* tickHeld on an error: the call failed or its context ran out.  A conflict
\* loses the lease; another error does once no lifetime is left.
RenewError(p) ==
  /\ Waiting(p, "renew")
  /\ \/ lose(p)
     \/ Confirmed(p) /\ ~PastDeadline(p) /\ UNCHANGED <<held, marker>>
  /\ Return(p)
  /\ Outside /\ UNCHANGED <<phase, myToken, expiresAt, saved>>

\* tickReacquire's switch; without a timely grant the gate stays closed.
AcquireReceive(p) ==
  /\ Waiting(p, "acquire") /\ rpc[p].reply # "none"
  /\ \/ /\ rpc[p].reply = "denied" \/ Late(p)
        /\ UNCHANGED <<held, myToken, expiresAt, saved, marker>>
     \/ /\ rpc[p].reply = "granted" /\ ~Late(p)
        /\ held' = [held EXCEPT ![p] = TRUE]
        /\ myToken' = [myToken EXCEPT ![p] = rpc[p].token]
        /\ expiresAt' = [expiresAt EXCEPT ![p] = NewDeadline(p)]
        /\ SaveToken(p, rpc[p].token) /\ MarkHealthy(p)
  /\ Return(p)
  /\ Outside /\ UNCHANGED phase

AcquireError(p) ==
  /\ Waiting(p, "acquire")
  /\ Return(p)
  /\ Outside /\ UNCHANGED podVars

-----------------------------------------------------------------------------
\* The sidecar dies; what it wrote to the state volume stays.
Crash(p) ==
  /\ phase[p] = "run"
  /\ crashes < MaxCrashes
  /\ crashes' = crashes + 1
  /\ phase' = [phase EXCEPT ![p] = "down"]
  /\ held' = [held EXCEPT ![p] = FALSE]
  /\ Return(p)
  /\ UNCHANGED <<leaseVars, clock, granted, myToken, expiresAt, saved, marker>>

\* The Pod is deleted.  Kubernetes stops the main containers before a native
\* sidecar, whose shutdown may then release the lease (ReleaseOnShutdown).
Shutdown(p) ==
  /\ phase[p] = "run"
  /\ phase' = [phase EXCEPT ![p] = "stopped"]
  /\ rpc' = [rpc EXCEPT ![p] = NoCall]
  /\ \/ net' = Abandoned(p)
     \/ /\ held[p]
        /\ net' = Abandoned(p) \cup
                    {[pod |-> p, op |-> "release", token |-> myToken[p], live |-> FALSE]}
  /\ Outside /\ UNCHANGED <<held, myToken, expiresAt, saved, marker>>

\* A helper that is up acts on its deadlines in time.
Punctual(p) ==
  /\ rpc[p] # NoCall => clock < rpc[p].deadline
  /\ (phase[p] = "run" /\ rpc[p] = NoCall /\ held[p]) => ~PastDeadline(p)

Tick ==
  /\ clock < MaxClock
  /\ \A p \in Holder : Punctual(p)
  /\ Advance
  /\ UNCHANGED <<podVars, rpc, net, crashes, granted>>

AllStopped ==
  /\ \A p \in Holder : phase[p] = "stopped"
  /\ UNCHANGED vars

Init ==
  /\ LeaseInit
  /\ phase = [p \in Holder |-> "init"]
  /\ held = [p \in Holder |-> FALSE]
  /\ myToken = [p \in Holder |-> 0]
  /\ expiresAt = [p \in Holder |-> Unconfirmed]
  /\ saved = [p \in Holder |-> 0]
  /\ marker = [p \in Holder |-> Absent]
  /\ rpc = [p \in Holder |-> NoCall]
  /\ net = {}
  /\ crashes = 0
  /\ granted = [p \in Holder |-> 0]

Helper(p) ==
  \/ HoldSend(p) \/ HoldReceive(p) \/ HoldError(p) \/ Boot(p)
  \/ Expire(p) \/ TickHeld(p) \/ TickReacquire(p)
  \/ RenewReceive(p) \/ RenewError(p) \/ AcquireReceive(p) \/ AcquireError(p)

Next ==
  \/ \E p \in Holder : Helper(p) \/ Crash(p) \/ Shutdown(p)
  \/ \E m \in net : Serve(m) \/ Lose(m)
  \/ Tick
  \/ AllStopped

Spec == Init /\ [][Next]_vars

\* A helper's loop goes on, and its calls do not fail for ever: some request is
\* served while its sender waits, and some reply is received in time.
FairSpec ==
  /\ Spec
  /\ \A p \in Holder \ Faulty :
       /\ WF_vars(Helper(p))
       /\ SF_vars(\E m \in net : m.pod = p /\ m.live /\ Serve(m))
       /\ SF_vars(AcquireReceive(p))

-----------------------------------------------------------------------------
\* The state of the helpers, the network and the service stays well-formed; a
\* Renewer's deadline is the zero time or a time of the clock.
TypeOK ==
  /\ holder \in [Key -> Holder \cup {NoHolder}] /\ token \in [Key -> Nat]
  /\ expires \in [Key -> Nat] /\ clock \in 0 .. MaxClock
  /\ phase \in [Holder -> {"init", "boot", "run", "down", "stopped"}]
  /\ held \in [Holder -> BOOLEAN] /\ myToken \in [Holder -> Nat]
  /\ expiresAt \in [Holder -> Nat] /\ saved \in [Holder -> Nat]
  /\ marker \in [Holder -> Nat \cup {Absent}]
  /\ rpc \in [Holder -> Call \cup {NoCall}]
  /\ net \subseteq [pod : Holder, op : {"acquire", "renew", "release"},
                     token : Nat, live : BOOLEAN]
  /\ crashes \in 0 .. MaxCrashes /\ granted \in [Holder -> Nat]

\* While the sidecar runs and can write its state volume, the health marker it
\* keeps is proof of the lease: the service has the Pod as holder under the
\* sidecar's own token, unexpired.
\* Neither lost, late nor reordered messages nor a restart from the handoff
\* files open the gate of a Pod whose lease has run out.
MarkerProvesLease ==
  \A p \in Holder \ Faulty : (phase[p] = "run" /\ marker[p] # Absent) =>
    /\ holder[Lease] = p
    /\ token[Lease] = myToken[p]
    /\ clock <= expires[Lease]

FreeFor(p) == holder[Lease] \in {NoHolder, p} \/ Expired

\* tickReacquire's promise after a loss: a running sidecar whose lease stays free
\* or its own opens the gate again and again, whatever calls it has lost, given
\* up or had answered too late before.
Reacquires ==
  \A p \in Holder \ Faulty :
    <>[](phase[p] = "run" /\ FreeFor(p)) => []<>(marker[p] # Absent)

\* EvaluateMarker with --max-age = TTL
Fresh(p) == marker[p] # Absent /\ clock - marker[p] <= TTL

\* The probe's freshness bound as the backstop when the sidecar is dead or
\* cannot remove the marker: the probe of a main container passes for less
\* than one heartbeat beyond the end of the last lease granted to its Pod.
FreshnessBackstop ==
  \A p \in Holder : (phase[p] \in {"run", "down"} /\ Fresh(p)) =>
    clock < granted[p] + Heartbeat
=============================================================================
