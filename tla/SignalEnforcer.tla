--------------------------- MODULE SignalEnforcer ----------------------------
(***************************************************************************)
(* Enforcement by signals (internal/acquire/enforce.go): the sidecar's     *)
(* signalEnforcer over the processes of a Pod, driven by the loss, the     *)
(* heartbeats and the recovery of the lease (renew.go), while containers   *)
(* start and end and the sidecar restarts.                                 *)
(***************************************************************************)
EXTENDS Naturals, FiniteSets, Functions

CONSTANTS
  Pid,         \* process ids of the Pod, given out any number of times
  Beat, Grace,
  Never,
  MaxTime, MaxFaults   \* bounds of the model

ASSUME SignalAssumption ==
  Beat \in Nat \ {0} /\ Grace \in Nat /\ Never \notin Nat

VARIABLES
  proc,       \* live processes: kind, stubborn, guarded, and (history) termed, born, heir
  termedAt,   \* signalEnforcer.termedAt
  healthy,     \* the health marker exists
  leased, nextTick, now, faults,
  lost,       \* history: when the lease was last lost or unconfirmed
  calm        \* history: when something last failed

faultVars == <<faults, calm>>
signalVars == <<proc, termedAt, healthy, leased, nextTick, now, faultVars, lost>>

-----------------------------------------------------------------------------
\* workloadPIDs: the target's processes, not the helper's own or a sidecar's.
workloadPIDs == {pid \in DOMAIN proc : proc[pid].kind = "target"}

\* Hold's two cases for a process it finds.
Terms == {pid \in workloadPIDs : pid \notin DOMAIN termedAt}

\* Mutant: the grace period is over a moment early.
KillsEarly == {pid \in workloadPIDs \ Terms : now - termedAt[pid] + 1 >= Grace}

Kills == {pid \in workloadPIDs \ Terms : now - termedAt[pid] >= Grace}

Delivered(pids) == {pid \in pids : ~proc[pid].guarded}

\* Mutant: only a process never signalled before is signalled.
SignalsOnce ==
  /\ proc' = [pid \in DOMAIN proc |->
       IF pid \in Delivered(Terms) THEN [proc[pid] EXCEPT !.termed = now] ELSE proc[pid]]
  /\ termedAt' = [pid \in DOMAIN termedAt \cup Terms |-> IF pid \in Terms THEN now ELSE termedAt[pid]]

Signals ==
  /\ proc' = [pid \in DOMAIN proc \ Delivered(Kills) |->
       IF pid \in Delivered(Terms) THEN [proc[pid] EXCEPT !.termed = now] ELSE proc[pid]]
  /\ termedAt' = [pid \in DOMAIN termedAt \cup Terms |-> IF pid \in Terms THEN now ELSE termedAt[pid]]

Fault == faults < MaxFaults /\ faults' = faults + 1 /\ calm' = now

\* Hold: take the marker away, then signal; either half may fail alone.
Hold ==
  \/ healthy' = FALSE /\ Signals /\ UNCHANGED faultVars
  \/ /\ Fault
     /\ \/ UNCHANGED healthy /\ Signals
        \/ healthy' = FALSE /\ UNCHANGED <<proc, termedAt>>

Release ==
  /\ termedAt' = [pid \in {} |-> 0]
  /\ (healthy' = TRUE /\ UNCHANGED faultVars) \/ (Fault /\ UNCHANGED healthy)

-----------------------------------------------------------------------------
\* lose: an answer or the local deadline ends the lease, and Hold acts at once.
LoseLease ==
  /\ leased /\ leased' = FALSE /\ lost' = now
  /\ Hold
  /\ UNCHANGED <<nextTick, now>>

\* A heartbeat without the lease: Hold again; perhaps the lease comes back.
tickReacquire ==
  /\ ~leased /\ now = nextTick /\ nextTick' = now + Beat
  /\ Hold
  /\ UNCHANGED <<leased, now, lost>>

Reacquired ==
  /\ ~leased /\ leased' = TRUE
  /\ Release
  /\ UNCHANGED <<proc, nextTick, now, lost>>

tickHeld ==
  /\ leased /\ now = nextTick /\ nextTick' = now + Beat
  /\ Release \/ UNCHANGED <<termedAt, healthy, faultVars>>
  /\ UNCHANGED <<proc, leased, now, lost>>

\* The sidecar restarts: Run holds before it confirms the lease.
Restart ==
  /\ Fault
  /\ leased' = FALSE /\ lost' = IF leased THEN now ELSE lost
  /\ nextTick' = now + Beat
  /\ healthy' = FALSE
  /\ proc' = [pid \in DOMAIN proc |->
       IF pid \in Delivered(workloadPIDs) THEN [proc[pid] EXCEPT !.termed = now] ELSE proc[pid]]
  /\ termedAt' = [pid \in workloadPIDs |-> now]
  /\ UNCHANGED <<now>>

\* The kubelet starts a container's process.
Start ==
  \E pid \in Pid \ DOMAIN proc, kind \in {"target", "other"}, s, g \in BOOLEAN :
    /\ kind = "other" => ~s /\ ~g
    /\ proc' = [q \in DOMAIN proc \cup {pid} |->
         IF q = pid THEN [kind |-> kind, stubborn |-> s, guarded |-> g, termed |-> Never,
                         born |-> now, heir |-> pid \in DOMAIN termedAt]
         ELSE proc[q]]
    /\ UNCHANGED <<termedAt, healthy, leased, nextTick, now, faultVars, lost>>

\* A process ends by itself, after a SIGTERM it heeds, or because its liveness
\* probe does not find the marker.
Exit ==
  \E pid \in DOMAIN proc :
    /\ proc' = Restrict(proc, DOMAIN proc \ {pid})
    /\ UNCHANGED <<termedAt, healthy, leased, nextTick, now, faultVars, lost>>

\* Time waits for a heartbeat, and for a process that heeds its SIGTERM.
TimePasses ==
  /\ now < MaxTime /\ now' = now + 1 /\ now < nextTick
  /\ \A pid \in DOMAIN proc : proc[pid].termed = now => proc[pid].stubborn
  /\ UNCHANGED <<proc, termedAt, healthy, leased, nextTick, faultVars, lost>>

SignalInit ==
  /\ proc = [pid \in {} |-> 0]
  /\ termedAt = [pid \in {} |-> 0] /\ healthy = FALSE
  /\ leased = FALSE /\ nextTick = Beat /\ now = 0 /\ faults = 0 /\ lost = 0 /\ calm = 0

Horizon == now = MaxTime /\ UNCHANGED signalVars

SignalNext ==
  \/ LoseLease \/ tickReacquire \/ Reacquired \/ tickHeld \/ Restart
  \/ Start \/ Exit \/ TimePasses \/ Horizon

SignalSpec == SignalInit /\ [][SignalNext]_signalVars

-----------------------------------------------------------------------------
\* signalEnforcer's comment, "SIGTERM first, then SIGKILL once the grace period
\* elapses": a process the next Hold would kill has had its own SIGTERM since
\* this loss of the lease, at least the grace period ago.  Except an heir: it was
\* given the id of a process that this Hold's predecessors had signalled.
\* A process that is not the target receives none.
GraceGiven ==
  /\ \A pid \in DOMAIN proc : proc[pid].kind = "other" => proc[pid].termed = Never
  /\ \A pid \in Delivered(Kills) : proc[pid].heir \/
       /\ proc[pid].termed # Never
       /\ proc[pid].termed >= lost /\ now - proc[pid].termed >= Grace

\* Without the lease no process of the workload that signals can reach outlives
\* the grace period and two heartbeats, also one that the kubelet restarted or
\* that a failed Hold missed.
StoppedInTime ==
  ~leased =>
    \A pid \in workloadPIDs :
      proc[pid].guarded \/ \E t \in {lost, calm, proc[pid].born} : now - t <= Grace + 2 * Beat
=============================================================================
