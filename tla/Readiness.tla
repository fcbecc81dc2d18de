------------------------------ MODULE Readiness ------------------------------
(***************************************************************************)
(* The readiness route of the API server (internal/api/routes.go):         *)
(* readinessGate answers concurrent /readyz requests from a cached probe   *)
(* of the store, and probes under its mutex with a timeout.  Time is       *)
(* discrete; a goroutine that can run does so before time passes.          *)
(***************************************************************************)
EXTENDS Naturals, FiniteSets

CONSTANTS
  Caller,
  CacheTTL,        \* readinessCacheTTL
  Timeout,    \* readinessProbeTimeout
  None,
  MaxTime, MaxChanges   \* bounds of the model

ASSUME ReadinessAssumption ==
  /\ CacheTTL \in Nat \ {0} /\ Timeout \in Nat \ {0} /\ None \notin Caller
  /\ MaxTime \in Nat /\ MaxChanges \in Nat

VARIABLES
  gate,      \* readinessGate: primed, checkedAt, lastErr (ok)
  mu,        \* the request that holds the mutex, probing, or None
  began,     \* when its probe began
  seen,      \* what the probe has met of the store so far
  caller,       \* "idle", "wait" for the mutex, or "probe"
  since,     \* when the request arrived
  backend,   \* the store: "up", "down" or "hung" (no answer)
  was,       \* history: when the store was last up, and last was not
  answer,    \* history: the status of the last step's answer, 0 if none
  probes,    \* history: probes begun
  now, changes

readyVars == <<gate, mu, began, seen, caller, since, backend, was, answer, probes, now, changes>>

storeVars == <<backend, was, now, changes>>

-----------------------------------------------------------------------------
Up == backend = "up"

Arrive(r) ==
  /\ caller[r] = "idle"
  /\ caller' = [caller EXCEPT ![r] = "wait"] /\ since' = [since EXCEPT ![r] = now]
  /\ answer' = 0
  /\ UNCHANGED <<gate, mu, began, seen, probes, storeVars>>

Answers(r, ok) ==
  /\ caller' = [caller EXCEPT ![r] = "idle"] /\ since' = [since EXCEPT ![r] = 0]
  /\ answer' = IF ok THEN 200 ELSE 503

\* Mutant: a result is kept one moment longer.
FreshLonger == gate.primed /\ now - gate.checkedAt <= CacheTTL

\* Mutant: only a success is kept.
FreshNever == gate.primed /\ gate.ok /\ now - gate.checkedAt < CacheTTL

Fresh == gate.primed /\ now - gate.checkedAt < CacheTTL

\* ready: under the mutex, answer from the cache, ...
Cached(r) ==
  /\ caller[r] = "wait" /\ mu = None /\ Fresh
  /\ Answers(r, gate.ok)
  /\ UNCHANGED <<gate, mu, began, seen, probes, storeVars>>

\* ... or begin a probe, keeping the mutex.
Probe(r) ==
  /\ caller[r] = "wait" /\ mu = None /\ ~Fresh
  /\ mu' = r /\ began' = now /\ seen' = {Up}
  /\ caller' = [caller EXCEPT ![r] = "probe"]
  /\ probes' = probes + 1 /\ answer' = 0
  /\ UNCHANGED <<gate, since, storeVars>>

\* Mutant: the result counts from the beginning of the probe.
ProbedFromStart(r, ok) ==
  /\ gate' = [primed |-> TRUE, checkedAt |-> began, ok |-> ok]
  /\ mu' = None /\ began' = 0 /\ seen' = {}

Probed(r, ok) ==
  /\ gate' = [primed |-> TRUE, checkedAt |-> now, ok |-> ok]
  /\ mu' = None /\ began' = 0 /\ seen' = {}

\* The probe returns what the store was at some moment since it began ...
Returns(r) ==
  /\ caller[r] = "probe" /\ mu = r /\ backend # "hung"
  /\ \E ok \in seen : Probed(r, ok) /\ Answers(r, ok)
  /\ UNCHANGED <<probes, storeVars>>

\* ... or its context expires; a store too slow to answer by then is "hung".
TimesOut(r) ==
  /\ caller[r] = "probe" /\ mu = r /\ now - began >= Timeout /\ FALSE \in seen
  /\ Probed(r, FALSE) /\ Answers(r, FALSE)
  /\ UNCHANGED <<probes, storeVars>>

Change ==
  /\ changes < MaxChanges /\ changes' = changes + 1
  /\ backend' \in {"up", "down", "hung"} \ {backend}
  /\ was' = [b \in BOOLEAN |-> IF b \in {Up, backend' = "up"} THEN now ELSE was[b]]
  /\ seen' = IF mu = None THEN seen ELSE seen \cup {backend' = "up"}
  /\ answer' = 0
  /\ UNCHANGED <<gate, mu, began, caller, since, probes, now>>

\* Time waits for a request that can take the mutex and for an expired probe.
TimePasses ==
  /\ now < MaxTime /\ now' = now + 1
  /\ mu = None => \A r \in Caller : caller[r] # "wait"
  /\ mu # None => now - began < Timeout
  /\ was' = [was EXCEPT ![Up] = now + 1]
  /\ answer' = 0
  /\ UNCHANGED <<gate, mu, began, seen, caller, since, backend, probes, changes>>

ReadyInit ==
  /\ gate = [primed |-> FALSE, checkedAt |-> 0, ok |-> FALSE]
  /\ mu = None /\ began = 0 /\ seen = {}
  /\ caller = [r \in Caller |-> "idle"] /\ since = [r \in Caller |-> 0]
  /\ backend = "up" /\ was = [b \in BOOLEAN |-> 0]
  /\ answer = 0 /\ probes = 0 /\ now = 0 /\ changes = 0

ready(r) == Cached(r) \/ Probe(r) \/ Returns(r) \/ TimesOut(r)

\* Where the model's time ends.
Horizon == now = MaxTime /\ UNCHANGED readyVars

ReadyNext == (\E r \in Caller : Arrive(r) \/ ready(r)) \/ Change \/ TimePasses \/ Horizon

ReadySpec == ReadyInit /\ [][ReadyNext]_readyVars

-----------------------------------------------------------------------------
\* readinessGate's purpose: a 200 means that the store was up, and a 503 that it
\* was not, at a moment at most a probe and a cache window ago.
AnswersAreRecent ==
  /\ answer = 200 => now - was[TRUE] < Timeout + CacheTTL
  /\ answer = 503 => now - was[FALSE] < Timeout + CacheTTL

\* "Concurrent requests share a single in-flight probe": however many requests
\* queue behind a store that hangs, each is answered when the probe that was
\* running when it arrived, or the one it began, ends.
NoRequestWaitsTwice ==
  \A r \in Caller : caller[r] # "idle" => now - since[r] <= Timeout

\* "At most one backend probe per window."
OneProbePerWindow == probes * CacheTTL <= now + CacheTTL
=============================================================================
