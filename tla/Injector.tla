------------------------------ MODULE Injector -------------------------------
(***************************************************************************)
(* Pod injection (internal/webhook, internal/acquire/config.go, env.go).   *)
(* A Pod is submitted, Default mutates it, other injectors meddle with it, *)
(* ValidateCreate judges the outcome, a debug container is attached to it, *)
(* and the injected helper reads its configuration from the environment.   *)
(*                                                                         *)
(* A mount path is "state" (the state directory as configured), "alias"    *)
(* (another spelling of it), "below" it, or elsewhere.  An annotation or   *)
(* variable with a number is <<>> (absent), <<n>>, or Garbage.             *)
(***************************************************************************)
EXTENDS Integers, Sequences, Functions

CONSTANTS
  Values,      \* strings a Pod or a configuration may have besides Words
  Setups,      \* injectors and their load, by name: see Pods and what follows
  Second,      \* ticks of a time.Duration in a second
  MaxTTL,      \* math.MaxInt32 seconds
  MaxDuration  \* the largest time.Duration, in ticks

Garbage == <<0, 0>>

Words ==
  {"", "none", "berth", "berth-state", "token", "ca", "state", "berth-acquire", "berth-sidecar",
   "runtime-singleton", "startup-gate", "probe", "signal", "true", "false", "emptyDir"}
Text == Words \cup Values

Mount == [vol : Text, path : Text, ro : BOOLEAN, sub : BOOLEAN]

Container ==
  [name : Text, restart : BOOLEAN, liveness : [kind : Text, maxAge : Int], startup : BOOLEAN,
   mounts : SUBSET Mount]

File == [dir : Text, clean : BOOLEAN]

Annotations ==
  [lease : Text, mode : Text, enforce : Text, target : Text, ttl : Seq(Int),
   heartbeat : Seq(Int), grace : Seq(Int), release : Text, holder : Text]

Environment ==
  [lease : Text, mode : Text, enforce : Text, target : Text, ttl : Seq(Int),
   heartbeat : Seq(Int), grace : Seq(Int), release : Text, holder : Text,
   apiServer : BOOLEAN, keyFile : File, caFile : File]

Pod ==
  [optin : BOOLEAN, controlPlane : BOOLEAN, marked : BOOLEAN, ann : Annotations,
   init : Seq(Container), main : Seq(Container), eph : Seq(Container), state : Text,
   tokenVolume : BOOLEAN, caVolume : BOOLEAN, share : Text, long : BOOLEAN, env : Environment]

InjectorConfig ==
  [apiServer : BOOLEAN, image : BOOLEAN, pullPolicy : BOOLEAN, mode : Text, enforce : Text,
   ttl : Int, stateDirAbs : BOOLEAN, keyFile : File, caFile : File, keySecret : BOOLEAN,
   caMap : BOOLEAN]

ASSUME InjectorAssumption ==
  /\ Second \in Nat /\ Second >= 3 /\ MaxTTL \in Nat /\ MaxDuration \in Nat
  /\ MaxTTL * Second <= MaxDuration
  /\ \A s \in DOMAIN Setups :
       /\ Setups[s].pods \subseteq Pod /\ Setups[s].configs \subseteq InjectorConfig
       /\ \A x \in Setups[s].meddling :
            \/ x.where = "mount" /\ x.what \in Mount
            \/ x.where \in {"first", "main"} /\ x.what \in Container
       /\ Setups[s].debug \subseteq Container

VARIABLES
  setup,     \* the name of the one at hand
  config,    \* InjectorConfig, with its defaults
  pod, stage,
  meddled    \* history: another injector has changed the mutated Pod

injectVars == <<setup, config, pod, stage, meddled>>

Pods == Setups[setup].pods           \* Pods that may be submitted
Configs == Setups[setup].configs     \* configurations that may be tried
Meddling == Setups[setup].meddling   \* what another injector may add: containers and mounts
Debug == Setups[setup].debug         \* ephemeral containers that may be attached

orDefault(v, def) == IF v = "" THEN def ELSE v

intAnn(v, def) == IF v = <<>> THEN def ELSE v[1]

Modes == {"startup-gate", "runtime-singleton"}
Enforcements == {"probe", "signal"}
Helpers == {"berth-acquire", "berth-sidecar"}
NoProbe == [kind |-> "none", maxAge |-> 0]

-----------------------------------------------------------------------------
(* The injector's configuration.  A file is [dir, clean], or NoFile.       *)

NoFile == [dir |-> "none", clean |-> TRUE]

withDefaults(c) ==
  [c EXCEPT !.mode = orDefault(@, "runtime-singleton"), !.enforce = orDefault(@, "probe")]

\* Mutant: the state directory is not compared.
MountsDifferPairwise(c) ==
  c.keyFile = NoFile \/ c.caFile = NoFile \/ c.keyFile.dir # c.caFile.dir

\* Auth directories differ from the state directory and from each other.
MountsDiffer(c) ==
  /\ \A f \in {c.keyFile, c.caFile} : f.dir # "state"
  /\ c.keyFile = NoFile \/ c.caFile = NoFile \/ c.keyFile.dir # c.caFile.dir

\* parseConfig's requirement of an API server, and InjectorConfig.Validate.
ConfigValid(c) ==
  /\ c.apiServer /\ c.image /\ c.pullPolicy /\ c.mode \in Modes /\ c.enforce \in Enforcements
  /\ c.ttl > 0 /\ c.ttl <= MaxTTL /\ c.stateDirAbs
  /\ (c.keyFile = NoFile) = ~c.keySecret /\ (c.caFile = NoFile) = ~c.caMap
  /\ \A f \in {c.keyFile, c.caFile} : f.clean /\ f.dir # "root"
  /\ MountsDiffer(c)

-----------------------------------------------------------------------------
(* resolve                                                                 *)

resolve(p) ==
  [mode |-> orDefault(p.ann.mode, config.mode), enforce |-> orDefault(p.ann.enforce, config.enforce),
   ttl |-> intAnn(p.ann.ttl, config.ttl), heartbeat |-> intAnn(p.ann.heartbeat, 0),
   grace |-> intAnn(p.ann.grace, 0), target |-> p.ann.target, release |-> p.ann.release,
   lease |-> p.ann.lease, holder |-> p.ann.holder]

Runtime(p) == resolve(p).mode = "runtime-singleton"

\* Mutant: a heartbeat as long as the TTL is accepted.
HeartbeatFitsLoosely(r) == r.heartbeat >= 0 /\ (r.heartbeat > 0 => r.heartbeat <= r.ttl)

HeartbeatFits(r) == r.heartbeat >= 0 /\ (r.heartbeat > 0 => r.heartbeat < r.ttl)

TTLInRange(r) == r.ttl > 0 /\ r.ttl <= MaxTTL

\* resolve's errors: the numbers, resolved.validate, the process namespace.
Resolves(p) ==
  LET r == resolve(p)
      signals == r.mode = "runtime-singleton" /\ r.enforce = "signal"
  IN /\ \A v \in {p.ann.ttl, p.ann.heartbeat, p.ann.grace} : v # Garbage
     /\ r.lease # "" /\ r.mode \in Modes /\ r.enforce \in Enforcements
     /\ signals => r.target # ""
     /\ TTLInRange(r) /\ HeartbeatFits(r) /\ r.grace >= 0
     /\ r.release \in {"", "true", "false"}
     /\ signals => p.share # "false"

-----------------------------------------------------------------------------
(* The checks of the create path                                           *)

Writable(m) == m.vol = "berth-state" /\ ~m.ro

\* A writable mount of the state volume at the state directory becomes
\* read-only.
Repair(c) ==
  [c EXCEPT !.mounts =
     {IF Writable(m) /\ m.path = "state" THEN [m EXCEPT !.ro = TRUE] ELSE m : m \in @}]

Repaired(p) ==
  [p EXCEPT !.main = [i \in DOMAIN @ |-> Repair(@[i])], !.init = [i \in DOMAIN @ |-> Repair(@[i])]]

\* checkStateVolumeMounts; only on the ephemeral path are helpers known by name.
MountsAllowed(p, ephemeral) ==
  \A c \in Range(p.main) \cup Range(p.init) \cup Range(p.eph) :
    (ephemeral /\ c.name \in Helpers) \/ \A m \in c.mounts : ~Writable(m)

\* validateProbeMounts
ProbeMounts(c, required) ==
  LET seen == {m \in c.mounts : m.path \in {"state", "alias", "below"}}
  IN /\ \A m \in seen : m.path = "state" /\ m.vol = "berth-state" /\ ~m.sub /\ m.ro
     /\ \A m \in c.mounts : ~Writable(m)
     /\ required => seen # {}

Reserved(p) == {"berth-acquire"} \cup IF Runtime(p) THEN {"berth-sidecar"} ELSE {}

preflight(p) ==
  /\ \A c \in Range(p.init) \cup Range(p.main) : c.name \notin Reserved(p)
  /\ p.state # "other"
  /\ config.keySecret => ~p.tokenVolume
  /\ config.caMap => ~p.caVolume
  /\ Runtime(p) =>
       /\ p.init = <<>>
       /\ \A c \in Range(p.main) :
            c.liveness = NoProbe /\ ~c.startup /\ ProbeMounts(c, FALSE)

-----------------------------------------------------------------------------
(* mutate                                                                  *)

StateMount(ro) == [vol |-> "berth-state", path |-> "state", ro |-> ro, sub |-> FALSE]

authVolumeMounts ==
  (IF config.keySecret THEN {[vol |-> "token", path |-> config.keyFile.dir, ro |-> TRUE, sub |-> FALSE]} ELSE {})
    \cup (IF config.caMap THEN {[vol |-> "ca", path |-> config.caFile.dir, ro |-> TRUE, sub |-> FALSE]} ELSE {})

HelperContainer(name, restart) ==
  [name |-> name, restart |-> restart, liveness |-> NoProbe, startup |-> FALSE,
   mounts |-> {StateMount(FALSE)} \cup authVolumeMounts]

freshnessProbe(p) == [kind |-> "berth", maxAge |-> resolve(p).ttl]

\* Mutant: a mount of the state volume elsewhere counts as well.
applyEnforcementByName(p, c) ==
  [c EXCEPT !.liveness = freshnessProbe(p),
            !.mounts = IF \E m \in @ : m.vol = "berth-state" THEN @
                       ELSE @ \cup {StateMount(TRUE)}]

applyEnforcement(p, c) ==
  [c EXCEPT !.liveness = freshnessProbe(p),
            !.mounts = IF \E m \in @ : m.vol = "berth-state" /\ m.path = "state" THEN @
                       ELSE @ \cup {StateMount(TRUE)}]

\* buildEnv; zero and empty values are left out.
buildEnv(r) ==
  [lease |-> r.lease, mode |-> r.mode, enforce |-> r.enforce, ttl |-> <<r.ttl>>,
   target |-> IF r.enforce = "signal" THEN r.target ELSE "",
   heartbeat |-> IF r.heartbeat > 0 THEN <<r.heartbeat>> ELSE <<>>,
   grace |-> IF r.grace > 0 THEN <<r.grace>> ELSE <<>>,
   release |-> r.release, holder |-> r.holder, apiServer |-> config.apiServer,
   keyFile |-> config.keyFile, caFile |-> config.caFile]

mutate(p) ==
  [p EXCEPT
     !.state = "emptyDir", !.marked = TRUE, !.env = buildEnv(resolve(p)),
     !.tokenVolume = @ \/ config.keySecret, !.caVolume = @ \/ config.caMap,
     !.share = IF Runtime(p) /\ resolve(p).enforce = "signal" THEN "true" ELSE @,
     !.init = (IF Runtime(p) THEN <<HelperContainer("berth-acquire", FALSE), HelperContainer("berth-sidecar", TRUE)>>
               ELSE <<HelperContainer("berth-acquire", FALSE)>>) \o @,
     !.main = IF Runtime(p) THEN [i \in DOMAIN @ |-> applyEnforcement(p, @[i])] ELSE @]

-----------------------------------------------------------------------------
(* Admission                                                               *)

OptedIn(p) == p.optin /\ ~p.controlPlane

\* Mutant: a Pod that says it has been injected is believed.
SkipsMarked(p) == ~OptedIn(p) \/ p.marked

Skips(p) == ~OptedIn(p)

Default ==
  /\ stage = "submitted"
  /\ LET q == Repaired(pod)
         ok == MountsAllowed(q, FALSE) /\ Resolves(q) /\ preflight(q)
     IN CASE Skips(pod) -> stage' = "mutated" /\ UNCHANGED pod
          [] ~Skips(pod) /\ ok -> stage' = "mutated" /\ pod' = mutate(q)
          [] OTHER -> stage' = "refused" /\ UNCHANGED pod
  /\ UNCHANGED <<setup, config, meddled>>

Names(p) == {c.name : c \in Range(p.init) \cup Range(p.main) \cup Range(p.eph)}

\* Another mutating webhook runs after this one.
Meddle ==
  /\ stage = "mutated" /\ ~meddled /\ meddled' = TRUE
  /\ \E x \in Meddling :
       \/ /\ x.where = "mount" /\ \A m \in pod.main[1].mounts : m.path # x.what.path
          /\ pod' = [pod EXCEPT !.main[1].mounts = @ \cup {x.what}]
       \/ /\ x.where = "first" /\ x.what.name \notin Names(pod)
          /\ pod' = [pod EXCEPT !.init = <<x.what>> \o @]
       \/ /\ x.where = "main" /\ x.what.name \notin Names(pod)
          /\ pod' = [pod EXCEPT !.main = Append(@, x.what)]
  /\ UNCHANGED <<setup, config, stage>>

\* Mutant: the order and the restart policy of the helpers are not compared.
HelpersPresent(p) == Helpers \subseteq {c.name : c \in Range(p.init)}

HelpersOnly(p) ==
  /\ Len(p.init) = 2
  /\ p.init[1].name = "berth-acquire" /\ ~p.init[1].restart
  /\ p.init[2].name = "berth-sidecar" /\ p.init[2].restart

CreateValid(p) ==
  \/ ~OptedIn(p)
  \/ /\ Resolves(p)
     /\ Runtime(p) =>
          /\ HelpersOnly(p) /\ p.state = "emptyDir"
          /\ \A c \in Range(p.main) :
               ~c.startup /\ c.liveness = freshnessProbe(p) /\ ProbeMounts(c, TRUE)

ValidateCreate ==
  /\ stage = "mutated"
  /\ stage' = IF CreateValid(pod) THEN "admitted" ELSE "refused"
  /\ UNCHANGED <<setup, config, pod, meddled>>

AttachAllowed(p) == ~OptedIn(p) \/ MountsAllowed(p, TRUE)

\* Default on the ephemeralcontainers subresource.
Attach ==
  /\ stage = "admitted" /\ pod.eph = <<>>
  /\ \E c \in Debug :
       LET q == [pod EXCEPT !.eph = <<c>>]
       IN c.name \notin Names(pod) /\ pod' = IF AttachAllowed(q) THEN q ELSE pod
  /\ UNCHANGED <<setup, config, stage, meddled>>

InjectInit ==
  /\ setup \in DOMAIN Setups
  /\ \E c \in Configs : config = withDefaults(c)
  /\ ConfigValid(config)
  /\ pod \in Pods /\ stage = "submitted" /\ meddled = FALSE

Settled == stage \in {"admitted", "refused"} /\ UNCHANGED injectVars

InjectNext == Default \/ Meddle \/ ValidateCreate \/ Attach \/ Settled

InjectSpec == InjectInit /\ [][InjectNext]_injectVars

-----------------------------------------------------------------------------
(* The helper's configuration                                              *)

\* time.Duration(n) * time.Second, in 64 bits.
Duration(n) ==
  ((n * Second + MaxDuration + 1) % (2 * (MaxDuration + 1))) - (MaxDuration + 1)

secondsEnv(v) == Duration(intAnn(v, 0))

ConfigFromEnv(e) ==
  [lease |-> e.lease, mode |-> e.mode, enforce |-> e.enforce, target |-> e.target,
   holder |-> e.holder, ttl |-> secondsEnv(e.ttl), heartbeat |-> secondsEnv(e.heartbeat),
   grace |-> secondsEnv(e.grace), release |-> e.release, apiServer |-> e.apiServer]

ApplyDefaults(c) ==
  [c EXCEPT !.mode = orDefault(@, "runtime-singleton"), !.enforce = orDefault(@, "probe"),
            !.heartbeat = IF @ <= 0 /\ c.ttl > 0 THEN c.ttl \div 3 ELSE @,
            !.release = orDefault(@, IF orDefault(c.mode, "runtime-singleton") = "startup-gate"
                                     THEN "false" ELSE "true")]

HelperConfig(p) == ApplyDefaults(ConfigFromEnv(p.env))

\* Config.Validate; long: the derived holder exceeds the API's limit.
HelperValid(c, long) ==
  /\ c.lease # "" /\ c.mode \in Modes /\ c.enforce \in Enforcements
  /\ (c.mode = "runtime-singleton" /\ c.enforce = "signal") => c.target # ""
  /\ (c.mode = "runtime-singleton" /\ c.holder = "") => ~long
  /\ c.ttl > 0 /\ c.ttl <= MaxTTL * Second
  /\ c.heartbeat > 0 /\ c.heartbeat < c.ttl /\ c.grace >= 0
  /\ c.apiServer

-----------------------------------------------------------------------------
Fenced == stage = "admitted" /\ OptedIn(pod)

\* ADR-0004 and ValidateCreate: no label or annotation of the submitter's own lets
\* an opted-in Pod start without the gate; and whatever other injectors and debug
\* sessions add, a runtime-singleton Pod runs only if every main container has
\* the freshness probe of its TTL and sees through it the state volume itself,
\* nothing of the workload runs before or beside the helpers' gate, and the
\* helpers alone can write that volume.
RuntimeFenced ==
  /\ (Fenced /\ ~meddled) => pod.init # <<>> /\ pod.init[1] = HelperContainer("berth-acquire", FALSE)
  /\ (Fenced /\ Runtime(pod)) =>
    /\ pod.init = <<HelperContainer("berth-acquire", FALSE), HelperContainer("berth-sidecar", TRUE)>>
    /\ \A c \in Range(pod.main) :
         /\ c.liveness = [kind |-> "berth", maxAge |-> resolve(pod).ttl] /\ ~c.startup
         /\ {m \in c.mounts : m.path \in {"state", "alias", "below"}} = {StateMount(TRUE)}
    /\ \A c \in Range(pod.init \o pod.main \o pod.eph) :
         (\E m \in c.mounts : Writable(m)) => c.name \in Helpers

\* The injector and the validator agree: a Pod that Default has mutated is
\* admitted unless another injector changed it.
InjectedIsAdmitted == (stage = "mutated" /\ ~meddled) => CreateValid(pod)

\* "The webhook enforces most of these at admission": the helper of an admitted
\* Pod starts, with a heartbeat within its TTL and a probe that allows exactly
\* that TTL, unless its holder is too long or its grace period overflows.
HelperStarts ==
  (Fenced /\ ~meddled /\ ~pod.long /\ resolve(pod).grace * Second <= MaxDuration) =>
    LET c == HelperConfig(pod)
    IN /\ HelperValid(c, pod.long)
       /\ c.mode = resolve(pod).mode /\ c.grace = resolve(pod).grace * Second
       /\ Runtime(pod) => \A x \in Range(pod.main) : x.liveness.maxAge * Second = c.ttl

\* Every file the helper's environment names is mounted into it, and no two
\* mounts of a helper share a directory.
HelperFilesMounted ==
  (Fenced /\ ~meddled) =>
    LET h == pod.init[1]
    IN /\ \A f \in {pod.env.keyFile, pod.env.caFile} \ {NoFile} :
            \E m \in h.mounts : m.path = f.dir /\ m.vol # "berth-state"
       /\ \A m, n \in h.mounts : m.path = n.path => m = n
=============================================================================
