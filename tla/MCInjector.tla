----------------------------- MODULE MCInjector ------------------------------
EXTENDS Injector

MCValues ==
  {"alias", "below", "data", "app", "db", "own", "setup", "other", "unset", "yes", "root", "keys", "certs",
   "mesh", "debug"}

Mounts == [vol : {"berth-state", "data"}, path : {"state", "alias", "below", "data"},
           ro : BOOLEAN, sub : BOOLEAN]

\* At most two mounts, at different paths.
MountSets ==
  {ms \in {{}} \cup {{m, n} : m, n \in Mounts} : \A m, n \in ms : m.path = n.path => m = n}

NewContainer(name, liveness, startup, mounts) ==
  [name |-> name, restart |-> FALSE, liveness |-> liveness, startup |-> startup, mounts |-> mounts]

Plain(name) == NewContainer(name, NoProbe, FALSE, {})
Rw(path) == [vol |-> "berth-state", path |-> path, ro |-> FALSE, sub |-> FALSE]

Annotated(mode, enforce) ==
  [lease |-> "db", mode |-> mode, enforce |-> enforce, target |-> "app", ttl |-> <<2>>,
   heartbeat |-> <<>>, grace |-> <<>>, release |-> "", holder |-> ""]

NoEnv == [lease |-> "", mode |-> "", enforce |-> "", ttl |-> <<>>, target |-> "", heartbeat |-> <<>>,
          grace |-> <<>>, release |-> "", holder |-> "", apiServer |-> FALSE,
          keyFile |-> NoFile, caFile |-> NoFile]

Base == [optin |-> TRUE, controlPlane |-> FALSE, marked |-> FALSE,
         ann |-> Annotated("runtime-singleton", "probe"), init |-> <<>>, main |-> <<Plain("app")>>,
         eph |-> <<>>, state |-> "none", tokenVolume |-> FALSE, caVolume |-> FALSE,
         share |-> "unset", long |-> FALSE, env |-> NoEnv]

\* Pods that differ in their containers and volumes ...
ShapedPods ==
  {[Base EXCEPT !.ann = Annotated(mode, enforce), !.main = <<NewContainer("app", live, startup, ms)>>,
      !.init = init, !.state = state, !.share = share] :
     mode \in Modes, enforce \in Enforcements, ms \in MountSets,
     live \in {NoProbe, [kind |-> "own", maxAge |-> 0]}, startup \in BOOLEAN,
     init \in {<<>>, <<Plain("setup")>>, <<NewContainer("berth-sidecar", NoProbe, FALSE, {Rw("state")})>>},
     state \in {"none", "emptyDir", "other"}, share \in {"unset", "false"}}
  \cup
  {[Base EXCEPT !.optin = o, !.controlPlane = c, !.marked = m, !.ann = Annotated(mode, "probe")] :
     o, c, m \in BOOLEAN, mode \in Modes}

\* ... and Pods that differ in their annotations.
Numbers == {<<>>, Garbage, <<-1>>, <<0>>, <<1>>, <<2>>, <<5>>}

AnnotatedPods ==
  {[Base EXCEPT !.ann = [lease |-> lease, mode |-> mode, enforce |-> enforce, target |-> target,
      ttl |-> ttl, heartbeat |-> heartbeat, grace |-> grace, release |-> release, holder |-> ""],
      !.long = long] :
     lease \in {"", "db"}, mode \in {"", "startup-gate", "other"}, enforce \in {"", "signal", "other"},
     target \in {"", "app"}, ttl \in Numbers, heartbeat \in Numbers, grace \in Numbers \cup {<<9>>, <<15>>},
     release \in {"", "true", "yes"}, long \in BOOLEAN}

OneConfig ==
  [apiServer |-> TRUE, image |-> TRUE, pullPolicy |-> TRUE, mode |-> "", enforce |-> "", ttl |-> 2,
   stateDirAbs |-> TRUE, keyFile |-> NoFile, caFile |-> NoFile, keySecret |-> FALSE, caMap |-> FALSE]

FilesAt == [dir : {"state", "root", "keys", "certs"}, clean : BOOLEAN] \cup {NoFile}

ManyConfigs ==
  [apiServer : BOOLEAN, image : {TRUE}, pullPolicy : BOOLEAN, mode : {"", "startup-gate", "other"},
   enforce : {"", "signal", "other"}, ttl : {0, 2, 5}, stateDirAbs : BOOLEAN, keyFile : FilesAt,
   caFile : FilesAt, keySecret : BOOLEAN, caMap : BOOLEAN]

FewPods ==
  {[Base EXCEPT !.ann.mode = mode, !.ann.ttl = ttl, !.tokenVolume = t, !.caVolume = c] :
     mode \in {"", "runtime-singleton"}, ttl \in {<<>>, <<3>>}, t, c \in BOOLEAN}

MCMeddling ==
  [where : {"mount"}, what : Mounts]
    \cup {[where |-> w, what |-> c] :
            w \in {"first", "main"}, c \in {Plain("mesh"), NewContainer("mesh", NoProbe, FALSE, {Rw("data")})}}

MCDebug == {Plain("debug"), NewContainer("debug", NoProbe, FALSE, {Rw("data")}),
            NewContainer("berth-sidecar", NoProbe, FALSE, {Rw("state")})}

MCSetups ==
  [shapes |-> [pods |-> ShapedPods, configs |-> {OneConfig}, meddling |-> MCMeddling, debug |-> MCDebug],
   annotations |-> [pods |-> AnnotatedPods, configs |-> {OneConfig}, meddling |-> {}, debug |-> {}],
   configs |-> [pods |-> FewPods, configs |-> ManyConfigs, meddling |-> {}, debug |-> {}]]
=============================================================================
