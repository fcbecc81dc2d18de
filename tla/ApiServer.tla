------------------------------ MODULE ApiServer ------------------------------
(***************************************************************************)
(* The API server's request path (internal/api, internal/auth,             *)
(* internal/tenant): authentication, the handlers' checks in their order,  *)
(* one call of the lease manager and the status of its outcome, as         *)
(* pkg/client reads it.  Meanwhile the static keys are edited and reloaded *)
(* on SIGHUP, and the server drains its requests and stops.  The manager   *)
(* is the service FencedLease specifies.                                   *)
(***************************************************************************)
EXTENDS FencedLease, Sequences, FiniteSetsExt

CONSTANTS
  Owner,         \* the tenant before the first "/" of each holder
  Oversized,     \* holders longer than MaxHolderBytes
  BadKey,        \* a key ValidateKey refuses
  NoTenant,      \* the empty tenant
  Files,         \* contents of the keys file: tokens to tenants
  Malformed,     \* contents loadKeysFile refuses
  Claims,        \* OIDC: what each token's verified claims say, if it verifies
  Request,
  TTL,
  Setups         \* servers and their load, see AuthMode and what follows

ASSUME ApiAssumption ==
  /\ NoHolder \notin Holder /\ Oversized \subseteq Holder
  /\ BadKey \notin Key /\ Malformed \notin Files
  /\ Skew = 0 /\ TTLs = {TTL} /\ TTL \in Nat \ {0}
  /\ \A s \in Setups : s.input.key \subseteq Key \cup {BadKey}

VARIABLES
  setup,                        \* the one at hand
  file, keys, sighup, reload,   \* the keys file, StaticAuthenticator, watchSIGHUP
  asked,                        \* a SIGHUP has followed the last edit
  server, exitCode, req, requests, edits

keyVars == <<setup, file, keys, sighup, reload, asked, edits>>
serverVars == <<server, exitCode, req, requests>>
vars == <<leaseVars, clock, keyVars, serverVars>>

AuthMode == setup.mode         \* "none", "static-keys" or "oidc"
Input == setup.input           \* the sets requests take their parts from
Requests == [op : Input.op, bearer : Input.bearer, body : Input.body, holder : Input.holder,
             ttl : Input.ttl, token : Input.token, key : Input.key]
MaxRequests == setup.requests  \* bounds of the model
MaxEdits == setup.edits
MaxClock == setup.clock

-----------------------------------------------------------------------------
(* Authentication                                                          *)

Nobody == [ok |-> FALSE, anonymous |-> FALSE, tenant |-> NoTenant]
Anonymous == [ok |-> TRUE, anonymous |-> TRUE, tenant |-> NoTenant]
Identity(t) == [ok |-> TRUE, anonymous |-> FALSE, tenant |-> t]

\* StaticAuthenticator.Authenticate
AuthenticateStatic(bearer) ==
  IF bearer \in DOMAIN keys THEN Identity(keys[bearer]) ELSE Nobody

\* OIDCAuthenticator.Authenticate; claimAsString takes the first of several
\* values, and the empty string where there is none.
AuthenticateOIDC(bearer) ==
  IF bearer \in DOMAIN Claims /\ Claims[bearer].required
  THEN LET t == Claims[bearer].tenant IN Identity(IF t = <<>> THEN NoTenant ELSE t[1])
  ELSE Nobody

\* Mutant: an authentication that fails leaves no identity.
AuthMiddlewareOpen(bearer) ==
  IF AuthMode = "none" THEN Anonymous
  ELSE LET id == IF AuthMode = "oidc" THEN AuthenticateOIDC(bearer) ELSE AuthenticateStatic(bearer)
       IN IF id.ok THEN id ELSE Anonymous

AuthMiddleware(bearer) ==
  IF AuthMode = "none" THEN Anonymous
  ELSE IF AuthMode = "oidc" THEN AuthenticateOIDC(bearer) ELSE AuthenticateStatic(bearer)

-----------------------------------------------------------------------------
(* The handlers' checks                                                    *)

\* DefaultAuthorizer: every namespace, and the holders of the caller's tenant.
authorize(id, h) ==
  id.anonymous \/ (id.tenant # NoTenant /\ h # NoHolder /\ Owner[h] = id.tenant)

\* Mutant: the limit on a holder's length also binds a release.
HolderAnyOp(in) == in.holder # NoHolder /\ in.holder \notin Oversized

\* ValidateHolder, or handleRelease's weaker test.
HolderValid(in) ==
  /\ in.holder # NoHolder
  /\ in.op = "release" \/ in.holder \notin Oversized

\* Mutant: the key is checked before the caller.
ChecksKeyFirst(in, id) ==
  << <<~id.ok, 401>>, <<in.body = "huge", 413>>, <<in.body = "malformed", 400>>,
     <<~HolderValid(in), 400>>,
     <<in.op = "renew" /\ in.token = 0, 400>>,
     <<in.op # "release" /\ in.ttl <= 0, 400>>,
     <<in.key = BadKey, 400>>,
     <<~authorize(id, in.holder), 403>> >>

\* Every test of AuthMiddleware, decodeJSON and the handler, in their order,
\* with the status of its failure.
Checks(in, id) ==
  << <<~id.ok, 401>>, <<in.body = "huge", 413>>, <<in.body = "malformed", 400>>,
     <<~HolderValid(in), 400>>,
     <<in.op = "renew" /\ in.token = 0, 400>>,
     <<in.op # "release" /\ in.ttl <= 0, 400>>,
     <<~authorize(id, in.holder), 403>>,
     <<in.key = BadKey, 400>> >>

\* The status of a refused request, 0 for one that goes on to the manager.
Refusal(in, id) ==
  LET c == Checks(in, id)
      failed == {i \in DOMAIN c : c[i][1]}
  IN IF failed = {} THEN 0 ELSE c[Min(failed)][2]

-----------------------------------------------------------------------------
Idle(status) == [pc |-> "idle", status |-> status]

\* A request arrives, is authenticated against the keys of this moment, and is
\* checked.
Handle(r) ==
  /\ server = "up" /\ req[r].pc = "idle" /\ requests < MaxRequests
  /\ requests' = requests + 1
  /\ \E in \in Requests :
       LET id == AuthMiddleware(in.bearer)
           status == Refusal(in, id)
       IN req' = [req EXCEPT ![r] =
            IF status # 0 THEN Idle(status)
            ELSE [pc |-> "call", op |-> in.op, key |-> in.key, holder |-> in.holder,
                  token |-> in.token, id |-> id]]
  /\ UNCHANGED <<leaseVars, clock, keyVars, server, exitCode>>

Answer(r, status) == req' = [req EXCEPT ![r] = [pc |-> "answer", status |-> status]]

Expired(k) == clock > expires[k]

\* A grant's deadline is clock + TTL.
Deadline(k) == expires' = [expires EXCEPT ![k] = clock + TTL]

Acquire(r, status) ==
  LET k == req[r].key
      h == req[r].holder
      mine == holder[k] = h /\ ~Expired(k)
      free == holder[k] = NoHolder \/ Expired(k)
  IN /\ req[r].op = "acquire" /\ status = 200
     /\ \/ mine /\ Deadline(k) /\ Extend(k)
        \/ ~mine /\ free /\ Deadline(k) /\ Claim(k, h)
        \/ ~mine /\ ~free /\ UNCHANGED leaseVars

Renew(r, status) ==
  LET k == req[r].key
      held == holder[k] = req[r].holder /\ token[k] = req[r].token /\ ~Expired(k)
  IN /\ req[r].op = "renew" /\ req[r].token > 0 /\ status = 200
     /\ \/ held /\ Deadline(k) /\ Extend(k)
        \/ ~held /\ UNCHANGED leaseVars

\* A Release that loses a race is answered like one that succeeds.
Release(r, status) ==
  LET k == req[r].key
      held == holder[k] = req[r].holder /\ token[k] = req[r].token
  IN /\ req[r].op = "release"
     /\ \/ held /\ status = 204 /\ expires' = [expires EXCEPT ![k] = clock] /\ Vacate(k)
        \/ (held \/ holder[k] = NoHolder) /\ status = 204 /\ UNCHANGED leaseVars
        \/ ~held /\ holder[k] # NoHolder /\ status = 409 /\ UNCHANGED leaseVars

Manager(r, status) == Acquire(r, status) \/ Renew(r, status) \/ Release(r, status)

Call(r) ==
  /\ req[r].pc = "call"
  /\ \E status \in {200, 204, 409} : Manager(r, status) /\ Answer(r, status)
  /\ UNCHANGED <<clock, keyVars, server, exitCode, requests>>

\* Renew's own check of the token.
CallInvalid(r) ==
  /\ req[r].pc = "call" /\ req[r].op = "renew" /\ req[r].token < 0
  /\ Answer(r, 500)
  /\ UNCHANGED <<leaseVars, clock, keyVars, server, exitCode, requests>>

\* The store fails, though a write may have taken effect.
CallFails(r) ==
  /\ req[r].pc = "call"
  /\ UNCHANGED leaseVars \/ \E status \in {200, 204, 409} : Manager(r, status)
  /\ Answer(r, 500)
  /\ UNCHANGED <<clock, keyVars, server, exitCode, requests>>

Reply(r) ==
  /\ req[r].pc = "answer"
  /\ req' = [req EXCEPT ![r] = Idle(req[r].status)]
  /\ UNCHANGED <<leaseVars, clock, keyVars, server, exitCode, requests>>

-----------------------------------------------------------------------------
(* The keys file and its reload                                            *)

Edit ==
  /\ edits < MaxEdits /\ edits' = edits + 1
  /\ file' \in Files \cup {Malformed}
  /\ asked' = FALSE
  /\ UNCHANGED <<setup, leaseVars, clock, keys, sighup, reload, serverVars>>

\* The channel keeps one signal; more are dropped.
SendSIGHUP ==
  /\ server # "exited" /\ AuthMode = "static-keys"
  /\ sighup' = TRUE /\ asked' = TRUE
  /\ UNCHANGED <<setup, leaseVars, clock, file, keys, reload, edits, serverVars>>

Reloading == reload.pc # "idle"

\* watchSIGHUP, an iteration of its loop: receive the signal, ...
Receive ==
  /\ server # "exited" /\ ~Reloading /\ sighup
  /\ sighup' = FALSE
  /\ reload' = [pc |-> "load", keys |-> <<>>]
  /\ UNCHANGED <<setup, leaseVars, clock, file, keys, asked, edits, serverVars>>

\* ... read the file, keeping the present keys if it is malformed, ...
Load ==
  /\ server # "exited" /\ reload.pc = "load"
  /\ reload' = IF file = Malformed THEN [pc |-> "idle", keys |-> <<>>]
               ELSE [pc |-> "swap", keys |-> file]
  /\ UNCHANGED <<setup, leaseVars, clock, file, keys, sighup, asked, edits, serverVars>>

\* Mutant: signals that arrived meanwhile are forgotten.
SwapDrains ==
  /\ server # "exited" /\ reload.pc = "swap"
  /\ keys' = reload.keys
  /\ reload' = [pc |-> "idle", keys |-> <<>>]
  /\ sighup' = FALSE
  /\ UNCHANGED <<setup, leaseVars, clock, file, asked, edits, serverVars>>

\* ... and replace the keys under the lock.
Swap ==
  /\ server # "exited" /\ reload.pc = "swap"
  /\ keys' = reload.keys
  /\ reload' = [pc |-> "idle", keys |-> <<>>]
  /\ UNCHANGED <<setup, leaseVars, clock, file, sighup, asked, edits, serverVars>>

-----------------------------------------------------------------------------
(* Server.Start and Shutdown                                               *)

Busy == {r \in Request : req[r].pc # "idle"}

Exits(code) ==
  /\ server' = "exited" /\ exitCode' = code
  /\ req' = [r \in Request |-> Idle(IF r \in Busy THEN 0 ELSE req[r].status)]
  /\ UNCHANGED <<leaseVars, clock, keyVars, requests>>

Terminate ==
  /\ server = "up"
  /\ server' = "draining"
  /\ UNCHANGED <<leaseVars, clock, keyVars, exitCode, req, requests>>

Shutdown == server = "draining" /\ Busy = {} /\ Exits(0)

\* Shutdown's context expires first.
ShutdownTimesOut == server = "draining" /\ Busy # {} /\ Exits(1)

ServeFails == server = "up" /\ Exits(1)

\* A SIGHUP that watchSIGHUP does not catch, or no longer, ends the process.
Hangup ==
  /\ server = "draining" \/ (server = "up" /\ AuthMode # "static-keys")
  /\ Exits(129)

Tick ==
  /\ clock < MaxClock /\ Advance
  /\ UNCHANGED <<keyVars, serverVars>>

Gone == server = "exited" /\ UNCHANGED vars

Init ==
  /\ setup \in Setups
  /\ LeaseInit
  /\ file \in Files /\ keys = file
  /\ sighup = FALSE /\ reload = [pc |-> "idle", keys |-> <<>>] /\ asked = FALSE
  /\ server = "up" /\ exitCode = 0 /\ requests = 0 /\ edits = 0
  /\ req = [r \in Request |-> Idle(0)]

Serve(r) == Call(r) \/ CallInvalid(r) \/ CallFails(r) \/ Reply(r)
Watch == Receive \/ Load \/ Swap
Stop == Shutdown \/ ShutdownTimesOut

Next ==
  \/ \E r \in Request : Handle(r) \/ Serve(r)
  \/ Edit \/ SendSIGHUP \/ Watch
  \/ Terminate \/ Stop \/ ServeFails \/ Hangup \/ Tick \/ Gone

Spec == Init /\ [][Next]_vars

\* watchSIGHUP's goroutine is scheduled.
FairSpec == Spec /\ WF_vars(server = "up" /\ Watch)

-----------------------------------------------------------------------------
\* DefaultAuthorizer's cross-tenant guard, through to the lease: a tenancy that
\* has not run out is renewed or ended, and a free lease is taken, only by a
\* request whose bearer token authenticated as the tenant of that holder, on a
\* server that authenticates.
TenantIsolation ==
  [][\A k \in Key, r \in Request :
       (AuthMode # "none" /\ <<holder[k], expires[k], token[k]>>' # <<holder[k], expires[k], token[k]>>
          /\ req[r].pc = "call" /\ req'[r].pc = "answer") =>
         /\ Owner[req[r].holder] = req[r].id.tenant
         /\ (holder[k] # NoHolder /\ ~Expired(k)) => Owner[holder[k]] = req[r].id.tenant]_vars

\* validateKey's comment: a caller that is not authorized learns nothing of the
\* rules for keys.
KeyRulesHidden ==
  \A in \in Requests :
    LET id == AuthMiddleware(in.bearer)
    IN (in.holder # NoHolder /\ ~(id.ok /\ authorize(id, in.holder))) =>
         \A k \in Key : Refusal(in, id) = Refusal([in EXCEPT !.key = k], id)

\* ValidateHolder's comment: an oversized holder from before the limit can
\* still be released, though not renewed.
OldHoldersReleasable ==
  \A in \in Requests :
    LET id == AuthMiddleware(in.bearer)
    IN (in.holder \in Oversized /\ id.ok /\ authorize(id, in.holder)
          /\ in.body = "ok" /\ in.key \in Key)
         => (Refusal(in, id) = 0 <=> in.op = "release")

\* A SIGHUP after an edit brings the edited keys into force, also when it
\* arrives during an earlier reload.
ReloadTakesEffect ==
  (asked /\ file # Malformed) ~> (keys = file \/ ~asked \/ server # "up")
=============================================================================
