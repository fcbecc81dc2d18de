----------------------------- MODULE TokenBroker -----------------------------
(***************************************************************************)
(* The token broker (cmd/berth-oidc-broker) and the operator's             *)
(* FileTokenSource (internal/clientauth) that reads the file it writes.    *)
(* The broker fetches a token, replaces the file by a rename and sleeps    *)
(* until shortly before the expiry, or backs off after a failure.  Either  *)
(* process may die at any time; the identity provider and the volume may   *)
(* fail and recover.                                                       *)
(***************************************************************************)
EXTENDS Integers

CONSTANTS
  RefreshSkew, MinRefresh, FetchTimeout, MaxRetry,   \* loopConfig
  CacheTTL,       \* FileTokenSource.cacheTTL
  Providers,      \* each by the lifetimes it declares; 0 declares none
  Undeclared,     \* lifetime of a token that declares none
  Int64,          \* 2^63 of time.Duration, scaled down
  MaxClock, MaxFaults   \* bounds of the model

ASSUME BrokerAssumption ==
  /\ RefreshSkew \in Nat /\ MinRefresh \in Nat \ {0} /\ FetchTimeout \in Nat \ {0}
  /\ MaxRetry \in Nat /\ MaxRetry >= MinRefresh /\ Int64 \in Nat /\ MaxRetry < Int64
  /\ CacheTTL \in Nat \ {0} /\ Providers \subseteq SUBSET Nat /\ Undeclared \in Nat
  /\ MaxClock \in Nat /\ MaxFaults \in Nat

VARIABLES
  lives,                         \* of the provider in use
  clock, broken, calm, faults,   \* what has failed, and since when nothing has
  broker, tmp, file, source

vars == <<lives, clock, broken, calm, faults, broker, tmp, file, source>>
world == <<lives, clock, broken, calm, faults>>

\* A token by when the provider issued it and until when it accepts it.
NoToken == [born |-> -1, dies |-> 0]
Partial == [born |-> -2, dies |-> 0]

-----------------------------------------------------------------------------
(* The loop's arithmetic                                                   *)

\* An int64 duration wraps around.
Wrap(d) == ((d + Int64) % (2 * Int64)) - Int64

nextRetry(current) ==
  LET next == Wrap(current * 2) IN IF next <= 0 \/ next > MaxRetry THEN MaxRetry ELSE next

\* Mutant: no floor for tokens that expire soon.
nextRefreshBare(expiry) == IF expiry = 0 THEN MinRefresh ELSE expiry - clock - RefreshSkew

\* Mutant: the skew counts the other way.
nextRefreshLate(expiry) ==
  LET wait == expiry - clock + RefreshSkew
  IN IF expiry = 0 \/ wait < MinRefresh THEN MinRefresh ELSE wait

nextRefresh(expiry) ==
  LET wait == expiry - clock - RefreshSkew
  IN IF expiry = 0 \/ wait < MinRefresh THEN MinRefresh ELSE wait

-----------------------------------------------------------------------------
(* runLoop                                                                 *)

\* broker.since is when the current fetch or sleep began.
Fetching(retry) == [pc |-> "fetch", since |-> clock, until |-> clock + FetchTimeout,
                    retry |-> retry, tok |-> NoToken, expiry |-> 0, stop |-> FALSE]

Exited == [pc |-> "exited", since |-> 0, until |-> 0, retry |-> MinRefresh,
           tok |-> NoToken, expiry |-> 0, stop |-> TRUE]

Sleeping(pc, wait, retry) ==
  [pc |-> pc, since |-> clock, until |-> clock + wait, retry |-> retry,
   tok |-> NoToken, expiry |-> 0, stop |-> broker.stop]

\* Whatever failed, the file stays as it is.
RefreshFailed ==
  broker' = IF broker.stop THEN Exited ELSE Sleeping("backoff", broker.retry, broker.retry)

\* fetchToken: the provider issued the token at some time since the request,
\* and the expiry is counted from the reply.
FetchReturns ==
  /\ broker.pc = "fetch" /\ "provider" \notin broken /\ ~broker.stop
  /\ \E life \in lives, issued \in broker.since .. clock :
       broker' = [broker EXCEPT
         !.pc = "create", !.expiry = IF life = 0 THEN 0 ELSE clock + life,
         !.tok = [born |-> issued, dies |-> issued + IF life = 0 THEN Undeclared ELSE life]]
  /\ UNCHANGED <<world, tmp, file, source>>

\* An error, the timeout, or the context's end.
FetchFails ==
  /\ broker.pc = "fetch"
  /\ broker.stop \/ "provider" \in broken \/ calm > broker.since
  /\ RefreshFailed
  /\ UNCHANGED <<world, tmp, file, source>>

\* Mutant: the token is written in place.
CreateInPlace ==
  /\ broker.pc = "create"
  /\ tmp' = Partial /\ file' = Partial
  /\ broker' = [broker EXCEPT !.pc = "write"]
  /\ UNCHANGED <<world, source>>

\* writeTokenAtomic, to the creation of the temporary file.
Create ==
  /\ broker.pc = "create"
  /\ tmp' = Partial
  /\ broker' = [broker EXCEPT !.pc = "write"]
  /\ UNCHANGED <<world, file, source>>

Write ==
  /\ broker.pc = "write"
  /\ tmp' = broker.tok
  /\ broker' = [broker EXCEPT !.pc = "rename"]
  /\ UNCHANGED <<world, file, source>>

Rename ==
  /\ broker.pc = "rename"
  /\ file' = tmp /\ tmp' = NoToken
  /\ broker' = Sleeping("sleep", nextRefresh(broker.expiry), MinRefresh)
  /\ UNCHANGED <<world, source>>

\* An error of any of the three, with the cleanup of the temporary file.
WriteFails ==
  /\ broker.pc \in {"create", "write", "rename"} /\ "volume" \in broken
  /\ tmp' = NoToken
  /\ RefreshFailed
  /\ UNCHANGED <<world, file, source>>

Wake ==
  /\ broker.pc \in {"sleep", "backoff"} /\ clock >= broker.until /\ ~broker.stop
  /\ broker' = Fetching(IF broker.pc = "backoff" THEN nextRetry(broker.retry) ELSE broker.retry)
  /\ UNCHANGED <<world, tmp, file, source>>

\* The canceled context ends a sleep.
Exit ==
  /\ broker.pc \in {"sleep", "backoff"} /\ broker.stop
  /\ broker' = Exited
  /\ UNCHANGED <<world, tmp, file, source>>

Signal ==
  /\ broker.pc # "exited" /\ ~broker.stop /\ faults < MaxFaults
  /\ faults' = faults + 1
  /\ broker' = [broker EXCEPT !.stop = TRUE]
  /\ UNCHANGED <<lives, clock, broken, calm, tmp, file, source>>

\* The kubelet starts the container again after an exit or a crash.  The
\* volume keeps the token.
Restart ==
  /\ faults < MaxFaults
  /\ faults' = faults + 1 /\ calm' = clock
  /\ broker' = Fetching(MinRefresh)
  /\ tmp' = NoToken
  /\ UNCHANGED <<lives, clock, broken, file, source>>

-----------------------------------------------------------------------------
(* FileTokenSource                                                         *)

\* readLocked fails on a file that is missing or empty, or on a broken volume.
Readable == file # NoToken /\ "volume" \notin broken

Stopped == [up |-> FALSE, cached |-> NoToken, cachedAt |-> 0]

NewFileTokenSource ==
  /\ ~source.up /\ Readable
  /\ source' = [up |-> TRUE, cached |-> file, cachedAt |-> clock]
  /\ UNCHANGED <<world, broker, tmp, file>>

\* The source after a Get at this moment.
GetReads ==
  IF source.up /\ clock - source.cachedAt >= CacheTTL /\ Readable
  THEN [source EXCEPT !.cached = file, !.cachedAt = clock]
  ELSE source

Get ==
  /\ source' = GetReads
  /\ UNCHANGED <<world, broker, tmp, file>>

OperatorDies ==
  /\ source.up /\ faults < MaxFaults
  /\ faults' = faults + 1
  /\ source' = Stopped
  /\ UNCHANGED <<lives, clock, broken, calm, broker, tmp, file>>

-----------------------------------------------------------------------------
(* The world                                                               *)

Break(what) ==
  /\ what \notin broken /\ faults < MaxFaults
  /\ faults' = faults + 1
  /\ broken' = broken \cup {what}
  /\ UNCHANGED <<lives, clock, calm, broker, tmp, file, source>>

Repair(what) ==
  /\ what \in broken
  /\ broken' = broken \ {what} /\ calm' = clock
  /\ UNCHANGED <<lives, clock, faults, broker, tmp, file, source>>

\* Timers fire in time, requests respect their timeout and file operations
\* take none.
Tick ==
  /\ clock < MaxClock
  /\ broker.pc \in {"fetch", "sleep", "backoff", "exited"}
  /\ broker.pc = "exited" \/ clock < broker.until
  /\ clock' = clock + 1
  /\ calm' = IF broken = {} THEN calm ELSE clock'
  /\ UNCHANGED <<lives, broken, faults, broker, tmp, file, source>>

TimeUp == clock = MaxClock /\ UNCHANGED vars

Init ==
  /\ lives \in Providers
  /\ clock = 0 /\ broken = {} /\ calm = 0 /\ faults = 0
  /\ broker = Fetching(MinRefresh)
  /\ tmp = NoToken /\ file = NoToken /\ source = Stopped

LoopStep == FetchReturns \/ FetchFails \/ Create \/ Write \/ Rename \/ WriteFails \/ Wake \/ Exit

Next ==
  \/ LoopStep \/ Signal \/ Restart
  \/ NewFileTokenSource \/ Get \/ OperatorDies
  \/ \E what \in {"provider", "volume"} : Break(what) \/ Repair(what)
  \/ Tick \/ TimeUp

Spec == Init /\ [][Next]_vars

-----------------------------------------------------------------------------
\* The types, with a retry delay between the two limits even where doubling
\* it overflows.
TypeOK ==
  /\ clock \in 0 .. MaxClock /\ calm \in 0 .. clock
  /\ broken \subseteq {"provider", "volume"}
  /\ broker.pc \in {"fetch", "create", "write", "rename", "sleep", "backoff", "exited"}
  /\ broker.retry \in MinRefresh .. MaxRetry
  /\ file.born \in -1 .. clock /\ source.cached.born \in -1 .. clock

\* How long after the last failure the token may still be out of date: a fetch
\* that fails late, the longest delay, a fetch that succeeds, and the cache.
Recovery == FetchTimeout + MaxRetry + FetchTimeout + CacheTTL

\* What the loop's configuration must allow for: a token issued when its fetch
\* began, another fetch, and the cache, within the skew before the expiry or
\* after the shortest refresh interval.
RefreshedInTime ==
  LET margin == FetchTimeout + FetchTimeout + CacheTTL
  IN /\ RefreshSkew >= margin
     /\ \A life \in lives :
          (IF life = 0 THEN Undeclared ELSE life) >= MinRefresh + margin

\* Once everything has worked for that long, every request of the operator
\* carries a token that has not expired: the loop backs off no longer than
\* its limit, refreshes before the expiry, and the cache is reread in time.
TokenFresh ==
  (RefreshedInTime /\ source.up /\ broken = {} /\ ~broker.stop /\ clock - calm >= Recovery)
    => GetReads.cached.dies > clock

\* Whoever reads the file finds a whole token: after the first it is only ever
\* replaced by the next one, and the operator never goes back to an older one.
TokensAdvance ==
  [][/\ file' # file => file' = broker.tok /\ file'.born >= file.born
     /\ source'.up =>
          /\ source'.cached \in {source.cached, file} \ {NoToken, Partial}
          /\ source'.cached.born >= source.cached.born]_vars

\* The loop asks the provider again only after the shortest interval, whatever
\* the token's expiry and however many requests have failed.
NeverSpins ==
  [][(broker.pc \in {"sleep", "backoff"} /\ broker'.pc = "fetch" /\ faults' = faults)
       => clock - broker.since >= MinRefresh]_vars
=============================================================================
