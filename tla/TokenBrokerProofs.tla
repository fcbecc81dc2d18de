-------------------------- MODULE TokenBrokerProofs --------------------------
(***************************************************************************)
(* Once everything has worked for long enough, the operator's requests     *)
(* carry tokens that have not expired, for any lifetimes and any           *)
(* configuration of the loop that leaves the time for it.  The invariant   *)
(* follows the token from the reply to the cache: how long the file still  *)
(* lasts when the loop wakes, when its fetch ends, and when it was read.   *)
(***************************************************************************)
EXTENDS TokenBroker, TLAPS

Token == [born : Int, dies : Int]

Broker == [pc : {"fetch", "create", "write", "rename", "sleep", "backoff", "exited"},
           since : Nat, until : Nat, retry : MinRefresh .. MaxRetry, tok : Token,
           expiry : Nat, stop : BOOLEAN]

Types ==
  /\ lives \in Providers /\ clock \in Nat /\ calm \in Nat /\ calm <= clock /\ faults \in Nat
  /\ broker \in Broker /\ tmp \in Token /\ file \in Token
  /\ source \in [up : BOOLEAN, cached : Token, cachedAt : Nat]

Writing == broker.pc \in {"create", "write", "rename"}
Requesting == broker.pc = "fetch" \/ Writing

\* How long a token lasts.
Span(life) == IF life = 0 THEN Undeclared ELSE life

\* The loop's timers, and the token it is about to store.
Loop ==
  /\ broker.pc = "exited" => broker.stop
  /\ broker.pc # "exited" => broker.since <= clock /\ clock <= broker.until
  /\ Requesting => broker.until = broker.since + FetchTimeout
  /\ broker.pc \in {"sleep", "backoff"} => broker.until >= broker.since + MinRefresh
  /\ broker.pc = "backoff" => broker.until <= broker.since + MaxRetry
  /\ Writing =>
       /\ broker.since <= broker.tok.born /\ broker.tok.born <= clock
       /\ \E life \in lives : /\ broker.tok.dies = broker.tok.born + Span(life)
                              /\ broker.expiry = IF life = 0 THEN 0 ELSE clock + life
  /\ broker.pc = "rename" => tmp = broker.tok

\* Tokens come in the order of their issue.
Order ==
  /\ file = NoToken \/ file.born >= 0
  /\ file.born <= clock /\ (Requesting => file.born <= broker.since)
  /\ source.cached.born <= file.born /\ source.cachedAt <= clock
  /\ source.up => source.cached.born >= 0

\* Nothing is broken, and the broker is not about to exit.
Works == RefreshedInTime /\ broken = {} /\ ~broker.stop

\* How long the tokens in the file and in the cache still last.
Lasts ==
  /\ RefreshedInTime /\ broker.pc = "sleep" => file.dies >= broker.until + FetchTimeout + CacheTTL
  /\ Works /\ broker.pc = "backoff" => broker.since <= calm + FetchTimeout
  /\ Works /\ Requesting /\ broker.since > calm + FetchTimeout + MaxRetry
       => file.dies >= broker.since + FetchTimeout + CacheTTL
  /\ Works /\ source.up /\ source.cachedAt > calm + FetchTimeout + MaxRetry + FetchTimeout
       => source.cached.dies >= source.cachedAt + CacheTTL

IInv == Types /\ Loop /\ Order /\ Lasts

-----------------------------------------------------------------------------
(* The operators the model is built from.                                  *)

\* Doubling the delay leaves it within the limits, also where it overflows.
LEMMA RetryBounded ==
  ASSUME NEW r \in MinRefresh .. MaxRetry
  PROVE  nextRetry(r) \in MinRefresh .. MaxRetry
<1>1. /\ MinRefresh \in Nat \ {0} /\ MaxRetry \in Nat /\ MaxRetry >= MinRefresh
      /\ Int64 \in Nat /\ MaxRetry < Int64
  BY BrokerAssumption
<1>2. PICK n : n = Wrap(r * 2)
  OBVIOUS
<1>3. n \in Int /\ (n = r * 2 \/ n < 0)
  <2>1. CASE r * 2 < Int64
    <3>1. (r * 2 + Int64) % (2 * Int64) = r * 2 + Int64
      BY <1>1, <2>1
    <3> QED BY <1>1, <1>2, <3>1 DEF Wrap
  <2>2. CASE r * 2 >= Int64
    <3>1. (r * 2 + Int64) % (2 * Int64) = r * 2 - Int64
      BY <1>1, <2>2
    <3> QED BY <1>1, <1>2, <3>1 DEF Wrap
  <2> QED BY <1>1, <2>1, <2>2
<1>4. nextRetry(r) = IF n <= 0 \/ n > MaxRetry THEN MaxRetry ELSE n
  BY <1>2, Zenon DEF nextRetry
<1> QED BY <1>1, <1>3, <1>4

\* What the loop waits after a refresh: at least the shortest interval, and
\* otherwise until the skew before the expiry.
LEMMA RefreshWait ==
  ASSUME clock \in Nat, NEW e \in Nat
  PROVE  /\ nextRefresh(e) \in Nat /\ nextRefresh(e) >= MinRefresh
         /\ nextRefresh(e) = MinRefresh \/ (e # 0 /\ nextRefresh(e) = e - clock - RefreshSkew)
BY BrokerAssumption DEF nextRefresh

-----------------------------------------------------------------------------
(* Every action preserves the invariant.                                   *)

\* The constants are numbers.
LEMMA Constants ==
  /\ RefreshSkew \in Nat /\ MinRefresh \in Nat \ {0} /\ FetchTimeout \in Nat \ {0}
  /\ MaxRetry \in Nat /\ MaxRetry >= MinRefresh /\ CacheTTL \in Nat \ {0} /\ Undeclared \in Nat
  /\ NoToken \in Token /\ Partial \in Token /\ NoToken.born = -1 /\ NoToken.dies = 0
  /\ MinRefresh \in MinRefresh .. MaxRetry
BY BrokerAssumption DEF Token, NoToken, Partial

\* The configuration leaves the time for refreshes, or does not, for good.
LEMMA SameProvider ==
  ASSUME lives' = lives
  PROVE  RefreshedInTime' <=> RefreshedInTime
BY Zenon DEF RefreshedInTime

\* A fetch begins.
LEMMA FetchingIs ==
  ASSUME IInv, NEW r \in MinRefresh .. MaxRetry
  PROVE  /\ Fetching(r) \in Broker /\ Fetching(r).pc = "fetch" /\ Fetching(r).since = clock
         /\ Fetching(r).until = clock + FetchTimeout /\ Fetching(r).retry = r /\ Fetching(r).stop = FALSE
BY Constants DEF IInv, Types, Fetching, Broker

\* A sleep begins.
LEMMA SleepingIs ==
  ASSUME IInv, NEW pc \in {"sleep", "backoff"}, NEW n \in Nat, NEW r \in MinRefresh .. MaxRetry
  PROVE  LET b == Sleeping(pc, n, r)
         IN /\ b \in Broker /\ b.pc = pc /\ b.since = clock /\ b.until = clock + n
            /\ b.retry = r /\ b.stop = broker.stop
BY Constants DEF IInv, Types, Sleeping, Broker

\* The process has ended.
LEMMA ExitedIs == Exited \in Broker /\ Exited.pc = "exited" /\ Exited.stop = TRUE
BY Constants DEF Exited, Broker

\* Steps of the loop that leave the files and the cache alone.
LEMMA LoopOnly ==
  ASSUME IInv, UNCHANGED <<world, file, source>>, broker' \in Broker, tmp' \in Token, Loop',
         Requesting' => file.born <= broker'.since,
         broker.stop => broker'.stop,
         RefreshedInTime /\ broker'.pc = "sleep" => file.dies >= broker'.until + FetchTimeout + CacheTTL,
         Works' /\ broker'.pc = "backoff" => broker'.since <= calm + FetchTimeout,
         Works' /\ Requesting' /\ broker'.since > calm + FetchTimeout + MaxRetry
           => file.dies >= broker'.since + FetchTimeout + CacheTTL
  PROVE  IInv'
<1>1. /\ lives' = lives /\ clock' = clock /\ calm' = calm /\ faults' = faults /\ broken' = broken
      /\ file' = file /\ source' = source
  BY DEF world
<1>2. Types'
  BY <1>1, Zenon DEF IInv, Types
<1>3. Order'
  BY <1>1, Zenon DEF IInv, Order
<1>4. RefreshedInTime' <=> RefreshedInTime
  BY <1>1, SameProvider, Zenon
<1>5. Works' => Works
  BY <1>1, <1>4, Zenon DEF Works
<1>6. Lasts'
  BY <1>1, <1>4, <1>5, Zenon DEF IInv, Lasts
<1> QED BY <1>2, <1>3, <1>6, Zenon DEF IInv

\* The place of the loop moves on within a refresh.
LEMMA Moved ==
  ASSUME broker \in Broker, NEW pc \in {"write", "rename"}, broker' = [broker EXCEPT !.pc = pc]
  PROVE  /\ broker' \in Broker /\ broker'.pc = pc /\ broker'.since = broker.since
         /\ broker'.until = broker.until /\ broker'.tok = broker.tok /\ broker'.expiry = broker.expiry
         /\ broker'.retry = broker.retry /\ broker'.stop = broker.stop
BY DEF Broker

\* The reply arrives: the token is as old as the request at most.
LEMMA IFetchReturns ==
  ASSUME IInv, FetchReturns
  PROVE  IInv'
<1>1. PICK life \in lives, issued \in broker.since .. clock :
        broker' = [broker EXCEPT
          !.pc = "create", !.expiry = IF life = 0 THEN 0 ELSE clock + life,
          !.tok = [born |-> issued, dies |-> issued + IF life = 0 THEN Undeclared ELSE life]]
  BY Zenon DEF FetchReturns
<1>2. PICK t, e : t = [born |-> issued, dies |-> issued + Span(life)] /\ e = IF life = 0 THEN 0 ELSE clock + life
  BY Zenon
<1>3. /\ broker \in Broker /\ clock \in Nat /\ life \in Nat /\ broker.since \in Nat /\ issued \in Nat
      /\ broker.since <= issued /\ issued <= clock /\ Span(life) \in Nat
  <2>1. broker \in Broker /\ clock \in Nat /\ lives \in Providers
    BY Zenon DEF IInv, Types
  <2>2. life \in Nat /\ broker.since \in Nat
    BY <2>1, BrokerAssumption, Zenon DEF Broker
  <2> QED BY <2>1, <2>2, Constants DEF Span
<1>4. t \in Token /\ t.born = issued /\ t.dies = issued + Span(life) /\ e \in Nat
  BY <1>2, <1>3 DEF Token
<1>5. broker' = [broker EXCEPT !.pc = "create", !.expiry = e, !.tok = t]
  BY <1>1, <1>2, Zenon DEF Span
<1>6. /\ broker' \in Broker /\ broker'.pc = "create" /\ broker'.since = broker.since
      /\ broker'.until = broker.until /\ broker'.tok = t /\ broker'.expiry = e
      /\ broker'.retry = broker.retry /\ broker'.stop = broker.stop
  BY <1>3, <1>4, <1>5, Zenon DEF Broker
<1>7. broker.pc = "fetch" /\ UNCHANGED <<world, tmp, file, source>> /\ lives' = lives /\ clock' = clock
      /\ broken' = broken /\ calm' = calm
  BY DEF FetchReturns, world
<1>8. Loop'
  <2>1. broker.since <= clock /\ clock <= broker.until /\ broker.until = broker.since + FetchTimeout
    BY <1>7 DEF IInv, Loop, Requesting
  <2>2. \E y \in lives : t.dies = t.born + Span(y) /\ e = IF y = 0 THEN 0 ELSE clock + y
    BY <1>2, <1>4, Zenon
  <2> QED BY <1>3, <1>4, <1>6, <1>7, <2>1, <2>2 DEF Loop, Requesting, Writing, Span
<1>9. Requesting /\ Requesting' /\ broker'.pc \notin {"sleep", "backoff"}
  BY <1>6, <1>7 DEF Requesting, Writing
<1>10. Works' => Works
  BY <1>6, <1>7, SameProvider, Zenon DEF Works
<1>11. tmp' \in Token /\ file.born <= broker'.since
  BY <1>6, <1>7, <1>9, Zenon DEF IInv, Types, Order
<1> QED BY <1>6, <1>7, <1>8, <1>9, <1>10, <1>11, LoopOnly, Zenon DEF IInv, Lasts

\* The file is created, or written to.
LEMMA ICreate ==
  ASSUME IInv, Create \/ Write
  PROVE  IInv'
<1>1. /\ broker \in Broker /\ broker.tok \in Token /\ tmp' \in Token /\ UNCHANGED <<world, file, source>>
      /\ Writing /\ broker.pc # "rename"
      /\ lives' = lives /\ clock' = clock /\ broken' = broken /\ calm' = calm
  BY Constants DEF IInv, Types, Broker, Create, Write, Writing, world
<1>2. PICK pc \in {"write", "rename"} : broker' = [broker EXCEPT !.pc = pc] /\ (pc = "rename" => tmp' = broker.tok)
  BY DEF Create, Write
<1>3. /\ broker' \in Broker /\ broker'.pc = pc /\ broker'.since = broker.since
      /\ broker'.until = broker.until /\ broker'.tok = broker.tok /\ broker'.expiry = broker.expiry
      /\ broker'.stop = broker.stop
  BY <1>1, <1>2, Moved, Zenon
<1>4. Requesting /\ Requesting' /\ Writing' /\ broker'.pc \notin {"sleep", "backoff", "exited"} /\ broker.pc # "exited"
  BY <1>1, <1>3 DEF Requesting, Writing
<1>5. Loop'
  BY <1>1, <1>2, <1>3, <1>4, Zenon DEF IInv, Loop, Span
<1>6. Works' => Works
  BY <1>1, <1>3, SameProvider, Zenon DEF Works
<1> QED BY <1>1, <1>3, <1>4, <1>5, <1>6, LoopOnly, Zenon DEF IInv, Lasts, Order

\* A refresh that fails ends the loop or delays it.
LEMMA IFails ==
  ASSUME IInv, FetchFails \/ WriteFails
  PROVE  IInv'
<1>1. /\ broker \in Broker /\ broker.retry \in MinRefresh .. MaxRetry /\ broker.retry \in Nat
      /\ clock \in Nat /\ calm \in Nat /\ broker.since \in Nat /\ broker.stop \in BOOLEAN
  BY Constants DEF IInv, Types, Broker
<1>2. /\ RefreshFailed /\ UNCHANGED <<world, file, source>> /\ tmp' \in Token
      /\ lives' = lives /\ clock' = clock /\ broken' = broken /\ calm' = calm
  BY Constants DEF FetchFails, WriteFails, world, IInv, Types
<1>3. CASE broker.stop
  <2>1. broker' = Exited
    BY <1>2, <1>3, Zenon DEF RefreshFailed
  <2>2. broker' \in Broker /\ broker'.pc = "exited" /\ broker'.stop
    BY <2>1, ExitedIs, Zenon
  <2>3. ~Requesting' /\ Loop' /\ broker'.pc \notin {"sleep", "backoff"}
    BY <2>2 DEF Requesting, Writing, Loop
  <2> QED BY <1>2, <2>2, <2>3, LoopOnly, Zenon
<1>4. CASE ~broker.stop
  <2>1. broker' = Sleeping("backoff", broker.retry, broker.retry)
    BY <1>2, <1>4, Zenon DEF RefreshFailed
  <2>2. /\ broker' \in Broker /\ broker'.pc = "backoff" /\ broker'.since = clock
        /\ broker'.until = clock + broker.retry /\ broker'.stop = broker.stop
    BY <1>1, <2>1, SleepingIs
  <2>3. ~Requesting' /\ broker'.pc # "sleep"
    BY <2>2 DEF Requesting, Writing
  <2>4. Loop'
    BY <1>1, <1>2, <2>2, <2>3, Constants DEF Loop, Requesting, Writing
  <2>5. ASSUME broken = {} PROVE clock <= calm + FetchTimeout
    <3>1. broker.pc = "fetch" /\ calm > broker.since
      BY <1>4, <2>5, Zenon DEF FetchFails, WriteFails
    <3>2. clock <= broker.until /\ broker.until = broker.since + FetchTimeout
      BY <3>1 DEF IInv, Loop, Requesting
    <3> QED BY <1>1, <3>1, <3>2, Constants
  <2>6. Works' => broker'.since <= calm + FetchTimeout
    BY <1>2, <2>2, <2>5, Zenon DEF Works
  <2> QED BY <1>2, <1>4, <2>2, <2>3, <2>4, <2>6, LoopOnly, Zenon
<1> QED BY <1>1, <1>3, <1>4, Zenon

\* The token that is stored outlasts the sleep, the next fetch and the cache.
LEMMA Outlasts ==
  ASSUME IInv, broker.pc = "rename", RefreshedInTime
  PROVE  broker.tok.dies >= clock + nextRefresh(broker.expiry) + FetchTimeout + CacheTTL
<1>1. Writing /\ Requesting
  BY DEF Writing, Requesting
<1>2. PICK life \in lives : /\ broker.tok.dies = broker.tok.born + Span(life)
                            /\ broker.expiry = IF life = 0 THEN 0 ELSE clock + life
  BY <1>1, Zenon DEF IInv, Loop
<1>3. /\ broker.since <= broker.tok.born /\ clock <= broker.until
      /\ broker.until = broker.since + FetchTimeout
  BY <1>1 DEF IInv, Loop, Writing
<1>4. /\ broker.since \in Nat /\ broker.until \in Nat /\ broker.tok.born \in Int
      /\ broker.expiry \in Nat /\ clock \in Nat /\ life \in Nat
  <2>1. broker \in Broker /\ clock \in Nat /\ lives \in Providers
    BY Zenon DEF IInv, Types
  <2> QED BY <2>1, BrokerAssumption, Zenon DEF Broker, Token
<1>5. /\ RefreshSkew >= FetchTimeout + FetchTimeout + CacheTTL
      /\ Span(life) >= MinRefresh + (FetchTimeout + FetchTimeout + CacheTTL)
  BY <1>2, Zenon DEF RefreshedInTime, Span
<1>6. PICK n : n = nextRefresh(broker.expiry)
  OBVIOUS
<1>7. n \in Nat /\ (n = MinRefresh \/ (broker.expiry # 0 /\ n = broker.expiry - clock - RefreshSkew))
  BY <1>4, <1>6, RefreshWait, Zenon
<1>8. Span(life) \in Nat /\ (life # 0 => Span(life) = life)
  BY <1>4, Constants DEF Span
<1>9. broker.tok.dies >= clock + n + FetchTimeout + CacheTTL
  BY <1>2, <1>3, <1>4, <1>5, <1>7, <1>8, Constants
<1> QED BY <1>6, <1>9, Zenon

\* The file is replaced.
LEMMA IRename ==
  ASSUME IInv, Rename
  PROVE  IInv'
<1>1. /\ broker.pc = "rename" /\ file' = tmp /\ tmp' = NoToken /\ UNCHANGED <<world, source>>
      /\ broker' = Sleeping("sleep", nextRefresh(broker.expiry), MinRefresh)
      /\ lives' = lives /\ clock' = clock /\ calm' = calm /\ faults' = faults /\ broken' = broken
  BY DEF Rename, world
<1>2. Writing /\ Requesting
  BY <1>1 DEF Writing, Requesting
<1>3. /\ broker \in Broker /\ broker.expiry \in Nat /\ broker.tok \in Token /\ clock \in Nat
      /\ broker.since \in Nat /\ broker.tok.born \in Int /\ file.born \in Int /\ source.cached.born \in Int
  BY Zenon DEF IInv, Types, Broker, Token
<1>4. PICK n : n = nextRefresh(broker.expiry)
  OBVIOUS
<1>5. n \in Nat /\ n >= MinRefresh
  BY <1>3, <1>4, RefreshWait, Zenon
<1>6. /\ broker' \in Broker /\ broker'.pc = "sleep" /\ broker'.since = clock /\ broker'.until = clock + n
      /\ broker'.stop = broker.stop
  <2>1. MinRefresh \in MinRefresh .. MaxRetry
    BY Constants, Zenon
  <2>2. broker' = Sleeping("sleep", n, MinRefresh)
    BY <1>1, <1>4, Zenon
  <2>3. PICK b : b = Sleeping("sleep", n, MinRefresh)
    OBVIOUS
  <2>4. /\ b \in Broker /\ b.pc = "sleep" /\ b.since = clock /\ b.until = clock + n
        /\ b.stop = broker.stop
    BY <1>5, <2>1, <2>3, SleepingIs
  <2> QED BY <2>2, <2>3, <2>4, Zenon
<1>7. /\ tmp = broker.tok /\ broker.since <= broker.tok.born /\ broker.tok.born <= clock
      /\ file.born <= broker.since /\ source.cached.born <= file.born
  BY <1>1, <1>2, Zenon DEF IInv, Loop, Order
<1>8. Types'
  BY <1>1, <1>3, <1>6, <1>7, Constants, Zenon DEF IInv, Types
<1>9. ~Requesting' /\ broker'.pc \notin {"backoff", "exited"}
  BY <1>6 DEF Requesting, Writing
<1>10. Loop'
  BY <1>1, <1>3, <1>5, <1>6, <1>9, Constants DEF Loop, Requesting, Writing
<1>11. Order'
  <2>1. file'.born >= 0 /\ file'.born <= clock' /\ source'.cached.born <= file'.born
    BY <1>1, <1>3, <1>7
  <2> QED BY <1>1, <1>9, <2>1, Zenon DEF IInv, Order
<1>12. Lasts'
  <2>1. (RefreshedInTime' <=> RefreshedInTime) /\ (Works' => Works)
    BY <1>1, <1>6, SameProvider, Zenon DEF Works
  <2>2. RefreshedInTime => file'.dies >= broker'.until + FetchTimeout + CacheTTL
    BY <1>1, <1>4, <1>6, <1>7, Outlasts, Zenon
  <2> QED BY <1>1, <1>9, <2>1, <2>2, Zenon DEF IInv, Lasts
<1> QED BY <1>8, <1>10, <1>11, <1>12, Zenon DEF IInv

\* The timer fires.
LEMMA IWake ==
  ASSUME IInv, Wake
  PROVE  IInv'
<1>1. /\ broker.pc \in {"sleep", "backoff"} /\ clock >= broker.until /\ ~broker.stop
      /\ UNCHANGED <<world, tmp, file, source>>
      /\ lives' = lives /\ clock' = clock /\ broken' = broken /\ calm' = calm
  BY DEF Wake, world
<1>2. /\ broker.retry \in MinRefresh .. MaxRetry /\ clock \in Nat /\ calm \in Nat /\ tmp \in Token
      /\ broker.since \in Nat /\ broker.until \in Nat /\ file.dies \in Int
  BY Zenon DEF IInv, Types, Broker, Token
<1>3. PICK r \in MinRefresh .. MaxRetry : broker' = Fetching(r)
  BY <1>2, RetryBounded, Zenon DEF Wake
<1>4. /\ broker' \in Broker /\ broker'.pc = "fetch" /\ broker'.since = clock
      /\ broker'.until = clock + FetchTimeout /\ broker'.stop = FALSE
  BY <1>3, FetchingIs, Zenon
<1>5. Loop'
  BY <1>1, <1>2, <1>4, Constants DEF Loop, Requesting, Writing
<1>6. file.born <= broker'.since
  BY <1>4, Zenon DEF IInv, Order
<1>7. ASSUME Works', broker'.since > calm + FetchTimeout + MaxRetry
      PROVE  file.dies >= broker'.since + FetchTimeout + CacheTTL
  <2>1. Works
    BY <1>1, <1>7, SameProvider, Zenon DEF Works
  <2>2. broker.until = clock
    BY <1>1, <1>2 DEF IInv, Loop
  <2>3. broker.pc # "backoff"
    <3>1. SUFFICES ASSUME broker.pc = "backoff" PROVE FALSE
      OBVIOUS
    <3>2. broker.since <= calm + FetchTimeout /\ broker.until <= broker.since + MaxRetry
      BY <2>1, <3>1, Zenon DEF IInv, Lasts, Loop
    <3> QED BY <1>2, <1>4, <1>7, <2>2, <3>2, Constants
  <2>4. broker.pc = "sleep" /\ RefreshedInTime
    BY <1>1, <2>1, <2>3 DEF Works
  <2>5. file.dies >= broker.until + FetchTimeout + CacheTTL
    BY <2>4, Zenon DEF IInv, Lasts
  <2> QED BY <1>4, <2>2, <2>5, Zenon
<1>8. broker'.pc \notin {"sleep", "backoff"}
  BY <1>4
<1> QED BY <1>1, <1>2, <1>4, <1>5, <1>6, <1>7, <1>8, LoopOnly, Zenon

\* The process exits.
LEMMA IExit ==
  ASSUME IInv, Exit
  PROVE  IInv'
<1>1. UNCHANGED <<world, tmp, file, source>> /\ broker' = Exited /\ tmp \in Token
  BY Zenon DEF Exit, IInv, Types
<1>2. broker' \in Broker /\ broker'.pc = "exited" /\ broker'.stop
  BY <1>1, ExitedIs, Zenon
<1>3. ~Requesting' /\ Loop' /\ broker'.pc \notin {"sleep", "backoff"}
  BY <1>2 DEF Requesting, Writing, Loop
<1> QED BY <1>1, <1>2, <1>3, LoopOnly, Zenon

\* A fault, or a signal, that the files and the cache survive.
LEMMA ISignal ==
  ASSUME IInv, Signal
  PROVE  IInv'
<1>1. /\ lives' = lives /\ clock' = clock /\ calm' = calm /\ broken' = broken /\ faults' = faults + 1
      /\ tmp' = tmp /\ file' = file /\ source' = source /\ broker' = [broker EXCEPT !.stop = TRUE]
  BY DEF Signal
<1>2. broker \in Broker /\ faults' \in Nat
  BY <1>1 DEF IInv, Types
<1>3. /\ broker' \in Broker /\ broker'.pc = broker.pc /\ broker'.since = broker.since
      /\ broker'.until = broker.until /\ broker'.tok = broker.tok /\ broker'.expiry = broker.expiry
      /\ broker'.stop
  BY <1>1, <1>2, Zenon DEF Broker
<1>4. (Requesting' <=> Requesting) /\ (Writing' <=> Writing)
  BY <1>3 DEF Requesting, Writing
<1>5. Types' /\ Loop' /\ Order'
  BY <1>1, <1>2, <1>3, <1>4, Zenon DEF IInv, Types, Loop, Order, Span
<1>6. Lasts'
  BY <1>1, <1>3, <1>4, SameProvider, Zenon DEF IInv, Lasts, Works
<1> QED BY <1>5, <1>6, Zenon DEF IInv

\* The kubelet starts the container again.
LEMMA IRestart ==
  ASSUME IInv, Restart
  PROVE  IInv'
<1>1. /\ lives' = lives /\ clock' = clock /\ calm' = clock /\ broken' = broken /\ faults' = faults + 1
      /\ tmp' = NoToken /\ file' = file /\ source' = source /\ broker' = Fetching(MinRefresh)
  BY DEF Restart
<1>2. clock \in Nat /\ faults' \in Nat /\ clock <= clock /\ source.cachedAt \in Nat /\ source.cachedAt <= clock
  BY <1>1 DEF IInv, Types, Order
<1>3. /\ broker' \in Broker /\ broker'.pc = "fetch" /\ broker'.since = clock
      /\ broker'.until = clock + FetchTimeout /\ broker'.stop = FALSE
  <2>1. MinRefresh \in MinRefresh .. MaxRetry
    BY Constants, Zenon
  <2> QED BY <1>1, <2>1, FetchingIs, Zenon
<1>4. Types'
  BY <1>1, <1>2, <1>3, Constants, Zenon DEF IInv, Types
<1>5. Loop'
  BY <1>1, <1>2, <1>3, Constants DEF Loop, Requesting, Writing
<1>6. Order'
  BY <1>1, <1>3, Zenon DEF IInv, Order
<1>7. Lasts'
  <2>1. broker'.pc \notin {"sleep", "backoff"} /\ ~(clock > clock + FetchTimeout + MaxRetry)
        /\ ~(source.cachedAt > clock + FetchTimeout + MaxRetry + FetchTimeout)
    BY <1>2, <1>3, Constants
  <2> QED BY <1>1, <1>3, <2>1, Zenon DEF Lasts
<1> QED BY <1>4, <1>5, <1>6, <1>7, Zenon DEF IInv

\* Some time after the last failure, the token in the file outlasts the cache.
LEMMA FileFresh ==
  ASSUME IInv, Works, clock > calm + FetchTimeout + MaxRetry + FetchTimeout
  PROVE  file.dies >= clock + CacheTTL
<1>1. /\ broker \in Broker /\ clock \in Nat /\ calm \in Nat /\ broker.since \in Nat /\ broker.until \in Nat
      /\ file.dies \in Int
  BY Zenon DEF IInv, Types, Broker, Token
<1>2. broker.pc # "exited" /\ broker.since <= clock /\ clock <= broker.until
  BY Zenon DEF IInv, Loop, Works
<1>3. CASE broker.pc = "sleep"
  <2>1. file.dies >= broker.until + FetchTimeout + CacheTTL
    BY <1>3, Zenon DEF IInv, Lasts, Works
  <2> QED BY <1>1, <1>2, <2>1, Constants
<1>4. CASE broker.pc = "backoff"
  <2>1. broker.since <= calm + FetchTimeout /\ broker.until <= broker.since + MaxRetry
    BY <1>4, Zenon DEF IInv, Lasts, Loop
  <2> QED BY <1>1, <1>2, <2>1, Constants
<1>5. CASE Requesting
  <2>1. broker.until = broker.since + FetchTimeout
    BY <1>5, Zenon DEF IInv, Loop
  <2>2. broker.since > calm + FetchTimeout + MaxRetry
    BY <1>1, <1>2, <2>1, Constants
  <2>3. file.dies >= broker.since + FetchTimeout + CacheTTL
    BY <1>5, <2>2, Zenon DEF IInv, Lasts
  <2> QED BY <1>1, <1>2, <2>1, <2>3, Constants
<1> QED BY <1>1, <1>2, <1>3, <1>4, <1>5 DEF Broker, Requesting, Writing

\* What the source may become: as it was, stopped, or with what the file says.
LEMMA ISource ==
  ASSUME IInv, UNCHANGED <<lives, clock, broken, calm, broker, tmp, file>>, faults' \in Nat,
         \/ source' = source \/ source' = Stopped
         \/ /\ file # NoToken /\ source' \in [up : BOOLEAN, cached : Token, cachedAt : Nat]
            /\ source'.cached = file /\ source'.cachedAt = clock
  PROVE  IInv'
<1>1. /\ lives' = lives /\ clock' = clock /\ calm' = calm /\ broken' = broken
      /\ broker' = broker /\ tmp' = tmp /\ file' = file
  OBVIOUS
<1>2. /\ clock \in Nat /\ file \in Token /\ file.born \in Int
      /\ source \in [up : BOOLEAN, cached : Token, cachedAt : Nat]
  BY Zenon DEF IInv, Types, Token
<1>3. (Requesting' <=> Requesting) /\ (Writing' <=> Writing) /\ (Works' <=> Works)
      /\ (RefreshedInTime' <=> RefreshedInTime)
  BY <1>1, SameProvider, Zenon DEF Requesting, Writing, Works
<1>4. Loop'
  BY <1>1, <1>3, Zenon DEF IInv, Loop, Span
<1>5. CASE source' = source
  BY <1>1, <1>3, <1>4, <1>5, Zenon DEF IInv, Types, Order, Lasts
<1>6. CASE source' = Stopped
  <2>1. /\ Stopped \in [up : BOOLEAN, cached : Token, cachedAt : Nat] /\ ~Stopped.up
        /\ Stopped.cached = NoToken /\ Stopped.cachedAt = 0
    BY Constants DEF Stopped
  <2>2. Stopped.cached.born <= file.born /\ 0 <= clock
    BY <1>2, <2>1, Constants DEF IInv, Order
  <2> QED BY <1>1, <1>3, <1>4, <1>6, <2>1, <2>2, Zenon DEF IInv, Types, Order, Lasts
<1>7. CASE /\ file # NoToken /\ source' \in [up : BOOLEAN, cached : Token, cachedAt : Nat]
           /\ source'.cached = file /\ source'.cachedAt = clock
  <2>1. file.born >= 0 /\ file.born <= file.born /\ clock <= clock
    BY <1>2, <1>7 DEF IInv, Order
  <2>2. Works /\ clock > calm + FetchTimeout + MaxRetry + FetchTimeout => file.dies >= clock + CacheTTL
    BY FileFresh, Zenon
  <2> QED BY <1>1, <1>3, <1>4, <1>7, <2>1, <2>2, Zenon DEF IInv, Types, Order, Lasts
<1> QED BY <1>5, <1>6, <1>7, Zenon

\* The steps of the operator.
LEMMA IOperator ==
  ASSUME IInv, NewFileTokenSource \/ Get \/ OperatorDies
  PROVE  IInv'
<1>1. UNCHANGED <<lives, clock, broken, calm, broker, tmp, file>> /\ faults' \in Nat
  BY DEF NewFileTokenSource, Get, OperatorDies, world, IInv, Types
<1>2. /\ source \in [up : BOOLEAN, cached : Token, cachedAt : Nat] /\ file \in Token /\ clock \in Nat
  BY Zenon DEF IInv, Types
<1>3. CASE NewFileTokenSource
  <2>1. source' = [up |-> TRUE, cached |-> file, cachedAt |-> clock] /\ file # NoToken
    BY <1>3, Zenon DEF NewFileTokenSource, Readable
  <2>2. /\ source' \in [up : BOOLEAN, cached : Token, cachedAt : Nat]
        /\ source'.cached = file /\ source'.cachedAt = clock
    BY <1>2, <2>1
  <2> QED BY <1>1, <2>1, <2>2, ISource, Zenon
<1>4. CASE Get
  <2>1. source' = source \/ (source' = [source EXCEPT !.cached = file, !.cachedAt = clock] /\ file # NoToken)
    BY <1>4, Zenon DEF Get, GetReads, Readable
  <2>2. CASE source' = source
    BY <1>1, <2>2, ISource, Zenon
  <2>3. CASE source' = [source EXCEPT !.cached = file, !.cachedAt = clock] /\ file # NoToken
    <3>1. /\ source' \in [up : BOOLEAN, cached : Token, cachedAt : Nat]
          /\ source'.cached = file /\ source'.cachedAt = clock
      BY <1>2, <2>3, Zenon
    <3> QED BY <1>1, <2>3, <3>1, ISource, Zenon
  <2> QED BY <2>1, <2>2, <2>3, Zenon
<1>5. CASE OperatorDies
  BY <1>1, <1>5, ISource, Zenon DEF OperatorDies
<1> QED BY <1>3, <1>4, <1>5, Zenon

\* What happens to the provider and the volume, and the passage of time.
LEMMA IWorld ==
  ASSUME IInv, UNCHANGED <<lives, broker, tmp, file, source>>, faults' \in Nat,
         clock' \in Nat, calm' \in Nat, calm' <= clock', clock <= clock',
         broker.pc # "exited" => clock' <= broker.until,
         Writing => clock' = clock,
         broken' # {} \/ calm' = clock \/ (broken' = broken /\ calm' = calm)
  PROVE  IInv'
<1>1. lives' = lives /\ broker' = broker /\ tmp' = tmp /\ file' = file /\ source' = source
  OBVIOUS
<1>2. /\ clock \in Nat /\ calm \in Nat /\ broker.since \in Nat /\ file.born \in Int /\ source.cachedAt \in Nat
  BY Zenon DEF IInv, Types, Token, Broker
<1>3. (Requesting' <=> Requesting) /\ (Writing' <=> Writing) /\ (RefreshedInTime' <=> RefreshedInTime)
  BY <1>1, SameProvider, Zenon DEF Requesting, Writing
<1>4. Types'
  BY <1>1, Zenon DEF IInv, Types
<1>5. Loop'
  <2>1. broker.since <= clock => broker.since <= clock'
    BY <1>2
  <2> QED BY <1>1, <1>3, <2>1, Zenon DEF IInv, Loop, Span
<1>6. Order'
  <2>1. (file.born <= clock => file.born <= clock') /\ (source.cachedAt <= clock => source.cachedAt <= clock')
    BY <1>2
  <2> QED BY <1>1, <1>3, <2>1, Zenon DEF IInv, Order
<1>7. Lasts'
  <2>1. CASE broken' # {}
    BY <1>1, <1>3, <2>1, Zenon DEF IInv, Lasts, Works
  <2>2. CASE calm' = clock
    <3>1. /\ broker.pc # "exited" => broker.since <= clock /\ ~(broker.since > clock + FetchTimeout + MaxRetry)
                                     /\ broker.since <= clock + FetchTimeout
          /\ ~(source.cachedAt > clock + FetchTimeout + MaxRetry + FetchTimeout)
      BY <1>2, Constants DEF IInv, Loop, Order
    <3>2. Requesting \/ broker.pc = "backoff" => broker.pc # "exited"
      BY DEF Requesting, Writing
    <3> QED BY <1>1, <1>3, <2>2, <3>1, <3>2, Zenon DEF IInv, Lasts
  <2>3. CASE broken' = broken /\ calm' = calm
    BY <1>1, <1>3, <2>3, Zenon DEF IInv, Lasts, Works
  <2> QED BY <2>1, <2>2, <2>3, Zenon
<1> QED BY <1>4, <1>5, <1>6, <1>7, Zenon DEF IInv

\* Every step preserves the invariant.
LEMMA INext ==
  ASSUME IInv, [Next]_vars
  PROVE  IInv'
<1>1. /\ clock \in Nat /\ calm \in Nat /\ faults \in Nat /\ calm <= clock
      /\ broker.until \in Nat /\ (broker.pc # "exited" => clock <= broker.until)
  BY Zenon DEF IInv, Types, Broker, Loop
<1>2. ASSUME NEW what, Break(what) PROVE IInv'
  <2>1. /\ UNCHANGED <<lives, broker, tmp, file, source>> /\ faults' = faults + 1
        /\ clock' = clock /\ calm' = calm /\ broken' # {}
    BY <1>2 DEF Break
  <2>2. faults' \in Nat /\ clock <= clock
    BY <1>1, <2>1
  <2> QED BY <1>1, <2>1, <2>2, IWorld, Zenon
<1>3. ASSUME NEW what, Repair(what) PROVE IInv'
  <2>1. UNCHANGED <<lives, broker, tmp, file, source>> /\ faults' = faults /\ clock' = clock /\ calm' = clock
    BY <1>3 DEF Repair
  <2>2. clock <= clock
    BY <1>1
  <2> QED BY <1>1, <2>1, <2>2, IWorld, Zenon
<1>4. ASSUME Tick PROVE IInv'
  <2>1. /\ UNCHANGED <<lives, broker, tmp, file, source>> /\ faults' = faults /\ broken' = broken
        /\ clock' = clock + 1 /\ (broker.pc = "exited" \/ clock < broker.until)
        /\ broker.pc \in {"fetch", "sleep", "backoff", "exited"}
        /\ calm' = IF broken = {} THEN calm ELSE clock'
    BY <1>4, Zenon DEF Tick
  <2>2. /\ clock' \in Nat /\ calm' \in Nat /\ calm' <= clock' /\ clock <= clock'
        /\ (broker.pc # "exited" => clock' <= broker.until) /\ ~Writing
    BY <1>1, <2>1 DEF Writing
  <2> QED BY <1>1, <2>1, <2>2, IWorld, Zenon
<1>5. ASSUME UNCHANGED vars PROVE IInv'
  <2>1. UNCHANGED <<lives, broker, tmp, file, source>> /\ faults' = faults /\ clock' = clock
        /\ broken' = broken /\ calm' = calm
    BY <1>5 DEF vars
  <2>2. clock <= clock
    BY <1>1
  <2> QED BY <1>1, <2>1, <2>2, IWorld, Zenon
<1> QED BY <1>2, <1>3, <1>4, <1>5, IFetchReturns, ICreate, IFails, IRename, IWake, IExit,
        ISignal, IRestart,
           IOperator, Zenon DEF Next, LoopStep, TimeUp

\* The first fetch begins, and there is no token yet.
LEMMA IInit ==
  ASSUME Init
  PROVE  IInv
<1>1. /\ lives \in Providers /\ clock = 0 /\ broken = {} /\ calm = 0 /\ faults = 0
      /\ broker = Fetching(MinRefresh) /\ tmp = NoToken /\ file = NoToken /\ source = Stopped
  BY DEF Init
<1>2. /\ broker \in Broker /\ broker.pc = "fetch" /\ broker.since = 0 /\ broker.until = FetchTimeout
  BY <1>1, Constants DEF Fetching, Broker
<1>3. /\ source \in [up : BOOLEAN, cached : Token, cachedAt : Nat] /\ ~source.up
      /\ source.cached = NoToken /\ source.cachedAt = 0
  BY <1>1, Constants DEF Stopped
<1>4. Types
  BY <1>1, <1>2, <1>3, Constants DEF Types
<1>5. Loop
  BY <1>1, <1>2, Constants DEF Loop, Requesting, Writing
<1>6. Order
  BY <1>1, <1>2, <1>3, Constants DEF Order
<1>7. Lasts
  BY <1>1, <1>2, <1>3, Constants DEF Lasts
<1> QED BY <1>4, <1>5, <1>6, <1>7, Zenon DEF IInv

\* The invariant of the loop, the file and the cache.
THEOREM Invariance == Spec => []IInv
BY IInit, INext, PTL DEF Spec

\* Once everything has worked for long enough, the token that a Get returns
\* (FileTokenSource.Get, tokensource.go) has not expired: for any lifetimes
\* and any delays, if the configuration leaves the time for a refresh.
THEOREM Fresh == Spec => []TokenFresh
<1>1. ASSUME IInv PROVE TokenFresh
  <2> SUFFICES ASSUME RefreshedInTime, source.up, broken = {}, ~broker.stop, clock - calm >= Recovery
               PROVE  GetReads.cached.dies > clock
    BY Zenon DEF TokenFresh
  <2>1. /\ source \in [up : BOOLEAN, cached : Token, cachedAt : Nat] /\ file \in Token /\ file.dies \in Int
        /\ clock \in Nat /\ calm \in Nat /\ source.cachedAt \in Nat /\ source.cached.dies \in Int
    BY <1>1, Zenon DEF IInv, Types, Token
  <2>2. Works
    BY Zenon DEF Works
  <2>3. clock > calm + FetchTimeout + MaxRetry + FetchTimeout
    BY <2>1, Constants DEF Recovery
  <2>4. file.dies >= clock + CacheTTL
    BY <1>1, <2>2, <2>3, FileFresh, Zenon
  <2>5. file # NoToken /\ file.dies > clock
    BY <2>1, <2>4, Constants
  <2>6. Readable
    BY <2>5 DEF Readable
  <2>7. CASE clock - source.cachedAt >= CacheTTL
    <3>1. GetReads = [source EXCEPT !.cached = file, !.cachedAt = clock]
      BY <2>6, <2>7, Zenon DEF GetReads
    <3>2. GetReads.cached = file
      BY <2>1, <3>1
    <3> QED BY <2>5, <3>2, Zenon
  <2>8. CASE ~(clock - source.cachedAt >= CacheTTL)
    <3>1. GetReads = source
      BY <2>8, Zenon DEF GetReads
    <3>2. source.cachedAt > calm + FetchTimeout + MaxRetry + FetchTimeout
      BY <2>1, <2>8, Constants DEF Recovery
    <3>3. source.cached.dies >= source.cachedAt + CacheTTL
      BY <1>1, <2>2, <3>2, Zenon DEF IInv, Lasts
    <3>4. source.cached.dies > clock
      BY <2>1, <2>8, <3>3, Constants
    <3> QED BY <3>1, <3>4, Zenon
  <2> QED BY <2>7, <2>8, Zenon
<1> QED BY <1>1, Invariance, PTL

\* The file is only ever replaced by the next whole token (writeTokenAtomic),
\* and the operator's cache never goes back to an older one.
THEOREM Advance == Spec => TokensAdvance
<1> DEFINE A == /\ file' # file => file' = broker.tok /\ file'.born >= file.born
                /\ source'.up =>
                     /\ source'.cached \in {source.cached, file} \ {NoToken, Partial}
                     /\ source'.cached.born >= source.cached.born
<1>1. ASSUME IInv, IInv', [Next]_vars PROVE A
  <2>1. ASSUME file' # file PROVE file' = broker.tok /\ file'.born >= file.born
    <3>1. Rename
      BY <1>1, <2>1, Zenon DEF Next, LoopStep, FetchReturns, FetchFails, Create, Write,
          WriteFails, Wake, Exit,
         Signal, Restart, NewFileTokenSource, Get, OperatorDies, Break, Repair, Tick, TimeUp, vars
    <3>2. broker.pc = "rename" /\ file' = tmp /\ Writing /\ Requesting
      BY <3>1 DEF Rename, Writing, Requesting
    <3>3. file' = broker.tok /\ file.born <= broker.since /\ broker.since <= broker.tok.born
      BY <1>1, <3>2, Zenon DEF IInv, Loop, Order
    <3>4. broker.since \in Nat /\ file.born \in Int /\ broker.tok.born \in Int
      BY <1>1, Zenon DEF IInv, Types, Broker, Token
    <3> QED BY <3>3, <3>4
  <2>2. ASSUME source'.up
        PROVE  /\ source'.cached \in {source.cached, file} \ {NoToken, Partial}
               /\ source'.cached.born >= source.cached.born
    <3>1. /\ source \in [up : BOOLEAN, cached : Token, cachedAt : Nat]
          /\ source.cached.born \in Int /\ file.born \in Int /\ source.cached.born <= file.born
      BY <1>1, Zenon DEF IInv, Types, Token, Order
    <3>2. source'.cached = source.cached \/ source'.cached = file
      <4>1. CASE NewFileTokenSource
        BY <4>1 DEF NewFileTokenSource
      <4>2. CASE Get
        BY <3>1, <4>2 DEF Get, GetReads
      <4>3. CASE OperatorDies
        BY <2>2, <4>3 DEF OperatorDies, Stopped
      <4>4. CASE source' = source
        BY <4>4, Zenon
      <4> QED BY <1>1, <4>1, <4>2, <4>3, <4>4, Zenon DEF Next, LoopStep, FetchReturns,
              FetchFails, Create,
                 Write, Rename, WriteFails, Wake, Exit, Signal, Restart, Break, Repair, Tick, TimeUp, vars
    <3>3. source'.cached.born >= 0
      BY <1>1, <2>2, Zenon DEF IInv, Order
    <3>4. source'.cached \notin {NoToken, Partial}
      BY <3>3 DEF NoToken, Partial
    <3>5. source'.cached.born >= source.cached.born
      BY <3>1, <3>2
    <3> QED BY <3>2, <3>4, <3>5, Zenon
  <2> QED BY <2>1, <2>2, Zenon
<1>2. IInv /\ IInv' /\ [Next]_vars => [A]_vars
  BY <1>1, Zenon
<1>3. Spec => [][Next]_vars
  BY PTL DEF Spec
<1> QED BY <1>2, <1>3, Invariance, PTL DEF TokensAdvance

\* Whatever the expiry and however many requests have failed, runLoop asks the
\* provider again only after the shortest interval.
THEOREM Paced == Spec => NeverSpins
<1> DEFINE A == (broker.pc \in {"sleep", "backoff"} /\ broker'.pc = "fetch" /\ faults' = faults)
                  => clock - broker.since >= MinRefresh
<1>1. ASSUME IInv, [Next]_vars, broker.pc \in {"sleep", "backoff"}, broker'.pc = "fetch", faults' = faults
      PROVE  clock - broker.since >= MinRefresh
  <2>1. /\ clock \in Nat /\ broker.since \in Nat /\ broker.until \in Nat /\ faults \in Nat
        /\ broker.until >= broker.since + MinRefresh
    BY <1>1, Zenon DEF IInv, Types, Broker, Loop
  <2>2. broker' # broker
    BY <1>1
  <2>3. broker.pc \notin {"fetch", "create", "write", "rename"} /\ broker' # Exited
    BY <1>1 DEF Exited
  <2>4. faults' # faults + 1
    BY <1>1, <2>1
  <2>5. Wake
    BY <1>1, <2>2, <2>3, <2>4, Zenon DEF Next, LoopStep, FetchReturns, FetchFails, Create, Write,
        Rename,
       WriteFails, Exit, Signal, Restart, NewFileTokenSource, Get, OperatorDies, Break, Repair, Tick, TimeUp, vars
  <2>6. clock >= broker.until
    BY <2>5, Zenon DEF Wake
  <2> QED BY <2>1, <2>6, Constants
<1>2. IInv /\ [Next]_vars => [A]_vars
  BY <1>1, Zenon
<1>3. Spec => [][Next]_vars
  BY PTL DEF Spec
<1> QED BY <1>2, <1>3, Invariance, PTL DEF NeverSpins
=============================================================================
