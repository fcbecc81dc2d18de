----------------------------- MODULE FencedLease -----------------------------
(***************************************************************************)
(* What the lease service promises its callers, with every operation one   *)
(* atomic step: a lease changes hands only when it was given up or its     *)
(* time has run out, and every change of hands raises the fencing token.   *)
(* LeaseManager implements this specification.                             *)
(***************************************************************************)
EXTENDS Integers

CONSTANTS Key, Holder, NoHolder, Skew, TTLs

VARIABLES
  holder,   \* who holds each lease, or NoHolder
  token,    \* the highest fencing token issued for each key, 0 if none was
  expires,  \* when the current tenure ends, on the clock of a replica
  clock     \* true time

leaseVars == <<holder, token, expires>>

\* Some replica may already see the lease as expired.
Lapsed(k) == expires[k] < clock + Skew

\* The deadline of k moves to a point a replica can compute from its clock.
Redeadline(k) ==
  /\ expires' = [expires EXCEPT ![k] = expires'[k]]
  /\ expires'[k] \in Int
  /\ \E ttl \in TTLs \cup {0} : expires'[k] <= clock + Skew + ttl

Claim(k, h) ==
  /\ holder[k] = NoHolder \/ Lapsed(k)
  /\ holder' = [holder EXCEPT ![k] = h]
  /\ token' = [token EXCEPT ![k] = token[k] + 1]
  /\ Redeadline(k)

\* A tenure nobody has claimed meanwhile goes on.
Extend(k) ==
  /\ holder[k] # NoHolder
  /\ Redeadline(k)
  /\ UNCHANGED <<holder, token>>

\* A release by the holder, or the collection of a lapsed lease.
Vacate(k) ==
  /\ holder[k] # NoHolder
  /\ holder' = [holder EXCEPT ![k] = NoHolder]
  /\ Redeadline(k)
  /\ UNCHANGED token

\* Nobody holds a lease.  Earlier tenures may have issued tokens ...
Unclaimed ==
  /\ holder = [k \in Key |-> NoHolder]
  /\ token \in [Key -> Nat]
  /\ expires = [k \in Key |-> 0]
  /\ clock = 0

\* ... or there were none.
LeaseInit ==
  /\ token = [k \in Key |-> 0]
  /\ Unclaimed

Advance == clock' = clock + 1 /\ UNCHANGED leaseVars

LeaseStep ==
  /\ \E k \in Key : (\E h \in Holder : Claim(k, h)) \/ Extend(k) \/ Vacate(k)
  /\ UNCHANGED clock

LeaseSpec == Unclaimed /\ [][LeaseStep \/ Advance]_<<leaseVars, clock>>
=============================================================================
