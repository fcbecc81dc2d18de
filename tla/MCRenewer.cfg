SPECIFICATION FairSpec
CONSTANTS
  Key = {lease}
  Lease = lease
  Holder = {a, b}
  NoHolder = none
  Skew = 0
  TTLs = {2}
  TTL = 2
  Heartbeat = 1
  ClientTimeout = 1
  Faulty = {b}
  MaxClock = 3
  MaxCrashes = 1
INVARIANT MarkerProvesLease
INVARIANT FreshnessBackstop
PROPERTY Reacquires
