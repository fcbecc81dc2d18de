SPECIFICATION FairSpec
CONSTANTS
  east = east
  eastPod = eastPod
  west = west
  legacy = legacy
  lease1 = lease1
  t1 = t1
  t2 = t2
  t3 = t3
  Key = {lease1}
  Holder = {east, eastPod, west, legacy}
  NoHolder = nobody
  Skew = 0
  TTLs = {1}
  Owner <- MCOwner
  Oversized = {legacy}
  BadKey = badkey
  NoTenant = notenant
  Files <- MCFiles
  Malformed = malformed
  Claims <- MCClaims
  Request = {r1, r2}
  TTL = 1
  Setups <- MCSetups
 
INVARIANT KeyRulesHidden
INVARIANT OldHoldersReleasable
PROPERTY ReloadTakesEffect
