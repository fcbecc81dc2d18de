SPECIFICATION FairSpec
CONSTANTS
  Key = {k1}
  Holder = {a, b}
  NoHolder = none
  Proc = {p1, p2}
  Sweeper = {s1}
  TTLs = {1}
  Grace = 1
  Skew = 1
  MaxToken = 2
  MaxAttempts = 2
  Contended = TRUE
  MaxClock = 2
  MaxCalls = 2
INVARIANT IInv
INVARIANT FencingMonotone
INVARIANT ExclusiveTenure
INVARIANT TenureContinuous
PROPERTY SweepSparesLiveLeases
PROPERTY ImplementsService
PROPERTY EveryCallReturns
