SPECIFICATION Spec
CONSTANTS
  Key = {k1}
  Holder = {a, b}
  NoHolder = none
  Proc = {p1, p2}
  Sweeper = {}
  TTLs = {1}
  Grace = 1
  Skew = 0
  MaxToken = 2
  MaxAttempts = 2
  Contended = FALSE
  MaxClock = 3
  MaxCalls = 3
PROPERTY ReleaseNilMeansGone
