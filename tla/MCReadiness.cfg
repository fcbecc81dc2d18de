SPECIFICATION ReadySpec
CONSTANTS
  Caller = {r1, r2, r3}
  CacheTTL = 2
  Timeout = 4
  None = none
  MaxTime = 11
  MaxChanges = 3
SYMMETRY Symm
INVARIANT AnswersAreRecent
INVARIANT NoRequestWaitsTwice
INVARIANT OneProbePerWindow
