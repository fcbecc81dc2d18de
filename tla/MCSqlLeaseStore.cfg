SPECIFICATION FairSpec
CONSTANTS
  Key = {k1}
  Holder = {a}
  NoHolder = nobody
  Replica = {p1, p2}
  Call = {c1, c2}
  None = none
  Milli = 4
  Resolution = 2
  Locs = {0, 3}
  Pool = 1
  MaxCalls = 3
  MaxStarts = 3
PROPERTY ImplementsStore
PROPERTY PutAnswersExactly
PROPERTY EveryCallReturns
PROPERTY EveryStartEnds
