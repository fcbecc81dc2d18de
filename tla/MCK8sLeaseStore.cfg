SPECIFICATION Spec
CONSTANTS
  Char = {"a", "b", "-", "."}
  Alnum = {"a", "b"}
  Dash = "-"
  Dot = "."
  Key <- MCKey
  MaxLabel = 3
  MaxSubdomain = 5
  Holder = {a, b}
  NoHolder = none
  Writer = {w1, w2}
  Micro = 2
  Second = 4
  Unset = unset
  MaxUpdates = 2
  MaxPuts = 3
  MaxTouches = 2
PROPERTY ImplementsStore
PROPERTY ConflictIsReal
PROPERTY PutAnswersExactly
SYMMETRY Symm
