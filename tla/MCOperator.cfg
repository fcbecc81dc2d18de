SPECIFICATION Spec
CONSTANTS
  east = east
  west = west
  nobody = nobody
  none = none
  lease1 = lease1
  t1 = t1
  t2 = t2
  p1 = p1
  p2 = p2
  j1 = j1
  Key = {lease1}
  Lease = lease1
  Holder = {east, west}
  NoHolder = nobody
  Skew = 0
  TTLs = {1, 2}
  Target = {t1, t2}
  Pod = {p1, p2}
  Job = {j1}
  None = none
  MaxToken = 2
  Setups <- MCSetups
INVARIANT ActiveProvesOwnership
INVARIANT RunnableIsRegistered
 
 
