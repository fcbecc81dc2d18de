SPECIFICATION SignalSpec
CONSTANTS
  Pid = {p1, p2}
  Beat = 1
  Grace = 2
  Never = never
  MaxTime = 8
  MaxFaults = 1
SYMMETRY Symmetry
INVARIANT GraceGiven
 
