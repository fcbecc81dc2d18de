SPECIFICATION InjectSpec
CONSTANTS
  Values <- MCValues
  Setups <- MCSetups
  Second = 3
  MaxTTL = 4
  MaxDuration = 20
INVARIANT RuntimeFenced
INVARIANT InjectedIsAdmitted
INVARIANT HelperStarts
INVARIANT HelperFilesMounted
