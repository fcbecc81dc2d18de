SPECIFICATION Spec
CONSTANTS
  RefreshSkew = 3
  MinRefresh = 1
  FetchTimeout = 1
  MaxRetry = 3
  CacheTTL = 1
  Providers = {{0, 4}, {1, 3}}
  Undeclared = 4
  Int64 = 4
  MaxClock = 9
  MaxFaults = 2
 
PROPERTY TokensAdvance
PROPERTY NeverSpins
