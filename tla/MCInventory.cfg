CONSTANTS
  a1 = a1
  a2 = a2
  a3 = a3
  a4 = a4
  u1 = u1
  u2 = u2
  k1 = k1
  p = p
  c = c
  s1 = s1
  s2 = s2
  NoKey = NoKey
  Calls = {a1, a2, a3}
  CallOf <- MCCallOf
  Targets <- MCTargets
  Combos = {c}
  Stock <- MCStock
  Cap = 1
  Sweepers = {s1, s2}
  Limit = 2
  MaxSwitches = 1
  MaxFaults = 1
SPECIFICATION FairSpec
INVARIANTS StockConserved OneHoldPerKey OfferMatchesStock
PROPERTY ExpiredComesBack
CHECK_DEADLOCK FALSE
