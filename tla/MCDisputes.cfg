CONSTANTS
  o1 = o1
  r1 = r1
  r2 = r2
  s1 = s1
  s2 = s2
  Orders = {o1}
  Releases = {r1, r2}
  Sweeps = {s1, s2}
  MaxDeaths = 2
  LocksRefused = FALSE
SPECIFICATION FairSpec
INVARIANTS SettledAsResolved FrozenWhileOpen LatePaysAreEarly
PROPERTIES SilenceEnds FreezeEnds
CHECK_DEADLOCK FALSE
