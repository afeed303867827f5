CONSTANTS
  c1 = c1
  c2 = c2
  u1 = u1
  u2 = u2
  k1 = k1
  k2 = k2
  Cancels = {c1, c2}
  Updates = {u1, u2}
  Confirmations = {k1, k2}
  LocksRefused = FALSE
SPECIFICATION OrderFairSpec
INVARIANTS ReturnedOnce HeldByReaders
PROPERTIES ShippedOrRestocked OverIsOver PendingEnds
CHECK_DEADLOCK FALSE
