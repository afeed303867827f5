CONSTANTS
  r1 = r1
  r2 = r2
  r3 = r3
  r4 = r4
  k1 = k1
  b1 = b1
  b2 = b2
  NoRow = NoRow
  Requests <- MCRequests
  Keys = {k1}
  KeyOf <- MCKeyOf
  BodyOf <- MCBodyOf
  MaxFaults = 0
SPECIFICATION Spec
INVARIANT EffectOnce
CHECK_DEADLOCK FALSE
