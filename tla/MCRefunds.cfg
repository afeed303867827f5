CONSTANTS
  request = request
  dispute = dispute
  w1 = w1
  w2 = w2
  Rows = {request, dispute}
  AmountOf <- MCAmountOf
  Disputed = {dispute}
  Workers = {w1, w2}
  MaxAttempts = 2
  MaxFaults = 2
SPECIFICATION RefundFairSpec
INVARIANTS DebitedOnce GatewayFirst
PROPERTIES Settles DriftIsRetried
CHECK_DEADLOCK FALSE
