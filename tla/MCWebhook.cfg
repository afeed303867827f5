CONSTANTS
  ref = ref
  push = push
  transfer = transfer
  paid = paid
  failed = failed
  paidEvent = paidEvent
  failedEvent = failedEvent
  d1 = d1
  d2 = d2
  d3 = d3
  up = up
  ok = ok
  half = half
  rest = rest
  Flows = {ref, push, transfer}
  Method <- MCMethod
  Amount <- MCAmount
  Calls = {up, ok, half, rest}
  Kind <- MCKind
  Target <- MCTarget
  RefundCents <- MCCents
  Buyerless = {transfer}
  Sweeps = {expiry}
  Bodies = {paid, failed}
  EventOf <- MCEventOf
  FlowOf <- MCFlowOf
  Paid <- MCPaid
  Exact <- MCExact
  Deliveries = {d1, d2, d3}
  BodyOf <- MCBodyOf
  MaxFaults = 1
SYMMETRY Interchangeable
SPECIFICATION Spec
INVARIANTS PaidIsBacked RefundedIsCredited HandledOnce AckedUnlessSpoiled
PROPERTY GraphUnlessStale
CHECK_DEADLOCK FALSE
