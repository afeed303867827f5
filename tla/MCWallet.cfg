CONSTANTS
  credit = credit
  there = there
  back = back
  again = again
  topup = topup
  spend = spend
  c1 = c1
  c2 = c2
  c3 = c3
  c4 = c4
  c5 = c5
  c6 = c6
  c7 = c7
  NoUser = NoUser
  NoCall = NoCall
  Users = {1, 2}
  Ops = {credit, there, back, again, topup, spend}
  Cached = {topup, spend}
  Payer <- MCPayer
  Payee <- MCPayee
  Amount <- MCAmount
  Calls = {c1, c2, c3, c4, c5, c6, c7}
  OpOf <- MCOpOf
  TransferLimit = 1
  SpendLimit = 1
SPECIFICATION Spec
INVARIANTS CachedFollowsLedger NoDeadlock
PROPERTY LedgerIsIdeal
CHECK_DEADLOCK FALSE
