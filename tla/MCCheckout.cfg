CONSTANTS
  b1 = b1
  b2 = b2
  s1 = s1
  s2 = s2
  t1 = t1
  t2 = t2
  t3 = t3
  k1 = k1
  k2 = k2
  c1 = c1
  c2 = c2
  c3 = c3
  Buyers = {b1, b2}
  Sellers = {s1, s2}
  Targets = {t1, t2, t3}
  Coupons = {k1, k2}
  UsageLimit <- MCUsageLimit
  ProductOf <- MCProductOf
  SellerOf <- MCSellerOf
  Rank <- MCRank
  Price <- MCPrice
  Stock <- MCStock
  Credit <- MCCredit
  Checkouts = {c1, c2, c3}
  BuyerOf <- MCBuyerOf
  AskOf <- MCAskOf
  CouponsOf <- MCCouponsOf
  Cancellable <- MCCancellable
  MaxPut <- MCMaxPut
SPECIFICATION CheckoutSpec
INVARIANTS StockAddsUp OrderedOnce CreditAddsUp StockQueues
CHECK_DEADLOCK FALSE
