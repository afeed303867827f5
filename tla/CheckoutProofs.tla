--------------------------- MODULE CheckoutProofs ---------------------------
(***************************************************************************)
(* Theorems about checkouts and cancellations, for any finite sets of      *)
(* targets and sellers, any buyers, carts, coupons and requests: stock,    *)
(* carts and store credit add up, and locks on stock rows never form a     *)
(* circle.  The sums over finite sets are those of StockProofs.            *)
(***************************************************************************)
EXTENDS Checkout, StockProofs, SequenceTheorems

-----------------------------------------------------------------------------
(* Arithmetic and sequences *)

\* Quotient and remainder.
LEMMA DivMod ==
  ASSUME NEW n \in Nat, NEW d \in Nat \ {0}
  PROVE  n \div d \in Nat /\ n % d \in 0 .. d - 1 /\ n = d * (n \div d) + (n % d)
OBVIOUS

\* Rounding to the nearest, and half to even, is off by at most half.
LEMMA Rounding ==
  ASSUME NEW n \in Nat, NEW d \in Nat \ {0}, NEW m \in Nat, n = 2 * m + d
  PROVE  LET e == 2 * d
             q == IF n % e = 0 /\ (n \div e) % 2 = 1 THEN n \div e - 1 ELSE n \div e
         IN  q \in Nat /\ 2 * d * q - 2 * m \in -d .. d
<1> DEFINE e == 2 * d
           p == n \div e
           r == n % e
<1>1. e \in Nat \ {0}
  OBVIOUS
<1>2. p \in Nat /\ r \in 0 .. e - 1 /\ n = e * p + r
  <2> HIDE DEF e
  <2> QED BY <1>1, DivMod
<1> HIDE DEF p, r
<1>3. 2 * m = 2 * d * p + r - d
  BY <1>2
<1>4. CASE r = 0 /\ p % 2 = 1
  <2>1. p - 1 \in Nat
    BY <1>2, <1>4
  <2>2. 2 * d * (p - 1) = 2 * d * p - 2 * d
    BY <1>2
  <2>3. 2 * d * p \in Int
    BY <1>2
  <2>4. 2 * d * (p - 1) - 2 * m \in -d .. d
    BY <1>3, <1>4, <2>2, <2>3
  <2> QED BY <1>4, <2>1, <2>4 DEF p, r
<1>5. CASE ~(r = 0 /\ p % 2 = 1)
  <2>1. 2 * d * p \in Int
    BY <1>2
  <2>2. 2 * d * p - 2 * m \in -d .. d
    BY <1>2, <1>3, <2>1
  <2> QED BY <1>2, <1>5, <2>2 DEF p, r
<1> QED BY <1>4, <1>5

\* The least of three naturals.
LEMMA MinOfThree ==
  ASSUME NEW a \in Nat, NEW b \in Nat, NEW c \in Nat
  PROVE  /\ Min({a, b, c}) \in Nat
         /\ Min({a, b, c}) <= a /\ Min({a, b, c}) <= b /\ Min({a, b, c}) <= c
<1> DEFINE S == {a, b, c}
<1>1. \E x \in S : \A y \in S : x =< y
  <2>1. CASE a <= b /\ a <= c
    BY <2>1
  <2>2. CASE b <= a /\ b <= c
    BY <2>2
  <2>3. CASE c <= a /\ c <= b
    BY <2>3
  <2> QED BY <2>1, <2>2, <2>3
<1>2. Min(S) \in S /\ \A y \in S : Min(S) =< y
  <2> HIDE DEF S
  <2> QED BY <1>1 DEF Min
<1> QED BY <1>2

\* A positive factor can be taken off both sides.
LEMMA FactorOff ==
  ASSUME NEW d \in Nat \ {0}, NEW x \in Int, NEW n \in Nat, d * x \in -(d * n) .. d * n
  PROVE  x \in -n .. n
<1>1. d * n \in Int /\ d * x \in Int
  OBVIOUS
<1>2. ASSUME x > n PROVE FALSE
  <2>1. x - n - 1 \in Nat
    BY <1>2
  <2>2. d * (x - n - 1) >= 0
    BY <2>1
  <2>3. d * (x - n - 1) = d * x - d * n - d
    OBVIOUS
  <2> QED BY <1>1, <2>2, <2>3
<1>3. ASSUME -n > x PROVE FALSE
  <2>1. -n - x - 1 \in Nat
    BY <1>3
  <2>2. d * (-n - x - 1) >= 0
    BY <2>1
  <2>3. d * (-n - x - 1) = -(d * n) - d * x - d
    OBVIOUS
  <2> QED BY <1>1, <2>2, <2>3
<1> QED BY <1>2, <1>3

\* A function on 1 .. n is a sequence.
LEMMA ListIsSeq ==
  ASSUME NEW n \in Nat, NEW S, NEW f \in [1 .. n -> S]
  PROVE  f \in Seq(S)
OBVIOUS

-----------------------------------------------------------------------------
(* Locks *)

USE CheckoutAssumption

\* Of any targets one is the last in the order of the locks.
LEMMA HighestRank ==
  ASSUME NEW S \in SUBSET Targets, S # {}
  PROVE  \E m \in S : \A t \in S : Rank[t] <= Rank[m]
<1> DEFINE Good == {T \in SUBSET S : T # {} => \E m \in T : \A t \in T : Rank[t] <= Rank[m]}
<1>1. IsFiniteSet(S)
  BY FS_Subset
<1>2. ASSUME NEW T \in SUBSET S, T # {}, \A x \in T : T \ {x} \in Good PROVE T \in Good
  <2>1. PICK e \in T : TRUE
    BY <1>2
  <2>0. \A t \in T : Rank[t] \in Nat
    OBVIOUS
  <2>2. CASE T \ {e} = {}
    <3>1. T = {e} /\ Rank[e] <= Rank[e]
      BY <2>0, <2>2
    <3> QED BY <3>1
  <2>3. CASE T \ {e} # {}
    <3>1. PICK m \in T \ {e} : \A t \in T \ {e} : Rank[t] <= Rank[m]
      BY <1>2, <2>3
    <3>2. Rank[e] \in Nat /\ Rank[m] \in Nat
      BY <2>0
    <3>3. CASE Rank[e] <= Rank[m]
      <4>1. \A t \in T : Rank[t] <= Rank[m]
        BY <3>1, <3>3
      <4> QED BY <4>1
    <3>4. CASE Rank[m] <= Rank[e]
      <4>1. \A t \in T : Rank[t] <= Rank[e]
        <5> TAKE t \in T
        <5>1. t = e \/ (Rank[t] \in Nat /\ Rank[t] <= Rank[m])
          BY <2>0, <3>1
        <5> QED BY <3>2, <3>4, <5>1
      <4> QED BY <4>1
    <3>5. Rank[e] <= Rank[m] \/ Rank[m] <= Rank[e]
      BY <3>2
    <3> QED BY <3>3, <3>4, <3>5
  <2> QED BY <2>2, <2>3
<1>3. S \in Good
  <2>1. {} \in Good
    OBVIOUS
  <2> HIDE DEF Good
  <2> QED BY <1>1, <1>2, <2>1, SubsetInduction
<1> QED BY <1>3

\* What Sorted() lists: the rows of the set, each once, in the order of the locks.
LEMMA SortedAscends ==
  ASSUME NEW ts \in SUBSET Targets
  PROVE  /\ Cardinality(ts) \in Nat
         /\ Sorted(ts) \in [1 .. Cardinality(ts) -> ts] /\ Ascends(Sorted(ts))
<1> DEFINE Good == {T \in SUBSET ts : \E q \in [1 .. Cardinality(T) -> T] : Ascends(q)}
<1>1. IsFiniteSet(ts)
  BY FS_Subset
<1>2. {} \in Good
  <2>1. [i \in {} |-> 0] \in [1 .. Cardinality({}) -> {}] /\ Ascends([i \in {} |-> 0])
    BY FS_EmptySet DEF Ascends
  <2> QED BY <2>1
<1>3. ASSUME NEW T \in SUBSET ts, T # {}, \A x \in T : T \ {x} \in Good PROVE T \in Good
  <2>1. PICK m \in T : \A t \in T : Rank[t] <= Rank[m]
    BY <1>3, HighestRank
  <2> DEFINE R == T \ {m}
             n == Cardinality(R)
  <2>2. n \in Nat /\ Cardinality(T) = n + 1
    <3>1. IsFiniteSet(T)
      BY <1>1, FS_Subset
    <3>2. IsFiniteSet(R) /\ Cardinality(R) = Cardinality(T) - 1
      BY <3>1, FS_RemoveElement
    <3>3. Cardinality(R) \in Nat /\ Cardinality(T) \in Nat
      BY <3>1, <3>2, FS_CardinalityType
    <3> QED BY <3>2, <3>3
  <2>3. PICK q \in [1 .. n -> R] : Ascends(q)
    BY <1>3
  <2> HIDE DEF n
  <2> DEFINE p == [i \in 1 .. n + 1 |-> IF i <= n THEN q[i] ELSE m]
  <2>4. p \in [1 .. n + 1 -> T]
    BY <2>2
  <2>5. ASSUME NEW i \in 1 .. n + 1, NEW j \in 1 .. n + 1, i < j PROVE Rank[p[i]] < Rank[p[j]]
    <3>1. i \in 1 .. n /\ p[i] = q[i]
      BY <2>2, <2>5
    <3>2. CASE j <= n
      <4>1. j \in 1 .. n /\ p[j] = q[j]
        BY <2>2, <3>2
      <4> QED BY <2>3, <2>5, <3>1, <4>1 DEF Ascends
    <3>3. CASE j = n + 1
      <4>1. p[j] = m /\ q[i] \in R
        BY <2>2, <3>1, <3>3
      <4>2. Rank[q[i]] <= Rank[m] /\ Rank[q[i]] # Rank[m]
        BY <2>1, <4>1
      <4>3. Rank[q[i]] \in Nat /\ Rank[m] \in Nat
        BY <4>1
      <4> QED BY <3>1, <4>1, <4>2, <4>3
    <3> QED BY <2>2, <3>2, <3>3
  <2>6. Ascends(p)
    <3>1. DOMAIN p = 1 .. n + 1
      OBVIOUS
    <3> HIDE DEF p
    <3> QED BY <2>5, <3>1 DEF Ascends
  <2> HIDE DEF p
  <2> QED BY <2>2, <2>4, <2>6
<1>4. ts \in Good
  <2> HIDE DEF Good
  <2> QED BY <1>1, <1>2, <1>3, SubsetInduction
<1> QED BY <1>1, <1>4, FS_CardinalityType DEF Sorted

\* Lists without a lock FOR UPDATE of the stock, and without any.
NoUpdate(q) == \A i \in DOMAIN q : q[i][1] # "stock"
NoStock(q)  == \A i \in DOMAIN q : q[i][1] \notin {"stock", "key"}

\* What a transaction may lock: rows of the tables, stock rows in one order.
InOrder(q) == q \in Seq(LockRows) /\ StockAscends(q)

\* _lock_stock_rows() locks rows of the stock in that order.
LEMMA StockLocksInOrder ==
  ASSUME NEW ts \in SUBSET Targets
  PROVE  InOrder(StockLocks(ts))
<1> DEFINE n == Cardinality(ts)
           s == Sorted(ts)
<1>1. n \in Nat /\ s \in [1 .. n -> ts] /\ Ascends(s)
  BY SortedAscends
<1>2. StockLocks(ts) = [i \in 1 .. n |-> <<"stock", s[i]>>]
  BY DEF StockLocks
<1> HIDE DEF n, s
<1>3. StockLocks(ts) \in Seq(LockRows)
  <2>1. \A i \in 1 .. n : <<"stock", s[i]>> \in LockRows
    BY <1>1 DEF LockRows
  <2>2. StockLocks(ts) \in [1 .. n -> LockRows]
    BY <1>2, <2>1
  <2> QED BY <1>1, <2>2, ListIsSeq
<1>4. StockAscends(StockLocks(ts))
  BY <1>1, <1>2 DEF StockAscends, Ascends
<1> QED BY <1>3, <1>4 DEF InOrder

\* The coupons a checkout redeems are no rows of the stock.
LEMMA CouponLocksInOrder ==
  ASSUME NEW c \in Checkouts
  PROVE  InOrder(CouponLocks(c)) /\ NoStock(CouponLocks(c))
<1>1. CouponsOf[c] \in Seq(Coupons)
  OBVIOUS
<1>2. CouponLocks(c) \in Seq(LockRows)
  <2>1. \A i \in 1 .. Len(CouponsOf[c]) : <<"coupon", CouponsOf[c][i]>> \in LockRows
    BY <1>1 DEF LockRows
  <2>2. Len(CouponsOf[c]) \in Nat /\ DOMAIN CouponsOf[c] = 1 .. Len(CouponsOf[c])
    BY <1>1
  <2> DEFINE n == Len(CouponsOf[c])
             l == CouponLocks(c)
  <2>3. l = [i \in 1 .. n |-> l[i]] /\ \A i \in 1 .. n : l[i] \in LockRows
    BY <2>1, <2>2 DEF CouponLocks
  <2> HIDE DEF l, n
  <2>4. l \in [1 .. n -> LockRows] /\ n \in Nat
    BY <2>2, <2>3 DEF n
  <2>5. l \in Seq(LockRows)
    BY <2>4, ListIsSeq
  <2> QED BY <2>5 DEF l
<1>3. NoStock(CouponLocks(c))
  BY DEF NoStock, CouponLocks
<1> QED BY <1>2, <1>3 DEF InOrder, NoStock, StockAscends

\* The rows shared for the order items.
LEMMA KeyLocksInOrder ==
  ASSUME NEW ts \in SUBSET Targets, NEW q \in SetToSeqs(ts)
  PROVE  InOrder(KeyLocks(q)) /\ NoUpdate(KeyLocks(q))
<1> DEFINE n == Cardinality(ts)
<1>1. n \in Nat /\ q \in [1 .. n -> ts]
  <2>1. IsFiniteSet(ts)
    BY FS_Subset
  <2> QED BY <2>1, FS_CardinalityType DEF SetToSeqs
<1>2. KeyLocks(q) = [i \in 1 .. n |-> <<"key", q[i]>>]
  BY <1>1 DEF KeyLocks
<1> HIDE DEF n
<1>3. \A i \in 1 .. n : <<"key", q[i]>> \in LockRows
  BY <1>1 DEF LockRows
<1>4. KeyLocks(q) \in [1 .. n -> LockRows]
  BY <1>2, <1>3
<1>5. KeyLocks(q) \in Seq(LockRows)
  BY <1>1, <1>4, ListIsSeq
<1>6. NoUpdate(KeyLocks(q))
  BY <1>2 DEF NoUpdate
<1> QED BY <1>5, <1>6 DEF InOrder, NoUpdate, StockAscends

\* Nor is a single row of another table.
LEMMA OneLockInOrder ==
  ASSUME NEW l \in LockRows, l[1] \notin {"stock", "key"}
  PROVE  InOrder(<<l>>) /\ NoStock(<<l>>) /\ InOrder(<<>>) /\ NoStock(<<>>)
BY DEF InOrder, NoStock, StockAscends

\* Lists are in order when joined, as long as the first has no stock row, or the second
\* none it updates.
LEMMA JoinInOrder ==
  ASSUME NEW p, NEW q, InOrder(p), InOrder(q), NoStock(p) \/ NoUpdate(q) \/ NoStock(q)
  PROVE  InOrder(p \o q) /\ (NoStock(p) /\ NoStock(q) => NoStock(p \o q))
<1> DEFINE m == Len(p)
           n == Len(q)
           pq == p \o q
<1>1. p \in Seq(LockRows) /\ q \in Seq(LockRows)
  BY DEF InOrder
<1>2. /\ m \in Nat /\ n \in Nat /\ DOMAIN p = 1 .. m /\ DOMAIN q = 1 .. n
  BY <1>1
<1>3. /\ pq \in Seq(LockRows) /\ Len(pq) = m + n
      /\ \A i \in 1 .. m + n : pq[i] = IF i <= m THEN p[i] ELSE q[i - m]
  BY <1>1, ConcatProperties
<1>4. DOMAIN pq = 1 .. m + n
  BY <1>3
<1> HIDE DEF m, n, pq
<1>5. ASSUME NEW i \in 1 .. m + n
      PROVE  (i \in 1 .. m /\ pq[i] = p[i]) \/ (i > m /\ i - m \in 1 .. n /\ pq[i] = q[i - m])
  BY <1>2, <1>3
<1>6. ASSUME NEW i \in 1 .. m + n, NEW j \in 1 .. m + n,
             i < j, pq[i][1] \in {"stock", "key"}, pq[j][1] = "stock"
      PROVE  pq[i][1] = "stock" /\ Rank[pq[i][2]] < Rank[pq[j][2]]
  <2>1. CASE i \in 1 .. m /\ j \in 1 .. m /\ pq[i] = p[i] /\ pq[j] = p[j]
    BY <1>2, <1>6, <2>1 DEF InOrder, StockAscends
  <2>2. CASE i - m \in 1 .. n /\ j - m \in 1 .. n /\ pq[i] = q[i - m] /\ pq[j] = q[j - m]
    <3>1. i - m < j - m
      BY <1>2, <1>6
    <3> QED BY <1>2, <1>6, <2>2, <3>1 DEF InOrder, StockAscends
  <2>3. CASE i \in 1 .. m /\ j - m \in 1 .. n /\ pq[i] = p[i] /\ pq[j] = q[j - m]
    BY <1>2, <1>6, <2>3 DEF NoStock, NoUpdate
  <2>4. ~(i > m /\ j \in 1 .. m)
    BY <1>2, <1>6
  <2> QED BY <1>5, <2>1, <2>2, <2>3, <2>4
<1>7. StockAscends(pq)
  BY <1>4, <1>6 DEF StockAscends
<1>8. NoStock(p) /\ NoStock(q) => NoStock(pq)
  BY <1>2, <1>4, <1>5 DEF NoStock
<1> QED BY <1>3, <1>7, <1>8 DEF InOrder, pq

\* What a checkout locks after its cart, and a cancellation after its order.
LEMMA CheckoutRest ==
  ASSUME NEW c \in Checkouts, NEW ts \in SUBSET Targets,
         NEW user, user = <<>> \/ user = <<UserLock(BuyerOf[c])>>,
         NEW us \in SUBSET Targets, NEW q \in SetToSeqs(us)
  PROVE  InOrder(CouponLocks(c) \o user \o StockLocks(ts) \o KeyLocks(q))
<1>1. InOrder(user) /\ NoStock(user)
  <2>1. UserLock(BuyerOf[c]) \in LockRows /\ UserLock(BuyerOf[c])[1] \notin {"stock", "key"}
    BY DEF UserLock, LockRows
  <2>2. /\ InOrder(<<UserLock(BuyerOf[c])>>) /\ NoStock(<<UserLock(BuyerOf[c])>>)
        /\ InOrder(<<>>) /\ NoStock(<<>>)
    BY <2>1, OneLockInOrder
  <2> QED BY <2>2
<1>2. InOrder(CouponLocks(c) \o user) /\ NoStock(CouponLocks(c) \o user)
  BY <1>1, CouponLocksInOrder, JoinInOrder
<1>3. InOrder(CouponLocks(c) \o user \o StockLocks(ts))
  BY <1>2, StockLocksInOrder, JoinInOrder
<1> QED BY <1>3, KeyLocksInOrder, JoinInOrder

LEMMA CancelRest ==
  ASSUME NEW c \in Checkouts, NEW ts \in SUBSET Targets,
         NEW user, user = <<>> \/ user = <<UserLock(BuyerOf[c])>>
  PROVE  InOrder(StockLocks(ts) \o user \o CouponLocks(c))
<1>1. InOrder(user) /\ NoStock(user)
  <2>1. UserLock(BuyerOf[c]) \in LockRows /\ UserLock(BuyerOf[c])[1] \notin {"stock", "key"}
    BY DEF UserLock, LockRows
  <2>2. /\ InOrder(<<UserLock(BuyerOf[c])>>) /\ NoStock(<<UserLock(BuyerOf[c])>>)
        /\ InOrder(<<>>) /\ NoStock(<<>>)
    BY <2>1, OneLockInOrder
  <2> QED BY <2>2
<1>2. InOrder(StockLocks(ts) \o user)
  BY <1>1, StockLocksInOrder, JoinInOrder
<1> QED BY <1>2, CouponLocksInOrder, JoinInOrder

-----------------------------------------------------------------------------
(* The inductive invariant *)

\* The inductive invariant: what a transaction has locked it has read, and nobody else has.
CheckoutInv == CheckoutTypeOK /\ PlanInv /\ CartInv /\ CancelInv /\ PlacedInv

\* Lines cost something unless there are none.
LEMMA CostOf ==
  ASSUME NEW ls \in [Targets -> Nat]
  PROVE  Cost(ls) \in Nat /\ (ls # None => Cost(ls) > 0)
<1> DEFINE v == [t \in Targets |-> ls[t] * Price[t]]
<1>1. \A t \in Targets : v[t] \in Nat /\ v[t] \in Int /\ (ls[t] > 0 => v[t] > 0)
  <2> TAKE t \in Targets
  <2>1. ls[t] \in Nat /\ Price[t] \in Nat /\ Price[t] > 0
    OBVIOUS
  <2>2. v[t] = ls[t] * Price[t]
    OBVIOUS
  <2> HIDE DEF v
  <2> QED BY <2>1, <2>2
<1>2. Cost(ls) = SumFunctionOnSet(v, Targets)
  BY DEF Cost, SumFunction
<1> HIDE DEF v
<1>3. Cost(ls) \in Nat
  BY <1>1, <1>2, SumNat
<1>4. ASSUME ls # None PROVE Cost(ls) > 0
  <2>1. PICK t \in Targets : ls[t] > 0
    <3>1. None \in [Targets -> Nat] /\ \A t \in Targets : None[t] = 0
      BY DEF None
    <3>2. \E t \in Targets : ls[t] # None[t]
      BY <1>4, <3>1
    <3> QED BY <3>1, <3>2
  <2>2. SumFunctionOnSet(v, Targets) = v[t] + SumFunctionOnSet(v, Targets \ {t})
    <3>1. IsFiniteSet(Targets) /\ \A x \in Targets : v[x] \in Int
      BY <1>1
    <3> HIDE DEF CheckoutAssumption
    <3> QED BY <3>1, SumRemove
  <2>3. SumFunctionOnSet(v, Targets \ {t}) \in Nat
    <3>1. IsFiniteSet(Targets \ {t})
      BY FS_Subset
    <3> QED BY <1>1, <3>1, SumNat
  <2> QED BY <1>1, <1>2, <2>1, <2>2, <2>3
<1> QED BY <1>3, <1>4

\* The lines of one seller.
LEMMA OfSellerType ==
  ASSUME CheckoutTypeOK, NEW c \in Checkouts, NEW s
  PROVE  /\ lines[c] \in [Targets -> Nat]
         /\ OfSeller(c, s) \in [Targets -> Nat]
         /\ \A t \in Targets : SellerOf[t] = s => OfSeller(c, s)[t] = lines[c][t]
         /\ \A t \in Targets : SellerOf[t] # s => OfSeller(c, s)[t] = 0
BY DEF CheckoutTypeOK, OfSeller

\* No more store credit is applied than the buyer asks for, has, or owes.
LEMMA AppliedBounds ==
  ASSUME CheckoutTypeOK, NEW c \in Checkouts
  PROVE  /\ Applied(c) \in Nat /\ Applied(c) <= credit[BuyerOf[c]]
         /\ Applied(c) <= Cost(lines[c])
<1>1. lines[c] \in [Targets -> Nat] /\ credit[BuyerOf[c]] \in Nat /\ AskOf[c] \in Nat
  BY DEF CheckoutTypeOK
<1>2. Cost(lines[c]) \in Nat
  BY <1>1, CostOf
<1> QED BY <1>1, <1>2, MinOfThree DEF Applied

\* The part of the store credit that an order carries is within half a unit of its due.
LEMMA ShareRounds ==
  ASSUME CheckoutTypeOK, NEW c \in Checkouts, NEW s, lines[c] # None
  PROVE  LET d == Cost(lines[c])
         IN  /\ Share(c, s) \in Nat
             /\ 2 * d * Share(c, s) - 2 * (Applied(c) * Cost(OfSeller(c, s))) \in -d .. d
<1> DEFINE d == Cost(lines[c])
           k == Cost(OfSeller(c, s))
           a == Applied(c)
           n == 2 * a * k + d
           e == 2 * d
           q == IF n % e = 0 /\ (n \div e) % 2 = 1 THEN n \div e - 1 ELSE n \div e
<1>1. d \in Nat \ {0} /\ k \in Nat /\ a \in Nat
  <2>1. lines[c] \in [Targets -> Nat] /\ OfSeller(c, s) \in [Targets -> Nat]
    BY OfSellerType
  <2>2. Cost(lines[c]) \in Nat /\ Cost(lines[c]) > 0
    BY <2>1, CostOf
  <2>3. Cost(OfSeller(c, s)) \in Nat
    BY <2>1, CostOf
  <2>4. Applied(c) \in Nat
    BY AppliedBounds
  <2> QED BY <2>2, <2>3, <2>4
<1>2. Share(c, s) = q
  BY DEF Share
<1> HIDE DEF d, k, a
<1>3. a * k \in Nat /\ n \in Nat /\ n = 2 * (a * k) + d
  <2>1. a * k \in Nat
    BY <1>1
  <2>2. 2 * a * k = 2 * (a * k)
    BY <1>1
  <2> QED BY <1>1, <2>1, <2>2
<1> HIDE DEF n
<1>4. q \in Nat /\ 2 * d * q - 2 * (a * k) \in -d .. d
  BY <1>1, <1>3, Rounding
<1> QED BY <1>2, <1>4 DEF d, k, a

-----------------------------------------------------------------------------
\* The steps of a transaction, seen from its locks: it asks for its first row, reads it
\* and lists the others, takes one of them.
Begins(a) ==
  /\ plan[a] = <<>>
  /\ a \in Checkouts => \A s \in Sellers : ~Placed(<<a, s>>)
  /\ a \in Cancellable => Placed(a)
  /\ plan' = [plan EXCEPT ![a] = <<FirstLock(a)>>]
  /\ UNCHANGED <<tables, got, lines>>

ReadsRow(a) ==
  /\ got[a] = 0 /\ Waits(a) /\ Free(Wanted(a))
  /\ \E rest : InOrder(rest) /\ Locks(a, rest)
  /\ a \in Checkouts => /\ cart[BuyerOf[a]] # None
                        /\ lines' = [lines EXCEPT ![a] = cart[BuyerOf[a]]]
  /\ a \in Cancellable => ~orders[a].restored /\ lines' = lines
  /\ UNCHANGED tables

Takes(a) ==
  /\ got[a] > 0 /\ Waits(a)
  /\ plan' = plan /\ got' = [got EXCEPT ![a] = @ + 1]
  /\ UNCHANGED <<tables, lines>>

\* Checkouts and cancellations are told apart.
LEMMA Kinds ==
  /\ \A c \in Checkouts : c \in Actors /\ c \notin Cancellable /\ FirstLock(c) = CartLock(BuyerOf[c])
  /\ \A o \in Cancellable : /\ o \in Actors /\ o \notin Checkouts /\ o \in Orders
                            /\ FirstLock(o) = OrderLock(o) /\ o[1] \in Checkouts
BY DEF Actors, FirstLock, Orders

\* A checkout that gets the cart reads it and lists its locks, or gives up.
LEMMA ReadsCart ==
  ASSUME CheckoutTypeOK, NEW c \in Checkouts, LocksCart(c)
  PROVE  ReadsRow(c) \/ RollsBack(c)
<1> DEFINE read == cart[BuyerOf[c]]
           user == IF AskOf[c] > 0 THEN <<UserLock(BuyerOf[c])>> ELSE <<>>
           bought == {t \in Targets : read[t] > 0}
           rest(q) == CouponLocks(c) \o user \o StockLocks(bought) \o KeyLocks(q)
<1>1. \A q \in SetToSeqs(ParentsOf(bought)) : InOrder(rest(q))
  <2>1. user = <<>> \/ user = <<UserLock(BuyerOf[c])>>
    OBVIOUS
  <2>2. bought \in SUBSET Targets /\ ParentsOf(bought) \in SUBSET Targets
    BY DEF ParentsOf
  <2> HIDE DEF user, bought
  <2> QED BY <2>1, <2>2, CheckoutRest
<1>2. CASE ~(read = None \/ Short(read))
  <2>1. /\ Waits(c) /\ got[c] = 0 /\ Free(Wanted(c)) /\ read # None
        /\ lines' = [lines EXCEPT ![c] = read] /\ UNCHANGED tables
        /\ \E q \in SetToSeqs(ParentsOf(bought)) : Locks(c, rest(q))
    BY <1>2 DEF LocksCart
  <2> HIDE DEF rest
  <2> QED BY <1>1, <2>1, Kinds DEF ReadsRow
<1>3. CASE read = None \/ Short(read)
  BY <1>3 DEF LocksCart
<1> QED BY <1>2, <1>3

\* A cancellation that gets its order reads it and lists its locks, or gives up.
LEMMA ReadsOrder ==
  ASSUME CheckoutTypeOK, NEW o \in Cancellable, LocksOrder(o)
  PROVE  ReadsRow(o) \/ RollsBack(o)
<1> DEFINE user == IF orders[o].credit > 0 THEN <<UserLock(BuyerOf[o[1]])>> ELSE <<>>
           ts   == {t \in Targets : orders[o].lines[t] > 0}
           all  == ts \cup {ProductOf[t] : t \in ts}
           rest == StockLocks(all) \o user \o CouponLocks(o[1])
<1>1. InOrder(rest)
  <2>1. user = <<>> \/ user = <<UserLock(BuyerOf[o[1]])>>
    OBVIOUS
  <2>2. all \in SUBSET Targets
    OBVIOUS
  <2>3. o[1] \in Checkouts
    BY Kinds
  <2> HIDE DEF user, all
  <2> QED BY <2>1, <2>2, <2>3, CancelRest
<1>2. CASE ~orders[o].restored
  <2>1. /\ Waits(o) /\ got[o] = 0 /\ Free(Wanted(o))
        /\ Locks(o, rest) /\ UNCHANGED <<tables, lines>>
    BY <1>2 DEF LocksOrder, Restocked
  <2> HIDE DEF rest
  <2> QED BY <1>1, <1>2, <2>1, Kinds DEF ReadsRow
<1>3. CASE orders[o].restored
  BY <1>3 DEF LocksOrder
<1> QED BY <1>2, <1>3

\* Every step is one of these.
LEMMA CheckoutMoves ==
  ASSUME CheckoutTypeOK, [CheckoutNext]_checkoutVars
  PROVE  \/ UNCHANGED checkoutVars
         \/ \E b \in Buyers, t \in Targets : AddToCart(b, t)
         \/ \E a \in Actors : Begins(a) \/ ReadsRow(a) \/ Takes(a) \/ RollsBack(a)
         \/ \E c \in Checkouts : Places(c)
         \/ \E o \in Cancellable : Restores(o)
<1> DEFINE Some == \E a \in Actors : Begins(a) \/ ReadsRow(a) \/ Takes(a) \/ RollsBack(a)
<1>1. ASSUME NEW c \in Checkouts, Begin(c) PROVE Begins(c)
  BY <1>1, Kinds DEF Begin, Begins
<1>2. ASSUME NEW o \in Cancellable, BeginCancel(o) PROVE Begins(o)
  BY <1>2, Kinds DEF BeginCancel, Begins
<1>3. ASSUME NEW a \in Actors, TakesLock(a) PROVE Takes(a)
  <2>1. plan \in [Actors -> Seq(LockRows)]
    BY DEF CheckoutTypeOK
  <2>2. plan[a] \in Seq(LockRows)
    BY <2>1
  <2>3. plan[a] \o <<>> = plan[a]
    BY <2>2, ConcatEmptySeq
  <2>4. plan' = [plan EXCEPT ![a] = plan[a]]
    BY <1>3, <2>3 DEF TakesLock, Locks
  <2>5. plan' = plan
    BY <2>1, <2>4
  <2> QED BY <1>3, <2>5 DEF TakesLock, Locks, Takes
<1>4. ASSUME NEW c \in Checkouts, Refused(c) PROVE RollsBack(c)
  BY <1>4 DEF Refused
<1>5. ASSUME NEW a \in Actors, Dies(a) PROVE RollsBack(a)
  BY <1>5 DEF Dies
<1>6. ASSUME NEW c \in Checkouts, Begin(c) \/ LocksCart(c) \/ Refused(c) PROVE Some
  BY <1>1, <1>4, <1>6, ReadsCart, Kinds
<1>7. ASSUME NEW o \in Cancellable, BeginCancel(o) \/ LocksOrder(o) PROVE Some
  BY <1>2, <1>7, ReadsOrder, Kinds
<1>8. ASSUME NEW a \in Actors, TakesLock(a) \/ Dies(a) PROVE Some
  BY <1>3, <1>5, <1>8
<1> HIDE DEF Some
<1>9. \/ UNCHANGED checkoutVars
      \/ \E b \in Buyers, t \in Targets : AddToCart(b, t)
      \/ Some
      \/ \E c \in Checkouts : Places(c)
      \/ \E o \in Cancellable : Restores(o)
  BY <1>6, <1>7, <1>8 DEF CheckoutNext
<1> QED BY <1>9 DEF Some

\* No transaction is under way at first.
LEMMA CheckoutInitInv == CheckoutInit => CheckoutInv
<1> SUFFICES ASSUME CheckoutInit PROVE CheckoutInv
  OBVIOUS
<1> USE DEF CheckoutInit
<1>1. None \in [Targets -> Nat] /\ \A t \in Targets : None[t] = 0
  BY DEF None
<1>2. NoOrder \in [lines : [Targets -> Nat], credit : Nat, restored : BOOLEAN]
  BY <1>1 DEF NoOrder
<1>3. CheckoutTypeOK
  <2>1. cart \in [Buyers -> [Targets -> Nat]] /\ put \in [Buyers -> [Targets -> Nat]]
    BY <1>1
  <2>2. stock \in [Targets -> Nat] /\ credit \in [Buyers -> Nat] /\ used \in [Coupons -> Nat]
    BY StockAssumption
  <2>3. orders \in [Orders -> [lines : [Targets -> Nat], credit : Nat, restored : BOOLEAN]]
    BY <1>2
  <2>4. plan \in [Actors -> Seq(LockRows)] /\ got \in [Actors -> Nat]
    BY EmptySeq
  <2>5. lines \in [Checkouts -> [Targets -> Nat]]
    BY <1>1
  <2> QED BY <2>1, <2>2, <2>3, <2>4, <2>5 DEF CheckoutTypeOK
<1>4. PlanInv
  BY DEF PlanInv, StockAscends
<1>5. CartInv
  <2>1. \A c \in Checkouts : plan[c] = <<>> /\ got[c] = 0 /\ lines[c] = None
    BY DEF Actors
  <2>2. \A c \in Checkouts, t \in Targets : lines[c][t] = 0 /\ cart[BuyerOf[c]][t] = 0
    BY <1>1, <2>1
  <2> HIDE DEF CheckoutInit
  <2> QED BY <2>1, <2>2 DEF CartInv
<1>6. CancelInv
  BY DEF CancelInv, Actors
<1>7. PlacedInv
  <2>1. {o \in Orders : Placed(o)} = {}
    BY DEF Placed
  <2> QED BY <2>1, FS_EmptySet DEF PlacedInv
<1> QED BY <1>3, <1>4, <1>5, <1>6, <1>7 DEF CheckoutInv

-----------------------------------------------------------------------------
\* The orders that a checkout places.
New(c) == {o \in Orders : o[1] = c /\ OfSeller(c, o[2]) # None}

\* A checkout that is done with its locks places orders that do not exist yet, of
\* lines that are in stock.
LEMMA PlacesNew ==
  ASSUME CheckoutInv, NEW c \in Checkouts, Places(c)
  PROVE  /\ plan[c] # <<>> /\ got[c] > 0 /\ lines[c] # None
         /\ \A t \in Targets : lines[c][t] <= stock[t]
         /\ IsFiniteSet(New(c)) /\ New(c) \subseteq Orders
         /\ \A o \in New(c) : /\ ~Placed(o) /\ Placed(o)' /\ plan[o[1]] # <<>>
                              /\ orders'[o] = [lines |-> OfSeller(c, o[2]),
                                               credit |-> Share(c, o[2]), restored |-> FALSE]
         /\ \A o \in Orders : o \notin New(c) => orders'[o] = orders[o]
<1>1. c \in Actors
  BY Kinds
<1>2. /\ plan[c] \in Seq(LockRows) /\ got[c] \in Nat
      /\ lines[c] \in [Targets -> Nat] /\ stock \in [Targets -> Nat]
  BY <1>1 DEF CheckoutInv, CheckoutTypeOK
<1>3. plan[c] # <<>> /\ got[c] > 0
  <2>1. plan[c] # <<>> /\ ~(got[c] < Len(plan[c]))
    BY DEF Places, HasAll, Waits
  <2>2. Len(plan[c]) > 0
    BY <1>2, <2>1
  <2> QED BY <1>2, <2>1, <2>2
<1>4. lines[c] # None
  BY <1>2, <1>3 DEF CheckoutInv, CartInv
<1>5. \A t \in Targets : lines[c][t] <= stock[t]
  BY <1>2 DEF Places, Short
<1>6. IsFiniteSet(New(c)) /\ New(c) \subseteq Orders
  <2>1. IsFiniteSet({c} \X Sellers)
    BY FS_Singleton, FS_Product
  <2>2. New(c) \in SUBSET ({c} \X Sellers)
    BY DEF New, Orders
  <2>3. IsFiniteSet(New(c))
    BY <2>1, <2>2, FS_Subset
  <2> QED BY <2>3 DEF New
<1>7. /\ \A o \in New(c) : orders'[o] = [lines |-> OfSeller(c, o[2]),
                                         credit |-> Share(c, o[2]), restored |-> FALSE]
      /\ \A o \in Orders : o \notin New(c) => orders'[o] = orders[o]
  BY DEF Places, New
<1>8. ASSUME NEW o \in New(c) PROVE ~Placed(o) /\ Placed(o)' /\ plan[o[1]] # <<>>
  <2>1. o = <<c, o[2]>> /\ o[2] \in Sellers /\ o[1] = c /\ OfSeller(c, o[2]) # None
    BY DEF New, Orders
  <2>2. ~Placed(<<c, o[2]>>)
    BY <1>3, <2>1 DEF CheckoutInv, CartInv
  <2>3. orders'[o].lines # None
    <3>1. orders'[o] = [lines |-> OfSeller(c, o[2]),
                        credit |-> Share(c, o[2]), restored |-> FALSE]
      BY <1>7
    <3>2. orders'[o].lines = OfSeller(c, o[2])
      BY <3>1
    <3> QED BY <2>1, <3>2
  <2>4. NoOrder.lines = None
    BY DEF NoOrder
  <2>5. Placed(o)'
    BY <2>3, <2>4 DEF Placed
  <2> QED BY <1>3, <2>1, <2>2, <2>5
<1> QED BY <1>3, <1>4, <1>5, <1>6, <1>7, <1>8

\* A cancellation that is done with its locks finds its order placed and not restored.
LEMMA RestoresLive ==
  ASSUME CheckoutInv, NEW o \in Cancellable, Restores(o)
  PROVE  /\ o \in Orders /\ Placed(o) /\ ~orders[o].restored /\ Placed(o)' /\ orders'[o].restored
         /\ orders'[o].lines = orders[o].lines /\ orders'[o].credit = orders[o].credit
         /\ \A p \in Orders : p # o => orders'[p] = orders[p]
<1>1. o \in Actors /\ o \in Orders
  BY Kinds
<1>2. plan[o] \in Seq(LockRows) /\ got[o] \in Nat
  BY <1>1 DEF CheckoutInv, CheckoutTypeOK
<1>3. plan[o] # <<>> /\ got[o] > 0
  <2>1. plan[o] # <<>> /\ ~(got[o] < Len(plan[o]))
    BY DEF Restores, HasAll, Waits
  <2>2. Len(plan[o]) > 0
    BY <1>2, <2>1
  <2> QED BY <1>2, <2>1, <2>2
<1>4. Placed(o) /\ ~orders[o].restored
  BY <1>3 DEF CheckoutInv, CancelInv
<1>5. /\ orders \in [Orders -> [lines : [Targets -> Nat], credit : Nat, restored : BOOLEAN]]
      /\ orders' = [orders EXCEPT ![o].restored = TRUE]
  BY DEF CheckoutInv, CheckoutTypeOK, Restores
<1>6. /\ orders'[o].restored /\ orders'[o].lines = orders[o].lines
      /\ orders'[o].credit = orders[o].credit
      /\ \A p \in Orders : p # o => orders'[p] = orders[p]
  BY <1>1, <1>5
<1>7. Placed(o)'
  <2>1. NoOrder.restored = FALSE
    BY DEF NoOrder
  <2> QED BY <1>6, <2>1 DEF Placed
<1> QED BY <1>1, <1>4, <1>6, <1>7

\* A transaction that ends forgets its locks and lines.
LEMMA EndsType ==
  ASSUME CheckoutTypeOK, NEW a \in Actors, Ends(a)
  PROVE  /\ plan' \in [Actors -> Seq(LockRows)] /\ got' \in [Actors -> Nat]
         /\ lines' \in [Checkouts -> [Targets -> Nat]]
<1>1. plan' \in [Actors -> Seq(LockRows)]
  BY EmptySeq DEF CheckoutTypeOK, Ends
<1>2. got' \in [Actors -> Nat]
  BY DEF CheckoutTypeOK, Ends
<1>3. lines' \in [Checkouts -> [Targets -> Nat]]
  <2>1. None \in [Targets -> Nat]
    BY DEF None
  <2> QED BY <2>1 DEF CheckoutTypeOK, Ends
<1> QED BY <1>1, <1>2, <1>3

LEMMA CheckoutTypeStep == CheckoutInv /\ [CheckoutNext]_checkoutVars => CheckoutTypeOK'
<1> SUFFICES ASSUME CheckoutInv, [CheckoutNext]_checkoutVars PROVE CheckoutTypeOK'
  OBVIOUS
<1>0. CheckoutTypeOK
  BY DEF CheckoutInv
<1>1. CASE UNCHANGED checkoutVars
  BY <1>0, <1>1 DEF CheckoutTypeOK, checkoutVars, tables
<1>2. ASSUME NEW b \in Buyers, NEW t \in Targets, AddToCart(b, t) PROVE CheckoutTypeOK'
  <2>1. cart' \in [Buyers -> [Targets -> Nat]] /\ put' \in [Buyers -> [Targets -> Nat]]
    BY <1>0, <1>2 DEF CheckoutTypeOK, AddToCart
  <2> QED BY <1>0, <1>2, <2>1 DEF CheckoutTypeOK, AddToCart
<1>3. ASSUME NEW a \in Actors, Begins(a) PROVE CheckoutTypeOK'
  <2>1. FirstLock(a) \in LockRows
    <3>1. a \in Checkouts => FirstLock(a) \in LockRows
      BY Kinds DEF CartLock, LockRows
    <3>2. a \in Cancellable => FirstLock(a) \in LockRows
      BY Kinds DEF OrderLock, LockRows
    <3> QED BY <3>1, <3>2 DEF Actors
  <2>2. <<FirstLock(a)>> \in Seq(LockRows)
    BY <2>1
  <2>3. plan' \in [Actors -> Seq(LockRows)]
    BY <1>0, <1>3, <2>2 DEF CheckoutTypeOK, Begins
  <2> QED BY <1>0, <1>3, <2>3 DEF CheckoutTypeOK, Begins, tables
<1>4. ASSUME NEW a \in Actors, ReadsRow(a) PROVE CheckoutTypeOK'
  <2>1. PICK rest : InOrder(rest) /\ Locks(a, rest)
    BY <1>4 DEF ReadsRow
  <2>2. plan[a] \o rest \in Seq(LockRows)
    <3>1. plan[a] \in Seq(LockRows) /\ rest \in Seq(LockRows)
      BY <1>0, <2>1 DEF CheckoutTypeOK, InOrder
    <3> QED BY <3>1, ConcatProperties
  <2>3. plan' \in [Actors -> Seq(LockRows)]
    BY <1>0, <2>1, <2>2 DEF CheckoutTypeOK, Locks
  <2>4. got' \in [Actors -> Nat]
    BY <1>0, <2>1 DEF CheckoutTypeOK, Locks
  <2>5. lines' \in [Checkouts -> [Targets -> Nat]]
    <3>1. CASE a \in Checkouts
      BY <1>0, <1>4, <3>1 DEF CheckoutTypeOK, ReadsRow
    <3>2. CASE a \in Cancellable
      BY <1>0, <1>4, <3>2 DEF CheckoutTypeOK, ReadsRow
    <3> QED BY <3>1, <3>2 DEF Actors
  <2> QED BY <1>0, <1>4, <2>3, <2>4, <2>5 DEF CheckoutTypeOK, ReadsRow, tables
<1>5. ASSUME NEW a \in Actors, Takes(a) PROVE CheckoutTypeOK'
  <2>1. got' \in [Actors -> Nat]
    BY <1>0, <1>5 DEF CheckoutTypeOK, Takes
  <2> QED BY <1>0, <1>5, <2>1 DEF CheckoutTypeOK, Takes, tables
<1>6. ASSUME NEW a \in Actors, RollsBack(a) PROVE CheckoutTypeOK'
  <2>1. Ends(a) /\ UNCHANGED tables
    BY <1>6 DEF RollsBack
  <2> QED BY <1>0, <2>1, EndsType DEF CheckoutTypeOK, tables
<1>7. ASSUME NEW c \in Checkouts, Places(c) PROVE CheckoutTypeOK'
  <2>1. c \in Actors /\ lines[c] # None
    BY <1>7, Kinds, PlacesNew
  <2>2. /\ plan' \in [Actors -> Seq(LockRows)] /\ got' \in [Actors -> Nat]
        /\ lines' \in [Checkouts -> [Targets -> Nat]]
    BY <1>0, <1>7, <2>1, EndsType DEF Places
  <2>3. cart' \in [Buyers -> [Targets -> Nat]] /\ put' \in [Buyers -> [Targets -> Nat]]
    <3>1. None \in [Targets -> Nat]
      BY DEF None
    <3> QED BY <1>0, <1>7, <3>1 DEF CheckoutTypeOK, Places
  <2>4. stock' \in [Targets -> Nat]
    <3>1. \A t \in Targets : lines[c][t] <= stock[t] /\ lines[c][t] \in Nat /\ stock[t] \in Nat
      BY <1>0, <1>7, PlacesNew DEF CheckoutTypeOK
    <3>2. \A t \in Targets : stock[t] - lines[c][t] \in Nat
      BY <3>1
    <3> QED BY <1>7, <3>2 DEF Places
  <2>5. credit' \in [Buyers -> Nat]
    <3>1. credit[BuyerOf[c]] \in Nat /\ Applied(c) \in Nat /\ Applied(c) <= credit[BuyerOf[c]]
      BY <1>0, AppliedBounds DEF CheckoutTypeOK
    <3>2. credit[BuyerOf[c]] - Applied(c) \in Nat
      BY <3>1
    <3>3. credit' = [credit EXCEPT ![BuyerOf[c]] = credit[BuyerOf[c]] - Applied(c)]
      BY <1>7 DEF Places
    <3>4. credit \in [Buyers -> Nat]
      BY <1>0 DEF CheckoutTypeOK
    <3> QED BY <3>2, <3>3, <3>4
  <2>6. used' \in [Coupons -> Nat]
    <3>1. \A k \in Coupons : used[k] \in Nat
      BY <1>0 DEF CheckoutTypeOK
    <3>2. \A k \in Coupons : used[k] + (IF k \in ToSet(CouponsOf[c]) THEN 1 ELSE 0) \in Nat
      BY <3>1
    <3> QED BY <1>7, <3>2 DEF Places
  <2>7. orders' \in [Orders -> [lines : [Targets -> Nat], credit : Nat, restored : BOOLEAN]]
    <3> DEFINE Rec == [lines : [Targets -> Nat], credit : Nat, restored : BOOLEAN]
    <3>1. \A o \in New(c) : orders'[o] \in Rec
      <4> TAKE o \in New(c)
      <4>1. OfSeller(c, o[2]) \in [Targets -> Nat] /\ Share(c, o[2]) \in Nat
        BY <1>0, <2>1, OfSellerType, ShareRounds
      <4>2. orders'[o] = [lines |-> OfSeller(c, o[2]), credit |-> Share(c, o[2]),
                          restored |-> FALSE]
        BY <1>7, PlacesNew
      <4> QED BY <4>1, <4>2
    <3>2. \A o \in Orders : o \notin New(c) => orders'[o] \in Rec
      <4>1. \A o \in Orders : orders[o] \in Rec
        BY <1>0 DEF CheckoutTypeOK
      <4>2. \A o \in Orders : o \notin New(c) => orders'[o] = orders[o]
        BY <1>7, PlacesNew
      <4> HIDE DEF Rec
      <4> QED BY <4>1, <4>2
    <3>3. orders' = [o \in Orders |-> orders'[o]]
      BY <1>7 DEF Places
    <3> HIDE DEF Rec
    <3>4. \A o \in Orders : orders'[o] \in Rec
      BY <3>1, <3>2
    <3>5. orders' \in [Orders -> Rec]
      BY <3>3, <3>4
    <3> QED BY <3>5 DEF Rec
  <2> QED BY <2>2, <2>3, <2>4, <2>5, <2>6, <2>7 DEF CheckoutTypeOK
<1>8. ASSUME NEW o \in Cancellable, Restores(o) PROVE CheckoutTypeOK'
  <2>1. o \in Actors /\ o \in Orders /\ o[1] \in Checkouts
    BY Kinds
  <2>2. /\ plan' \in [Actors -> Seq(LockRows)] /\ got' \in [Actors -> Nat]
        /\ lines' \in [Checkouts -> [Targets -> Nat]]
    BY <1>0, <1>8, <2>1, EndsType DEF Restores
  <2>3. orders[o].lines \in [Targets -> Nat] /\ orders[o].credit \in Nat
    BY <1>0, <2>1 DEF CheckoutTypeOK
  <2>4. stock' \in [Targets -> Nat]
    <3>1. \A t \in Targets : stock[t] + orders[o].lines[t] \in Nat
      <4>1. \A t \in Targets : stock[t] \in Nat /\ orders[o].lines[t] \in Nat
        BY <1>0, <2>3 DEF CheckoutTypeOK
      <4> QED BY <4>1
    <3> QED BY <1>8, <3>1 DEF Restores
  <2>5. credit' \in [Buyers -> Nat]
    <3>1. credit \in [Buyers -> Nat] /\ BuyerOf[o[1]] \in Buyers
      BY <1>0, <2>1 DEF CheckoutTypeOK
    <3>2. credit' = [credit EXCEPT ![BuyerOf[o[1]]] = @ + orders[o].credit]
      BY <1>8 DEF Restores
    <3> QED BY <2>3, <3>1, <3>2
  <2>6. orders' \in [Orders -> [lines : [Targets -> Nat], credit : Nat, restored : BOOLEAN]]
    <3> DEFINE Rec == [lines : [Targets -> Nat], credit : Nat, restored : BOOLEAN]
               new == [orders[o] EXCEPT !.restored = TRUE]
    <3>1. orders \in [Orders -> Rec] /\ orders[o] \in Rec
      BY <1>0, <2>1 DEF CheckoutTypeOK
    <3>2. new \in Rec
      BY <3>1
    <3>3. orders' = [orders EXCEPT ![o] = new]
      BY <1>8 DEF Restores
    <3> HIDE DEF Rec, new
    <3>4. orders' \in [Orders -> Rec]
      BY <2>1, <3>1, <3>2, <3>3
    <3> QED BY <3>4 DEF Rec
  <2> QED BY <1>0, <1>8, <2>2, <2>4, <2>5, <2>6 DEF CheckoutTypeOK, Restores
<1> QED BY <1>0, <1>1, <1>2, <1>3, <1>4, <1>5, <1>6, <1>7, <1>8, CheckoutMoves

\* PlanInv: who ends lets its rows go.
LEMMA PlanEnds ==
  ASSUME CheckoutInv, NEW a \in Actors, Ends(a)
  PROVE  PlanInv'
<1>1. plan \in [Actors -> Seq(LockRows)] /\ got \in [Actors -> Nat]
  BY DEF CheckoutInv, CheckoutTypeOK
<1>2. /\ plan'[a] = <<>> /\ got'[a] = 0
      /\ \A b \in Actors : b # a => plan'[b] = plan[b] /\ got'[b] = got[b]
  BY <1>1 DEF Ends
<1> SUFFICES ASSUME NEW b \in Actors
             PROVE  /\ got'[b] <= Len(plan'[b]) /\ (got'[b] = 0 => Len(plan'[b]) <= 1)
                    /\ plan'[b] # <<>> => plan'[b][1] = FirstLock(b)
                    /\ StockAscends(plan'[b])
  BY DEF PlanInv, FirstLock, StockAscends, CartLock, OrderLock
<1>3. CASE b = a
  BY <1>2, <1>3 DEF StockAscends
<1>4. CASE b # a
  BY <1>2, <1>4 DEF CheckoutInv, PlanInv
<1> QED BY <1>3, <1>4

\* PlanInv: a row is locked by one transaction, and every list is in order.
LEMMA PlanStep == CheckoutInv /\ [CheckoutNext]_checkoutVars => PlanInv'
<1> SUFFICES ASSUME CheckoutInv, [CheckoutNext]_checkoutVars PROVE PlanInv'
  OBVIOUS
<1>0. /\ plan \in [Actors -> Seq(LockRows)] /\ got \in [Actors -> Nat]
      /\ PlanInv /\ CheckoutTypeOK
  BY DEF CheckoutInv, CheckoutTypeOK
<1>1. CASE UNCHANGED <<plan, got>>
  BY <1>0, <1>1 DEF PlanInv
<1>2. ASSUME NEW a \in Actors, Ends(a) PROVE PlanInv'
  BY <1>2, PlanEnds
\* The other steps change one transaction.
<1>3. ASSUME NEW a \in Actors,
             \A b \in Actors : b # a => plan'[b] = plan[b] /\ got'[b] = got[b],
             got'[a] <= Len(plan'[a]), got'[a] = 0 => Len(plan'[a]) <= 1,
             plan'[a] # <<>> => plan'[a][1] = FirstLock(a), StockAscends(plan'[a])
      PROVE  PlanInv'
  <2> SUFFICES ASSUME NEW b \in Actors
               PROVE  /\ got'[b] <= Len(plan'[b]) /\ (got'[b] = 0 => Len(plan'[b]) <= 1)
                      /\ plan'[b] # <<>> => plan'[b][1] = FirstLock(b)
                      /\ StockAscends(plan'[b])
    BY DEF PlanInv, FirstLock, StockAscends, CartLock, OrderLock
  <2>1. CASE b = a
    BY <1>3, <2>1
  <2>2. CASE b # a
    BY <1>0, <1>3, <2>2 DEF PlanInv
  <2> QED BY <2>1, <2>2
<1>4. ASSUME NEW a \in Actors, Begins(a) PROVE PlanInv'
  <2>1. /\ plan'[a] = <<FirstLock(a)>> /\ got'[a] = 0
        /\ \A b \in Actors : b # a => plan'[b] = plan[b] /\ got'[b] = got[b]
    <3>1. plan[a] = <<>> /\ got[a] <= Len(plan[a]) /\ got[a] \in Nat
      BY <1>0, <1>4 DEF Begins, PlanInv
    <3> QED BY <1>0, <1>4, <3>1 DEF Begins
  <2>2. Len(plan'[a]) = 1 /\ plan'[a][1] = FirstLock(a) /\ StockAscends(plan'[a])
    BY <2>1 DEF StockAscends
  <2>3. got'[a] <= Len(plan'[a]) /\ (got'[a] = 0 => Len(plan'[a]) <= 1)
    BY <2>1, <2>2
  <2>4. \A b \in Actors : b # a => plan'[b] = plan[b] /\ got'[b] = got[b]
    BY <2>1
  <2>5. plan'[a] # <<>> => plan'[a][1] = FirstLock(a)
    BY <2>2
  <2>6. StockAscends(plan'[a])
    BY <2>2
  <2> HIDE DEF StockAscends, FirstLock
  <2> QED BY <1>3, <2>3, <2>4, <2>5, <2>6
<1>5. ASSUME NEW a \in Actors, ReadsRow(a) PROVE PlanInv'
  <2>1. PICK rest : InOrder(rest) /\ Locks(a, rest)
    BY <1>5 DEF ReadsRow
  <2>2. /\ plan'[a] = plan[a] \o rest /\ got'[a] = 1
        /\ \A b \in Actors : b # a => plan'[b] = plan[b] /\ got'[b] = got[b]
    <3>1. /\ plan' = [plan EXCEPT ![a] = plan[a] \o rest]
          /\ got' = [got EXCEPT ![a] = got[a] + 1] /\ got[a] = 0
      BY <1>5, <2>1 DEF ReadsRow, Locks
    <3>2. plan'[a] = plan[a] \o rest /\ \A b \in Actors : b # a => plan'[b] = plan[b]
      BY <1>0, <3>1
    <3>3. got'[a] = 1 /\ \A b \in Actors : b # a => got'[b] = got[b]
      BY <1>0, <3>1
    <3> QED BY <3>2, <3>3
  <2>3. /\ plan[a] \in Seq(LockRows) /\ Len(plan[a]) = 1 /\ plan[a][1] = FirstLock(a)
    <3>1. plan[a] \in Seq(LockRows) /\ 0 < Len(plan[a]) /\ Len(plan[a]) <= 1
      BY <1>0, <1>5 DEF ReadsRow, Waits, PlanInv
    <3>2. Len(plan[a]) \in Nat /\ (plan[a] = <<>> => Len(plan[a]) = 0)
      BY <3>1
    <3>3. plan[a] # <<>> /\ Len(plan[a]) = 1
      <4> DEFINE n == Len(plan[a])
      <4>1. n \in Nat /\ 0 < n /\ n <= 1
        BY <3>1, <3>2
      <4> HIDE DEF n
      <4>2. n = 1
        BY <4>1
      <4>3. plan[a] # <<>>
        BY <3>2, <4>2 DEF n
      <4> QED BY <4>2, <4>3 DEF n
    <3> QED BY <1>0, <3>1, <3>3 DEF PlanInv
  <2>4. FirstLock(a)[1] \notin {"stock", "key"}
    BY DEF FirstLock, CartLock, OrderLock
  <2>5. InOrder(plan[a]) /\ NoStock(plan[a])
    BY <2>3, <2>4 DEF InOrder, NoStock, StockAscends
  <2>6. InOrder(plan[a] \o rest)
    BY <2>1, <2>5, JoinInOrder
  <2>7. Len(plan[a] \o rest) >= 1 /\ (plan[a] \o rest)[1] = plan[a][1]
    <3>1. rest \in Seq(LockRows) /\ Len(rest) \in Nat
      BY <2>1 DEF InOrder
    <3> QED BY <2>3, <3>1, ConcatProperties
  <2>8. got'[a] <= Len(plan'[a]) /\ (got'[a] = 0 => Len(plan'[a]) <= 1)
    BY <2>2, <2>7
  <2>9. (plan'[a] # <<>> => plan'[a][1] = FirstLock(a)) /\ StockAscends(plan'[a])
    BY <2>2, <2>3, <2>6, <2>7 DEF InOrder
  <2> QED BY <1>3, <2>2, <2>8, <2>9
<1>6. ASSUME NEW a \in Actors, Takes(a) PROVE PlanInv'
  <2>1. /\ plan'[a] = plan[a] /\ got'[a] = got[a] + 1
        /\ \A b \in Actors : b # a => plan'[b] = plan[b] /\ got'[b] = got[b]
    BY <1>0, <1>6 DEF Takes
  <2>2. got[a] \in Nat /\ Len(plan[a]) \in Nat /\ got[a] < Len(plan[a])
    BY <1>0, <1>6 DEF Takes, Waits
  <2>3. got'[a] <= Len(plan'[a]) /\ (got'[a] = 0 => Len(plan'[a]) <= 1)
    BY <2>1, <2>2
  <2>4. (plan'[a] # <<>> => plan'[a][1] = FirstLock(a)) /\ StockAscends(plan'[a])
    BY <1>0, <2>1 DEF PlanInv
  <2> QED BY <1>3, <2>1, <2>3, <2>4
<1>7. UNCHANGED checkoutVars => UNCHANGED <<plan, got>>
  BY DEF checkoutVars
<1>8. ASSUME NEW b \in Buyers, NEW t \in Targets, AddToCart(b, t) PROVE UNCHANGED <<plan, got>>
  BY <1>8 DEF AddToCart
<1>9. ASSUME NEW c \in Checkouts, Places(c) PROVE PlanInv'
  BY <1>2, <1>9, Kinds DEF Places
<1>10. ASSUME NEW o \in Cancellable, Restores(o) PROVE PlanInv'
  BY <1>2, <1>10, Kinds DEF Restores
<1>11. ASSUME NEW a \in Actors, RollsBack(a) PROVE PlanInv'
  BY <1>2, <1>11 DEF RollsBack
<1> QED BY <1>0, <1>1, <1>4, <1>5, <1>6, <1>7, <1>8, <1>9, <1>10, <1>11, CheckoutMoves

-----------------------------------------------------------------------------
\* CartInv: who ends leaves nothing to tell.
LEMMA CartEnds ==
  ASSUME CheckoutInv, NEW a \in Actors, Ends(a)
  PROVE  /\ plan'[a] = <<>> /\ got'[a] = 0 /\ (a \in Checkouts => lines'[a] = None)
         /\ \A b \in Actors : b # a => plan'[b] = plan[b] /\ got'[b] = got[b]
         /\ \A c \in Checkouts : c # a => lines'[c] = lines[c]
<1>1. /\ plan \in [Actors -> Seq(LockRows)] /\ got \in [Actors -> Nat]
      /\ lines \in [Checkouts -> [Targets -> Nat]]
  BY DEF CheckoutInv, CheckoutTypeOK
<1>2. /\ plan'[a] = <<>> /\ got'[a] = 0
      /\ \A b \in Actors : b # a => plan'[b] = plan[b] /\ got'[b] = got[b]
  BY <1>1 DEF Ends
<1>3. (a \in Checkouts => lines'[a] = None) /\ \A c \in Checkouts : c # a => lines'[c] = lines[c]
  <2>1. CASE a \in Checkouts
    BY <1>1, <2>1 DEF Ends
  <2>2. CASE a \notin Checkouts
    BY <2>2 DEF Ends
  <2> QED BY <2>1, <2>2
<1> QED BY <1>2, <1>3

\* The four parts of CartInv for one checkout or two.
CartHas(c)    == \A t \in Targets : lines[c][t] <= cart[BuyerOf[c]][t]
HasCart(c)    == got[c] = 0 <=> lines[c] = None
Unplaced(c)   == plan[c] # <<>> => \A s \in Sellers : ~Placed(<<c, s>>)

OneCart(c, d) == got[c] > 0 /\ got[d] > 0 /\ BuyerOf[c] = BuyerOf[d] => c = d

LEMMA CartParts ==
  CartInv <=> /\ \A c \in Checkouts : CartHas(c) /\ HasCart(c) /\ Unplaced(c)
              /\ \A c, d \in Checkouts : OneCart(c, d)
BY DEF CartInv, CartHas, HasCart, Unplaced, OneCart

LEMMA CartPartsNext ==
  ASSUME \A c \in Checkouts : CartHas(c)' /\ HasCart(c)' /\ Unplaced(c)',
         \A c, d \in Checkouts : OneCart(c, d)'
  PROVE  CartInv'
BY DEF CartInv, CartHas, HasCart, Unplaced, OneCart

\* Orders of other checkouts stay as they are, or one of them is marked as restored.
SamePlaced(c) == \A s \in Sellers : Placed(<<c, s>>)' => Placed(<<c, s>>)

\* CartInv: what a checkout has read of the cart is in the cart until it places its orders.
LEMMA CartStep == CheckoutInv /\ [CheckoutNext]_checkoutVars => CartInv'
<1> SUFFICES ASSUME CheckoutInv, [CheckoutNext]_checkoutVars PROVE CartInv'
  OBVIOUS
<1>0. /\ plan \in [Actors -> Seq(LockRows)] /\ got \in [Actors -> Nat]
      /\ lines \in [Checkouts -> [Targets -> Nat]] /\ cart \in [Buyers -> [Targets -> Nat]]
      /\ CheckoutTypeOK /\ PlanInv /\ \A c \in Checkouts : c \in Actors
  BY Kinds DEF CheckoutInv, CheckoutTypeOK
<1>1. /\ \A c \in Checkouts : CartHas(c) /\ HasCart(c) /\ Unplaced(c)
      /\ \A c, d \in Checkouts : OneCart(c, d)
  BY CartParts DEF CheckoutInv
\* A checkout whose variables stay keeps its parts, as long as its lines stay in the cart.
<1>2. ASSUME NEW c \in Checkouts, plan'[c] = plan[c], got'[c] = got[c], lines'[c] = lines[c],
             SamePlaced(c),
             \A t \in Targets : lines[c][t] > 0 => cart[BuyerOf[c]][t] <= cart'[BuyerOf[c]][t],
             \A t \in Targets : cart'[BuyerOf[c]][t] \in Nat
      PROVE  CartHas(c)' /\ HasCart(c)' /\ Unplaced(c)'
  <2>1. HasCart(c)' /\ Unplaced(c)'
    BY <1>1, <1>2 DEF HasCart, Unplaced, SamePlaced, None
  <2>2. ASSUME NEW t \in Targets PROVE lines'[c][t] <= cart'[BuyerOf[c]][t]
    <3>1. /\ lines[c][t] \in Nat /\ lines[c][t] <= cart[BuyerOf[c]][t]
          /\ cart[BuyerOf[c]][t] \in Nat /\ cart'[BuyerOf[c]][t] \in Nat
      BY <1>0, <1>1, <1>2 DEF CartHas
    <3>2. lines[c][t] > 0 => cart[BuyerOf[c]][t] <= cart'[BuyerOf[c]][t]
      BY <1>2
    <3> QED BY <1>2, <3>1, <3>2
  <2>3. CartHas(c)'
    BY <2>2 DEF CartHas
  <2> QED BY <2>1, <2>3
<1>3. CheckoutTypeOK'
  BY CheckoutTypeStep
<1>4. \A b \in Buyers, t \in Targets : cart'[b][t] \in Nat
  BY <1>3 DEF CheckoutTypeOK
<1>5. UNCHANGED orders => \A c \in Checkouts : SamePlaced(c)
  BY DEF SamePlaced, Placed
\* Steps that lock nothing and leave the orders, and no cart gets smaller.
<1>6. ASSUME UNCHANGED <<got, lines, orders>>,
             \A c \in Checkouts : plan'[c] = plan[c],
             \A b \in Buyers, t \in Targets : cart[b][t] <= cart'[b][t]
      PROVE  CartInv'
  <2>1. \A c \in Checkouts : CartHas(c)' /\ HasCart(c)' /\ Unplaced(c)'
    BY <1>2, <1>4, <1>5, <1>6
  <2>2. \A c, d \in Checkouts : OneCart(c, d)'
    BY <1>1, <1>6 DEF OneCart
  <2> QED BY <2>1, <2>2, CartPartsNext
<1>7. CASE UNCHANGED checkoutVars
  <2>1. \A b \in Buyers, t \in Targets : cart[b][t] <= cart'[b][t]
    BY <1>0, <1>7 DEF checkoutVars, tables
  <2> QED BY <1>6, <1>7, <2>1 DEF checkoutVars, tables
<1>8. ASSUME NEW b \in Buyers, NEW t \in Targets, AddToCart(b, t) PROVE CartInv'
  <2>1. \A d \in Buyers, u \in Targets : cart[d][u] <= cart'[d][u]
    BY <1>0, <1>8 DEF AddToCart
  <2>2. UNCHANGED <<got, lines, orders, plan>>
    BY <1>8 DEF AddToCart
  <2> QED BY <1>6, <2>1, <2>2
<1>9. ASSUME NEW a \in Actors, Begins(a) PROVE CartInv'
  <2>1. UNCHANGED <<cart, orders, got, lines>>
    BY <1>9 DEF Begins, tables
  <2>2. ASSUME NEW c \in Checkouts PROVE CartHas(c)' /\ HasCart(c)' /\ Unplaced(c)'
    <3>1. CartHas(c)' /\ HasCart(c)'
      BY <1>1, <2>1 DEF CartHas, HasCart, None
    <3>2. Unplaced(c)'
      <4>1. CASE c = a
        BY <1>9, <2>1, <4>1 DEF Begins, Unplaced, Placed
      <4>2. CASE c # a
        BY <1>0, <1>1, <1>9, <2>1, <4>2 DEF Begins, Unplaced, Placed
      <4> QED BY <4>1, <4>2
    <3> QED BY <3>1, <3>2
  <2>3. \A c, d \in Checkouts : OneCart(c, d)'
    BY <1>1, <2>1 DEF OneCart
  <2> QED BY <2>2, <2>3, CartPartsNext
<1>10. ASSUME NEW a \in Actors, Takes(a) PROVE CartInv'
  <2>1. UNCHANGED <<cart, orders, plan, lines>> /\ got' = [got EXCEPT ![a] = @ + 1] /\ got[a] > 0
    BY <1>10 DEF Takes, tables
  <2>2. \A b \in Actors : got[b] \in Nat /\ got'[b] \in Nat /\ (got'[b] = 0 <=> got[b] = 0)
    BY <1>0, <2>1
  <2>3. ASSUME NEW c \in Checkouts PROVE CartHas(c)' /\ HasCart(c)' /\ Unplaced(c)'
    <3>1. CartHas(c)' /\ Unplaced(c)'
      BY <1>1, <2>1 DEF CartHas, Unplaced, Placed
    <3>2. HasCart(c)'
      BY <1>0, <1>1, <2>1, <2>2 DEF HasCart, None
    <3> QED BY <3>1, <3>2
  <2>4. \A c, d \in Checkouts : OneCart(c, d)'
    <3>1. \A c \in Checkouts : got'[c] > 0 => got[c] > 0
      BY <1>0, <2>2
    <3> QED BY <1>1, <3>1 DEF OneCart
  <2> QED BY <2>3, <2>4, CartPartsNext
<1>11. ASSUME NEW a \in Actors, Ends(a),
              \A c \in Checkouts : c # a => SamePlaced(c),
              \A c \in Checkouts, t \in Targets :
                c # a /\ lines[c][t] > 0 => cart[BuyerOf[c]][t] <= cart'[BuyerOf[c]][t]
       PROVE  CartInv'
  <2>1. ASSUME NEW c \in Checkouts PROVE CartHas(c)' /\ HasCart(c)' /\ Unplaced(c)'
    <3>1. CASE c = a
      <4>1. lines'[c] = None /\ got'[c] = 0 /\ plan'[c] = <<>>
        BY <1>11, <3>1, CartEnds
      <4>2. HasCart(c)' /\ Unplaced(c)'
        BY <4>1 DEF HasCart, Unplaced, None
      <4>3. \A t \in Targets : lines'[c][t] = 0 /\ cart'[BuyerOf[c]][t] \in Nat
        BY <1>4, <4>1 DEF None
      <4>4. CartHas(c)'
        BY <4>3 DEF CartHas
      <4> QED BY <4>2, <4>4
    <3>2. CASE c # a
      <4>1. plan'[c] = plan[c] /\ got'[c] = got[c] /\ lines'[c] = lines[c]
        BY <1>0, <1>11, <3>2, CartEnds
      <4> QED BY <1>2, <1>4, <1>11, <3>2, <4>1
    <3> QED BY <3>1, <3>2
  <2>2. \A c, d \in Checkouts : OneCart(c, d)'
    <3>1. \A c \in Checkouts : got'[c] > 0 => got[c] > 0
      <4> TAKE c \in Checkouts
      <4>1. c = a => got'[c] = 0
        BY <1>11, CartEnds
      <4>2. c # a => got'[c] = got[c]
        BY <1>0, <1>11, CartEnds
      <4> QED BY <4>1, <4>2
    <3> QED BY <1>1, <3>1 DEF OneCart
  <2> QED BY <2>1, <2>2, CartPartsNext
<1>12. ASSUME NEW a \in Actors, RollsBack(a) PROVE CartInv'
  <2>1. Ends(a) /\ UNCHANGED <<cart, orders>>
    BY <1>12 DEF RollsBack, tables
  <2>2. \A c \in Checkouts, t \in Targets : cart[BuyerOf[c]][t] <= cart'[BuyerOf[c]][t]
    BY <1>0, <2>1
  <2> QED BY <1>5, <1>11, <2>1, <2>2
<1>13. ASSUME NEW o \in Cancellable, Restores(o) PROVE CartInv'
  <2>1. o \in Actors /\ Ends(o) /\ UNCHANGED cart
    BY <1>13, Kinds DEF Restores
  <2>2. \A c \in Checkouts : SamePlaced(c)
    <3>1. ASSUME NEW c \in Checkouts, NEW s \in Sellers, Placed(<<c, s>>)' PROVE Placed(<<c, s>>)
      <4>1. <<c, s>> \in Orders
        BY DEF Orders
      <4>2. CASE <<c, s>> = o
        BY <1>13, <4>2, RestoresLive
      <4>3. CASE <<c, s>> # o
        <5>1. orders'[<<c, s>>] = orders[<<c, s>>]
          BY <1>13, <4>1, <4>3, RestoresLive
        <5> QED BY <3>1, <5>1 DEF Placed
      <4> QED BY <4>2, <4>3
    <3> QED BY <3>1 DEF SamePlaced
  <2>3. \A c \in Checkouts, t \in Targets : cart[BuyerOf[c]][t] <= cart'[BuyerOf[c]][t]
    BY <1>0, <2>1
  <2> QED BY <1>11, <2>1, <2>2, <2>3
<1>14. ASSUME NEW k \in Checkouts, Places(k) PROVE CartInv'
  <2>1. k \in Actors /\ Ends(k) /\ cart' = [cart EXCEPT ![BuyerOf[k]] = None] /\ got[k] > 0
    BY <1>14, Kinds, PlacesNew DEF Places
  <2>2. ASSUME NEW c \in Checkouts, c # k PROVE SamePlaced(c)
    <3>1. ASSUME NEW s \in Sellers, Placed(<<c, s>>)' PROVE Placed(<<c, s>>)
      <4>1. <<c, s>> \in Orders /\ <<c, s>> \notin New(k)
        BY <2>2 DEF Orders, New
      <4>2. orders'[<<c, s>>] = orders[<<c, s>>]
        BY <1>14, <4>1, PlacesNew
      <4> QED BY <3>1, <4>2 DEF Placed
    <3> QED BY <3>1 DEF SamePlaced
  <2>3. ASSUME NEW c \in Checkouts, NEW t \in Targets, c # k, lines[c][t] > 0
        PROVE  cart[BuyerOf[c]][t] <= cart'[BuyerOf[c]][t]
    <3>1. lines[c] # None
      BY <2>3 DEF None
    <3>2. got[c] > 0
      BY <1>0, <1>1, <3>1 DEF HasCart
    <3>3. BuyerOf[c] # BuyerOf[k]
      BY <1>1, <2>1, <2>3, <3>2 DEF OneCart
    <3>4. cart'[BuyerOf[c]] = cart[BuyerOf[c]]
      BY <1>0, <2>1, <3>3
    <3> QED BY <1>0, <3>4
  <2> QED BY <1>11, <2>1, <2>2, <2>3
<1>15. ASSUME NEW a \in Actors, ReadsRow(a) PROVE CartInv'
  <2>1. PICK rest : InOrder(rest) /\ Locks(a, rest)
    BY <1>15 DEF ReadsRow
  <2>2. /\ plan'[a] # <<>> => plan[a] # <<>>
        /\ got'[a] = 1 /\ UNCHANGED <<cart, orders>>
        /\ \A b \in Actors : b # a => plan'[b] = plan[b] /\ got'[b] = got[b]
    <3>1. plan[a] # <<>>
      BY <1>0, <1>15 DEF ReadsRow, Waits
    <3> QED BY <1>0, <1>15, <2>1, <3>1 DEF ReadsRow, Locks, tables
  <2>3. \A c \in Checkouts : c # a => lines'[c] = lines[c]
    <3>1. CASE a \in Checkouts
      BY <1>0, <1>15, <3>1 DEF ReadsRow
    <3>2. CASE a \in Cancellable
      BY <1>15, <3>2 DEF ReadsRow
    <3> QED BY <3>1, <3>2 DEF Actors
  <2>4. a \in Checkouts => lines'[a] = cart[BuyerOf[a]] /\ cart[BuyerOf[a]] # None
    BY <1>0, <1>15 DEF ReadsRow
  <2>5. \A b \in Buyers, t \in Targets : cart[b][t] <= cart'[b][t]
    BY <1>0, <2>2
  <2>6. ASSUME NEW c \in Checkouts PROVE CartHas(c)' /\ HasCart(c)' /\ Unplaced(c)'
    <3>1. CASE c = a
      <4>1. Unplaced(c)'
        BY <1>1, <2>2, <3>1 DEF Unplaced, Placed
      <4>2. HasCart(c)'
        BY <2>2, <2>4, <3>1 DEF HasCart, None
      <4>3. \A t \in Targets : lines'[c][t] <= cart'[BuyerOf[c]][t]
        BY <1>0, <2>2, <2>4, <3>1
      <4> QED BY <4>1, <4>2, <4>3 DEF CartHas
    <3>2. CASE c # a
      <4>1. plan'[c] = plan[c] /\ got'[c] = got[c] /\ lines'[c] = lines[c]
        BY <1>0, <2>2, <2>3, <3>2
      <4> QED BY <1>2, <1>4, <1>5, <2>2, <2>5, <4>1
    <3> QED BY <3>1, <3>2
  \* Nobody else has the cart, for the lock on it was free.
  <2>7. ASSUME NEW c \in Checkouts, c # a, a \in Checkouts, got[c] > 0
        PROVE  BuyerOf[c] # BuyerOf[a]
    <3>1. plan[c] # <<>> /\ 1 \in 1 .. got[c] /\ got[c] <= Len(plan[c])
      BY <1>0, <2>7 DEF PlanInv
    <3>2. plan[c][1] = CartLock(BuyerOf[c])
      BY <1>0, <3>1, Kinds DEF PlanInv
    <3>3. CartLock(BuyerOf[c]) \in LocksOf(c)
      BY <3>1, <3>2 DEF LocksOf
    <3>4. Wanted(a) = CartLock(BuyerOf[a])
      <4>1. plan[a] # <<>> /\ got[a] = 0
        BY <1>0, <1>15 DEF ReadsRow, Waits
      <4> QED BY <1>0, <2>7, <4>1, Kinds DEF PlanInv, Wanted
    <3>5. Wanted(a) \notin LocksOf(c)
      BY <1>0, <1>15, <3>4 DEF ReadsRow, Free, Conflict, CartLock, Actors
    <3> QED BY <3>3, <3>4, <3>5
  <2>8. ASSUME NEW c \in Checkouts, NEW d \in Checkouts, got'[c] > 0, got'[d] > 0,
               BuyerOf[c] = BuyerOf[d]
        PROVE  c = d
    <3>1. (c # a => got[c] > 0) /\ (d # a => got[d] > 0)
      BY <1>0, <2>2, <2>8
    <3>2. CASE c # a /\ d # a
      BY <1>1, <2>8, <3>1, <3>2 DEF OneCart
    <3>3. CASE c = a /\ d # a
      BY <2>7, <2>8, <3>1, <3>3
    <3>4. CASE c # a /\ d = a
      BY <2>7, <2>8, <3>1, <3>4
    <3> QED BY <3>2, <3>3, <3>4
  <2>9. \A c, d \in Checkouts : OneCart(c, d)'
    BY <2>8 DEF OneCart
  <2> QED BY <2>6, <2>9, CartPartsNext
<1> QED BY <1>0, <1>7, <1>8, <1>9, <1>10, <1>12, <1>13, <1>14, <1>15, CheckoutMoves

\* CancelInv for one cancellation.
CancelHas(o) == (plan[o] # <<>> => Placed(o)) /\ (got[o] > 0 => ~orders[o].restored)

\* CancelInv: a cancellation that has read its order finds it as it was.
LEMMA CancelStep == CheckoutInv /\ [CheckoutNext]_checkoutVars => CancelInv'
<1> SUFFICES ASSUME CheckoutInv, [CheckoutNext]_checkoutVars, NEW o \in Cancellable
             PROVE  CancelHas(o)'
  BY DEF CancelInv, CancelHas
<1>0. /\ plan \in [Actors -> Seq(LockRows)] /\ got \in [Actors -> Nat]
      /\ PlanInv /\ CheckoutTypeOK /\ CancelHas(o)
      /\ o \in Actors /\ o \in Orders /\ o \notin Checkouts
  BY Kinds DEF CheckoutInv, CheckoutTypeOK, CancelInv, CancelHas
<1>1. ASSUME plan'[o] = plan[o], got'[o] > 0 => got[o] > 0, orders'[o] = orders[o]
      PROVE  CancelHas(o)'
  BY <1>0, <1>1 DEF CancelHas, Placed
<1>2. ASSUME plan'[o] = <<>>, got'[o] = 0 PROVE CancelHas(o)'
  BY <1>2 DEF CancelHas
<1>3. CASE UNCHANGED checkoutVars
  BY <1>1, <1>3 DEF checkoutVars, tables
<1>4. ASSUME NEW b \in Buyers, NEW t \in Targets, AddToCart(b, t) PROVE CancelHas(o)'
  BY <1>1, <1>4 DEF AddToCart
<1>5. ASSUME NEW a \in Actors, Begins(a) PROVE CancelHas(o)'
  <2>1. UNCHANGED <<got, orders>> /\ plan' = [plan EXCEPT ![a] = <<FirstLock(a)>>]
    BY <1>5 DEF Begins, tables
  <2>2. CASE o = a
    <3>1. Placed(o) /\ got[o] = 0
      BY <1>0, <1>5, <2>2 DEF Begins, PlanInv
    <3> QED BY <2>1, <3>1 DEF CancelHas, Placed
  <2>3. CASE o # a
    BY <1>0, <1>1, <2>1, <2>3
  <2> QED BY <2>2, <2>3
<1>6. ASSUME NEW a \in Actors, ReadsRow(a) PROVE CancelHas(o)'
  <2>1. PICK rest : InOrder(rest) /\ Locks(a, rest)
    BY <1>6 DEF ReadsRow
  <2>2. UNCHANGED orders
    BY <1>6 DEF ReadsRow, tables
  <2>3. CASE o = a
    <3>1. plan[o] # <<>> /\ ~orders[o].restored
      BY <1>0, <1>6, <2>3 DEF ReadsRow, Waits
    <3>2. Placed(o)
      BY <1>0, <3>1 DEF CancelHas
    <3> QED BY <2>2, <3>1, <3>2 DEF CancelHas, Placed
  <2>4. CASE o # a
    BY <1>0, <1>1, <2>1, <2>2, <2>4 DEF Locks
  <2> QED BY <2>3, <2>4
<1>7. ASSUME NEW a \in Actors, Takes(a) PROVE CancelHas(o)'
  <2>1. UNCHANGED <<plan, orders>> /\ got' = [got EXCEPT ![a] = @ + 1] /\ got[a] > 0
    BY <1>7 DEF Takes, tables
  <2>2. got'[o] > 0 => got[o] > 0
    BY <1>0, <2>1
  <2> QED BY <1>1, <2>1, <2>2
<1>8. ASSUME NEW a \in Actors, Ends(a), o # a => orders'[o] = orders[o] PROVE CancelHas(o)'
  <2>1. CASE o = a
    BY <1>2, <1>8, <2>1, CartEnds
  <2>2. CASE o # a
    <3>1. plan'[o] = plan[o] /\ got'[o] = got[o]
      BY <1>0, <1>8, <2>2, CartEnds
    <3> QED BY <1>1, <1>8, <2>2, <3>1
  <2> QED BY <2>1, <2>2
<1>9. ASSUME NEW a \in Actors, RollsBack(a) PROVE CancelHas(o)'
  BY <1>8, <1>9 DEF RollsBack, tables
<1>10. ASSUME NEW p \in Cancellable, Restores(p) PROVE CancelHas(o)'
  <2>1. p \in Actors /\ Ends(p)
    BY <1>10, Kinds DEF Restores
  <2>2. o # p => orders'[o] = orders[o]
    BY <1>0, <1>10, RestoresLive
  <2> QED BY <1>8, <2>1, <2>2
<1>11. ASSUME NEW c \in Checkouts, Places(c) PROVE CancelHas(o)'
  <2>1. c \in Actors /\ Ends(c) /\ o # c
    BY <1>0, <1>11, Kinds DEF Places
  <2>2. CASE o \in New(c)
    <3>1. plan[o] = <<>>
      BY <1>0, <1>11, <2>2, PlacesNew DEF CancelHas
    <3>2. got[o] = 0
      BY <1>0, <3>1 DEF PlanInv
    <3>3. plan'[o] = plan[o] /\ got'[o] = got[o]
      BY <1>0, <2>1, CartEnds
    <3> QED BY <1>2, <3>1, <3>2, <3>3
  <2>3. CASE o \notin New(c)
    <3>1. orders'[o] = orders[o]
      BY <1>0, <1>11, <2>3, PlacesNew
    <3> QED BY <1>8, <2>1, <3>1
  <2> QED BY <2>2, <2>3
<1> QED BY <1>0, <1>3, <1>4, <1>5, <1>6, <1>7, <1>9, <1>10, <1>11, CheckoutMoves

\* A step leaves orders, stock and credit alone, places new orders, or restores one.
LEMMA OrderMoves ==
  ASSUME CheckoutInv, [CheckoutNext]_checkoutVars
  PROVE  \/ /\ UNCHANGED <<stock, credit, orders>>
            /\ UNCHANGED <<cart, put>> \/ \E b \in Buyers, t \in Targets : AddToCart(b, t)
         \/ \E c \in Checkouts : Places(c)
         \/ \E o \in Cancellable : Restores(o)
<1>1. CheckoutTypeOK
  BY DEF CheckoutInv
<1>2. ASSUME NEW a \in Actors, Begins(a) \/ ReadsRow(a) \/ Takes(a) \/ RollsBack(a)
      PROVE  UNCHANGED <<stock, credit, orders, cart, put>>
  BY <1>2 DEF Begins, ReadsRow, Takes, RollsBack, tables
<1>3. UNCHANGED checkoutVars => UNCHANGED <<stock, credit, orders, cart, put>>
  BY DEF checkoutVars, tables
<1>4. ASSUME NEW b \in Buyers, NEW t \in Targets, AddToCart(b, t)
      PROVE  UNCHANGED <<stock, credit, orders>>
  BY <1>4 DEF AddToCart
<1> QED BY <1>1, <1>2, <1>3, <1>4, CheckoutMoves

\* PlacedInv: orders are placed for a cart that somebody filled, finitely many.
LEMMA PlacedStep == CheckoutInv /\ [CheckoutNext]_checkoutVars => PlacedInv'
<1> SUFFICES ASSUME CheckoutInv, [CheckoutNext]_checkoutVars PROVE PlacedInv'
  OBVIOUS
<1> DEFINE All  == {o \in Orders : Placed(o)}
           All2 == {o \in Orders : Placed(o)'}
<1>1. IsFiniteSet(All)
  BY DEF CheckoutInv, PlacedInv
<1>2. ASSUME UNCHANGED orders PROVE All2 = All
  BY <1>2 DEF Placed
<1>3. ASSUME NEW o \in Cancellable, Restores(o) PROVE All2 = All
  <2>1. ASSUME NEW p \in Orders PROVE Placed(p)' <=> Placed(p)
    <3>1. CASE p = o
      BY <1>3, <3>1, RestoresLive
    <3>2. CASE p # o
      <4>1. orders'[p] = orders[p]
        BY <1>3, <3>2, RestoresLive
      <4> QED BY <4>1 DEF Placed
    <3> QED BY <3>1, <3>2
  <2> QED BY <2>1
<1>4. ASSUME NEW c \in Checkouts, Places(c) PROVE IsFiniteSet(All2)
  <2>1. IsFiniteSet(All \cup New(c))
    BY <1>1, <1>4, PlacesNew, FS_Union
  <2>2. All2 \subseteq All \cup New(c)
    <3>1. ASSUME NEW p \in Orders, p \notin New(c) PROVE Placed(p)' <=> Placed(p)
      <4>1. orders'[p] = orders[p]
        BY <1>4, <3>1, PlacesNew
      <4> QED BY <4>1 DEF Placed
    <3> QED BY <3>1
  <2> QED BY <2>1, <2>2, FS_Subset
<1>5. IsFiniteSet(All2)
  <2> HIDE DEF All, All2
  <2> QED BY <1>1, <1>2, <1>3, <1>4, OrderMoves
<1> QED BY <1>5 DEF PlacedInv, Orders

LEMMA CheckoutStep == CheckoutInv /\ [CheckoutNext]_checkoutVars => CheckoutInv'
BY CheckoutTypeStep, PlanStep, CartStep, CancelStep, PlacedStep DEF CheckoutInv

\* Type correctness: no stock is oversold and no store credit overdrawn, whichever
\* checkouts and cancellations overlap.
THEOREM CheckoutTypeCorrect == CheckoutSpec => []CheckoutTypeOK
<1>1. CheckoutInv => CheckoutTypeOK
  BY DEF CheckoutInv
<1> QED BY <1>1, CheckoutInitInv, CheckoutStep, PTL DEF CheckoutSpec

AllPlaced == {o \in Orders : Placed(o)}

\* The orders that exist are finitely many, of known lines and credit.
LEMMA PlacedTypes ==
  ASSUME CheckoutInv
  PROVE  /\ IsFiniteSet(AllPlaced)
         /\ \A t \in Targets, o \in Orders : UnitsOf(t)[o] \in Nat /\ UnitsOf(t)[o] = orders[o].lines[t]
         /\ \A o \in Orders : CreditOf[o] \in Nat /\ CreditOf[o] = orders[o].credit
<1>1. \A o \in Orders : orders[o] \in [lines : [Targets -> Nat], credit : Nat, restored : BOOLEAN]
  BY DEF CheckoutInv, CheckoutTypeOK
<1>2. IsFiniteSet(AllPlaced)
  BY DEF CheckoutInv, PlacedInv, AllPlaced
<1>3. \A t \in Targets, o \in Orders : UnitsOf(t)[o] \in Nat /\ UnitsOf(t)[o] = orders[o].lines[t]
  BY <1>1 DEF UnitsOf
<1>4. \A o \in Orders : CreditOf[o] \in Nat /\ CreditOf[o] = orders[o].credit
  BY <1>1 DEF CreditOf
<1> QED BY <1>2, <1>3, <1>4

\* A target has one seller, so its line goes into one of the orders a checkout places.
LEMMA NewSum ==
  ASSUME CheckoutInv, NEW c \in Checkouts, Places(c), NEW t \in Targets, NEW g, NEW v \in Nat,
         lines[c][t] = 0 => v = 0,
         \A o \in New(c) : /\ o[2] = SellerOf[t] => g[o] = v
                           /\ o[2] # SellerOf[t] => g[o] = 0
  PROVE  SumFunctionOnSet(g, New(c)) = v /\ \A o \in New(c) : g[o] \in Nat
<1> DEFINE s == SellerOf[t]
           e == <<c, s>>
           N == New(c)
<1>1. CheckoutTypeOK /\ lines[c] \in [Targets -> Nat] /\ IsFiniteSet(N)
  BY PlacesNew DEF CheckoutInv, CheckoutTypeOK
<1>2. \A o \in N : o[2] = s => o = e
  BY DEF New, Orders
<1>3. lines[c][t] > 0 => e \in N
  <2>1. SUFFICES ASSUME lines[c][t] > 0 PROVE e \in N
    OBVIOUS
  <2>2. OfSeller(c, s)[t] > 0
    BY <1>1, <2>1, OfSellerType
  <2>3. OfSeller(c, s) # None
    BY <2>2 DEF None
  <2>4. e \in Orders
    BY DEF Orders
  <2> QED BY <2>3, <2>4 DEF New
<1>4. e \notin N => v = 0
  BY <1>1, <1>3
<1>5. e[2] = s
  OBVIOUS
<1> HIDE DEF s, e, N, CheckoutAssumption
<1>6. \A o \in N : g[o] \in Nat /\ (o[2] = s => g[o] = v) /\ (o[2] # s => g[o] = 0)
  BY DEF s, N
<1>7. SumFunctionOnSet(g, N) = v
  <2>1. CASE e \in N
    <3>1. g[e] = v /\ \A o \in N : o # e => g[o] = 0
      BY <1>2, <1>5, <1>6, <2>1
    <3>2. g[e] \in Int
      BY <3>1
    <3> QED BY <1>1, <2>1, <3>1, <3>2, SumOne
  <2>2. CASE e \notin N
    <3>1. v = 0 /\ \A o \in N : g[o] = 0
      BY <1>2, <1>4, <1>6, <2>2
    <3> QED BY <1>1, <3>1, SumZero
  <2> QED BY <2>1, <2>2
<1> QED BY <1>6, <1>7 DEF N

\* The orders a checkout places carry each of its lines once.
LEMMA NewUnits ==
  ASSUME CheckoutInv, NEW c \in Checkouts, Places(c), NEW t \in Targets
  PROVE  /\ SumFunctionOnSet(UnitsOf(t)', New(c)) = lines[c][t]
         /\ lines[c][t] \in Nat /\ \A o \in New(c) : UnitsOf(t)'[o] \in Nat
<1>1. CheckoutTypeOK /\ lines[c] \in [Targets -> Nat] /\ New(c) \subseteq Orders
  BY PlacesNew DEF CheckoutInv, CheckoutTypeOK
<1> DEFINE g == UnitsOf(t)'
<1>2. \A o \in New(c) : g[o] = OfSeller(c, o[2])[t]
  <2> TAKE o \in New(c)
  <2>1. orders'[o] = [lines |-> OfSeller(c, o[2]), credit |-> Share(c, o[2]), restored |-> FALSE]
    BY PlacesNew
  <2>2. orders'[o].lines[t] = OfSeller(c, o[2])[t]
    BY <2>1
  <2> QED BY <1>1, <2>2 DEF UnitsOf
<1>3. \A o \in New(c) : /\ o[2] = SellerOf[t] => g[o] = lines[c][t]
                        /\ o[2] # SellerOf[t] => g[o] = 0
  BY <1>1, <1>2, OfSellerType
<1>4. lines[c][t] \in Nat
  BY <1>1
<1> DEFINE v == lines[c][t]
<1> HIDE DEF g, CheckoutAssumption
<1>5. SumFunctionOnSet(g, New(c)) = v /\ \A o \in New(c) : g[o] \in Nat
  <2>1. v \in Nat /\ (lines[c][t] = 0 => v = 0)
    BY <1>4
  <2>2. \A o \in New(c) : /\ o[2] = SellerOf[t] => g[o] = v
                          /\ o[2] # SellerOf[t] => g[o] = 0
    BY <1>3
  <2> HIDE DEF v
  <2> QED BY <2>1, <2>2, NewSum
<1> QED BY <1>4, <1>5 DEF g

\* What is placed grows by the orders of a checkout; of the others nothing changes.
LEMMA PlacesGrows ==
  ASSUME CheckoutInv, NEW c \in Checkouts, Places(c)
  PROVE  /\ Live' = Live \cup New(c) /\ Live \cap New(c) = {}
         /\ \A b \in Buyers : /\ Bought(b) \cap New(c) = {}
                              /\ b = BuyerOf[c] => Bought(b)' = Bought(b) \cup New(c)
                              /\ b # BuyerOf[c] => Bought(b)' = Bought(b)
<1>1. \A o \in Orders : o \notin New(c) => orders'[o] = orders[o] /\ (Placed(o)' <=> Placed(o))
  BY PlacesNew DEF Placed
<1>2. \A o \in New(c) : o \in Orders /\ ~Placed(o) /\ Placed(o)' /\ ~orders'[o].restored /\ o[1] = c
  <2> TAKE o \in New(c)
  <2>1. orders'[o] = [lines |-> OfSeller(c, o[2]), credit |-> Share(c, o[2]), restored |-> FALSE]
    BY PlacesNew
  <2>2. ~orders'[o].restored
    BY <2>1
  <2> QED BY <2>2, PlacesNew DEF New
<1>3. Live' = Live \cup New(c) /\ Live \cap New(c) = {}
  BY <1>1, <1>2 DEF Live
<1>4. ASSUME NEW b \in Buyers
      PROVE  /\ Bought(b) \cap New(c) = {}
             /\ b = BuyerOf[c] => Bought(b)' = Bought(b) \cup New(c)
             /\ b # BuyerOf[c] => Bought(b)' = Bought(b)
  <2>1. Bought(b) \cap New(c) = {}
    BY <1>2 DEF Bought
  <2>2. ASSUME b = BuyerOf[c] PROVE Bought(b)' = Bought(b) \cup New(c)
    BY <1>1, <1>2, <2>2 DEF Bought
  <2>3. ASSUME b # BuyerOf[c] PROVE Bought(b)' = Bought(b)
    BY <1>1, <1>2, <2>3 DEF Bought
  <2> QED BY <2>1, <2>2, <2>3
<1> QED BY <1>3, <1>4

\* What the sum over orders gains when a checkout places its own.
LEMMA PlacesAdds ==
  ASSUME CheckoutInv, NEW c \in Checkouts, Places(c), NEW t \in Targets,
         NEW S \in SUBSET AllPlaced, S \cap New(c) = {}
  PROVE  /\ SumFunctionOnSet(UnitsOf(t)', S) = SumFunctionOnSet(UnitsOf(t), S)
         /\ SumFunctionOnSet(UnitsOf(t)', S \cup New(c)) =
              SumFunctionOnSet(UnitsOf(t), S) + lines[c][t]
         /\ SumFunctionOnSet(UnitsOf(t), S) \in Nat
<1> DEFINE g == UnitsOf(t)
           h == UnitsOf(t)'
           N == New(c)
<1>1. IsFiniteSet(S) /\ S \subseteq Orders /\ IsFiniteSet(N)
  BY PlacedTypes, PlacesNew, FS_Subset DEF AllPlaced
<1>2. \A o \in S : g[o] \in Nat /\ h[o] = g[o]
  <2> TAKE o \in S
  <2>1. o \in Orders /\ o \notin New(c)
    BY <1>1
  <2>2. orders'[o] = orders[o]
    BY <2>1, PlacesNew
  <2>3. g[o] \in Nat
    BY <2>1, PlacedTypes
  <2>4. h[o] = g[o]
    BY <2>1, <2>2 DEF UnitsOf
  <2> QED BY <2>3, <2>4
<1>3. /\ SumFunctionOnSet(h, N) = lines[c][t] /\ lines[c][t] \in Nat
      /\ \A o \in N : h[o] \in Nat
  BY NewUnits
<1>4. S \cap N = {}
  OBVIOUS
<1> HIDE DEF g, h, N
<1>5. SumFunctionOnSet(g, S) = SumFunctionOnSet(h, S)
  BY <1>1, <1>2, SumAgree
<1>6. SumFunctionOnSet(g, S) \in Nat
  BY <1>1, <1>2, SumNat
<1>7. \A o \in S \cup N : h[o] \in Int
  <2> TAKE o \in S \cup N
  <2>1. h[o] \in Nat
    BY <1>2, <1>3
  <2> QED BY <2>1
<1>8. SumFunctionOnSet(h, S \cup N) = SumFunctionOnSet(h, S) + SumFunctionOnSet(h, N)
  BY <1>1, <1>4, <1>7, SumUnion
<1> QED BY <1>3, <1>5, <1>6, <1>8 DEF g, h, N

\* A cancellation takes its order out of the live ones and leaves the rest as it is.
LEMMA RestoresShrinks ==
  ASSUME CheckoutInv, NEW o \in Cancellable, Restores(o)
  PROVE  /\ Live' = Live \ {o} /\ o \in Live
         /\ \A b : Bought(b)' = Bought(b)
         /\ \A t : UnitsOf(t)' = UnitsOf(t)
         /\ CreditOf' = CreditOf
<1>1. /\ o \in Orders /\ Placed(o) /\ ~orders[o].restored /\ Placed(o)' /\ orders'[o].restored
      /\ orders'[o].lines = orders[o].lines /\ orders'[o].credit = orders[o].credit
  BY RestoresLive
<1>2. \A p \in Orders : p # o => orders'[p] = orders[p] /\ (Placed(p)' <=> Placed(p))
  BY RestoresLive DEF Placed
<1>3. Live' = Live \ {o} /\ o \in Live
  BY <1>1, <1>2 DEF Live
<1>4. \A b : Bought(b)' = Bought(b)
  BY <1>1, <1>2 DEF Bought
<1>5. \A p \in Orders : orders'[p].lines = orders[p].lines /\ orders'[p].credit = orders[p].credit
  BY <1>1, <1>2
<1>6. \A t : UnitsOf(t)' = UnitsOf(t)
  BY <1>5 DEF UnitsOf
<1>7. CreditOf' = CreditOf
  BY <1>5 DEF CreditOf
<1> QED BY <1>3, <1>4, <1>6, <1>7

\* The sums mention the stored orders only.
LEMMA OrdersKept ==
  ASSUME UNCHANGED orders
  PROVE  /\ Live' = Live /\ CreditOf' = CreditOf
         /\ \A b : Bought(b)' = Bought(b)
         /\ \A t : UnitsOf(t)' = UnitsOf(t)
BY DEF Live, CreditOf, Bought, UnitsOf, Placed

-----------------------------------------------------------------------------
(* Units of stock *)

LEMMA StockSumInit == CheckoutInit => StockAddsUp
<1> SUFFICES ASSUME CheckoutInit, NEW t \in Targets
             PROVE  stock[t] >= 0 /\ stock[t] + SumFunctionOnSet(UnitsOf(t), Live) = Stock[t]
  BY DEF StockAddsUp
<1>1. Live = {}
  BY DEF CheckoutInit, Live, Placed
<1>2. stock[t] = Stock[t] /\ Stock[t] \in Nat
  BY StockAssumption DEF CheckoutInit
<1> QED BY <1>1, <1>2, SumEmpty

LEMMA StockSumStep == CheckoutInv /\ StockAddsUp /\ [CheckoutNext]_checkoutVars => StockAddsUp'
<1> SUFFICES ASSUME CheckoutInv, StockAddsUp, [CheckoutNext]_checkoutVars, NEW t \in Targets
             PROVE  /\ stock'[t] >= 0
                    /\ stock'[t] + SumFunctionOnSet(UnitsOf(t)', Live') = Stock[t]
  BY DEF StockAddsUp
<1> DEFINE Total == stock'[t] + SumFunctionOnSet(UnitsOf(t)', Live') = Stock[t]
<1>0. stock'[t] >= 0
  BY CheckoutTypeStep DEF CheckoutTypeOK
<1>1. /\ stock[t] \in Nat /\ stock[t] + SumFunctionOnSet(UnitsOf(t), Live) = Stock[t]
      /\ Live \in SUBSET AllPlaced /\ Stock[t] \in Nat
  BY StockAssumption DEF CheckoutInv, CheckoutTypeOK, StockAddsUp, Live, AllPlaced
<1>2. ASSUME UNCHANGED <<stock, orders>> PROVE Total
  BY <1>1, <1>2, OrdersKept
<1>3. ASSUME NEW c \in Checkouts, Places(c) PROVE Total
  <2>1. SumFunctionOnSet(UnitsOf(t)', Live') = SumFunctionOnSet(UnitsOf(t), Live) + lines[c][t]
    <3>1. Live' = Live \cup New(c) /\ Live \cap New(c) = {}
      BY <1>3, PlacesGrows
    <3>2. SumFunctionOnSet(UnitsOf(t)', Live \cup New(c)) =
            SumFunctionOnSet(UnitsOf(t), Live) + lines[c][t]
      BY <1>1, <1>3, <3>1, PlacesAdds
    <3> QED BY <3>1, <3>2
  <2>2. SumFunctionOnSet(UnitsOf(t), Live) \in Nat
    <3>1. Live \cap New(c) = {}
      BY <1>3, PlacesGrows
    <3> QED BY <1>1, <1>3, <3>1, PlacesAdds
  <2>3. stock'[t] = stock[t] - lines[c][t] /\ lines[c][t] \in Nat
    BY <1>3, NewUnits DEF Places
  <2> QED BY <1>1, <2>1, <2>2, <2>3
<1>4. ASSUME NEW o \in Cancellable, Restores(o) PROVE Total
  <2>1. Live' = Live \ {o} /\ o \in Live /\ UnitsOf(t)' = UnitsOf(t)
    BY <1>4, RestoresShrinks
  <2>2. IsFiniteSet(Live) /\ \A p \in Live : UnitsOf(t)[p] \in Nat
    BY <1>1, PlacedTypes, FS_Subset DEF AllPlaced
  <2>3. SumFunctionOnSet(UnitsOf(t), Live) =
          UnitsOf(t)[o] + SumFunctionOnSet(UnitsOf(t), Live \ {o})
    <3> DEFINE g == UnitsOf(t)
               L == Live
    <3>1. IsFiniteSet(L) /\ o \in L /\ \A p \in L : g[p] \in Int
      BY <2>1, <2>2
    <3> HIDE DEF g, L, Total, CheckoutAssumption
    <3>2. SumFunctionOnSet(g, L) = g[o] + SumFunctionOnSet(g, L \ {o})
      BY <3>1, SumRemove
    <3> QED BY <3>2 DEF g, L
  <2>4. IsFiniteSet(Live \ {o}) /\ SumFunctionOnSet(UnitsOf(t), Live \ {o}) \in Nat
    <3>1. IsFiniteSet(Live \ {o}) /\ \A p \in Live \ {o} : UnitsOf(t)[p] \in Nat
      BY <2>2, FS_Subset
    <3> QED BY <3>1, SumNat
  <2>5. stock'[t] = stock[t] + orders[o].lines[t] /\ UnitsOf(t)[o] = orders[o].lines[t]
    BY <1>1, <1>4, <2>1, PlacedTypes DEF Restores, AllPlaced
  <2>6. UnitsOf(t)[o] \in Nat
    BY <2>1, <2>2
  <2> DEFINE u     == UnitsOf(t)[o]
             total == SumFunctionOnSet(UnitsOf(t), Live)
             other == SumFunctionOnSet(UnitsOf(t), Live \ {o})
  <2>7. SumFunctionOnSet(UnitsOf(t)', Live') = other
    BY <2>1
  <2>8. stock[t] + total = Stock[t] /\ total = u + other /\ stock'[t] = stock[t] + u
    BY <1>1, <2>3, <2>5
  <2>9. u \in Nat /\ other \in Nat
    BY <2>4, <2>6
  <2> HIDE DEF u, total, other, CheckoutAssumption
  <2> QED BY <1>1, <2>7, <2>8, <2>9
<1>5. Total
  <2> HIDE DEF Total
  <2> QED BY <1>2, <1>3, <1>4, OrderMoves
<1> QED BY <1>0, <1>5

\* However checkouts and cancellations race, what is left and what stands in live
\* orders is what there was, for every target.
THEOREM StockIsConserved == CheckoutSpec => []StockAddsUp
BY CheckoutInitInv, CheckoutStep, StockSumInit, StockSumStep, PTL DEF CheckoutSpec

-----------------------------------------------------------------------------
(* Checkouts refine StockLedger *)

LEMMA OrderingSums ==
  ASSUME NEW g, NEW S PROVE Ordering!SumFunctionOnSet(g, S) = SumFunctionOnSet(g, S)
BY DEF SumFunctionOnSet, FoldFunctionOnSet, MapThenFoldSet, Ordering!SumFunctionOnSet,
       Ordering!FoldFunctionOnSet, Ordering!MapThenFoldSet

LEMMA OrderingFinite ==
  ASSUME NEW S PROVE Ordering!IsFiniteSet(S) <=> IsFiniteSet(S)
BY DEF IsFiniteSet, Ordering!IsFiniteSet

LEMMA OrderingInit == CheckoutInit => Ordering!Init
<1> SUFFICES ASSUME CheckoutInit PROVE Ordering!Init
  OBVIOUS
<1>1. \A o \in Orders : orders[o] = NoOrder
  BY DEF CheckoutInit
<1>2. NoOrder.lines = Ordering!Empty /\ ~NoOrder.restored
  BY DEF NoOrder, None, Ordering!Empty
<1>3. {o \in Orders : Placed(o)} = {} /\ {o \in Orders : orders[o].restored} = {}
  BY <1>1, <1>2 DEF Placed
<1>4. [o \in Orders |-> orders[o].lines] = [o \in Orders |-> Ordering!Empty]
  BY <1>1, <1>2
<1> QED BY <1>3, <1>4 DEF Ordering!Init, CheckoutInit

\* The commit of a checkout packs its orders, that of a cancellation returns one.
LEMMA OrderingStep ==
  CheckoutInv /\ [CheckoutNext]_checkoutVars =>
    [Ordering!Next]_<<stock, [o \in Orders |-> orders[o].lines],
                      {o \in Orders : Placed(o)}, {o \in Orders : orders[o].restored}>>
<1> SUFFICES ASSUME CheckoutInv, [CheckoutNext]_checkoutVars
             PROVE  [Ordering!Next]_<<stock, [o \in Orders |-> orders[o].lines],
                      {o \in Orders : Placed(o)}, {o \in Orders : orders[o].restored}>>
  OBVIOUS
<1> DEFINE inside == [o \in Orders |-> orders[o].lines]
           packed == {o \in Orders : Placed(o)}
           back   == {o \in Orders : orders[o].restored}
<1>1. /\ stock' \in [Targets -> Nat] /\ stock \in [Targets -> Nat]
      /\ orders \in [Orders -> [lines : [Targets -> Nat], credit : Nat, restored : BOOLEAN]]
      /\ orders' \in [Orders -> [lines : [Targets -> Nat], credit : Nat, restored : BOOLEAN]]
  BY CheckoutTypeStep DEF CheckoutInv, CheckoutTypeOK
<1>2. ASSUME UNCHANGED <<stock, orders>> PROVE UNCHANGED <<stock, inside, packed, back>>
  BY <1>2 DEF Placed
<1>3. ASSUME NEW c \in Checkouts, Places(c) PROVE Ordering!Next
  <2>0. PICK S : S = New(c)
    OBVIOUS
  <2>1. /\ \A o \in S : /\ ~Placed(o) /\ Placed(o)' /\ o \in Orders
                        /\ orders'[o] = [lines |-> OfSeller(c, o[2]),
                                         credit |-> Share(c, o[2]), restored |-> FALSE]
        /\ \A o \in Orders : o \notin S => orders'[o] = orders[o] /\ (Placed(o)' <=> Placed(o))
    BY <1>3, <2>0, PlacesNew DEF Placed
  <2>2. S \in SUBSET (Orders \ packed) /\ IsFiniteSet(S)
    BY <1>3, <2>0, <2>1, PlacesNew
  <2>3. packed' = packed \cup S
    BY <2>1
  <2>4. inside' \in [Orders -> [Targets -> Nat]]
    BY <1>1
  <2>5. \A o \in S : inside'[o] # Ordering!Empty
    <3> TAKE o \in S
    <3>1. inside'[o] = OfSeller(c, o[2])
      <4>1. o \in Orders /\ orders'[o] = [lines |-> OfSeller(c, o[2]),
                                          credit |-> Share(c, o[2]), restored |-> FALSE]
        BY <2>1
      <4>2. orders'[o].lines = OfSeller(c, o[2])
        BY <4>1
      <4> QED BY <4>1, <4>2
    <3>2. OfSeller(c, o[2]) # None /\ Ordering!Empty = None
      BY <2>0 DEF New, None, Ordering!Empty
    <3> QED BY <3>1, <3>2
  <2>6. \A o \in Orders \ S : inside'[o] = inside[o]
    BY <2>1
  <2>7. back' = back
    <3>1. ASSUME NEW o \in S PROVE ~orders'[o].restored /\ ~orders[o].restored
      <4>1. orders[o] = NoOrder /\ orders'[o] = [lines |-> OfSeller(c, o[2]),
                                                 credit |-> Share(c, o[2]), restored |-> FALSE]
        BY <2>1 DEF Placed
      <4>2. ~orders'[o].restored
        BY <4>1
      <4>3. ~orders[o].restored
        BY <4>1 DEF NoOrder
      <4> QED BY <4>2, <4>3
    <3> QED BY <2>1, <3>1
  <2>8. stock' = [t \in Targets |->
                    stock[t] - SumFunctionOnSet([o \in Orders |-> inside'[o][t]], S)]
    <3>1. ASSUME NEW t \in Targets
          PROVE  stock'[t] = stock[t] - SumFunctionOnSet([o \in Orders |-> inside'[o][t]], S)
      <4>1. [o \in Orders |-> inside'[o][t]] = UnitsOf(t)'
        BY DEF UnitsOf
      <4>2. SumFunctionOnSet(UnitsOf(t)', S) = lines[c][t]
        BY <1>3, <2>0, NewUnits
      <4>3. stock'[t] = stock[t] - lines[c][t]
        BY <1>3 DEF Places
      <4> QED BY <4>1, <4>2, <4>3
    <3>2. stock' = [t \in Targets |-> stock'[t]]
      BY <1>1
    <3> HIDE DEF inside
    <3> QED BY <3>1, <3>2
  <2>9. \A t \in Targets : stock'[t] >= 0
    BY <1>1
  <2>10. Ordering!Pack(S)
    BY <2>3, <2>4, <2>5, <2>6, <2>7, <2>8, <2>9, OrderingSums DEF Ordering!Pack
  <2>11. Ordering!IsFiniteSet(S)
    BY <2>2, OrderingFinite
  <2> HIDE DEF CheckoutAssumption
  <2>12. \E N \in SUBSET (Orders \ packed) : Ordering!IsFiniteSet(N) /\ Ordering!Pack(N)
    BY <2>2, <2>10, <2>11
  <2> QED BY <2>12 DEF Ordering!Next
<1>4. ASSUME NEW o \in Cancellable, Restores(o) PROVE Ordering!Next
  <2>1. /\ o \in Orders /\ Placed(o) /\ ~orders[o].restored /\ Placed(o)' /\ orders'[o].restored
        /\ orders'[o].lines = orders[o].lines
        /\ \A p \in Orders : p # o => orders'[p] = orders[p] /\ (Placed(p)' <=> Placed(p))
    BY <1>4, RestoresLive DEF Placed
  <2>2. o \in packed \ back /\ packed' = packed /\ back' = back \cup {o} /\ inside' = inside
    <3>1. o \in packed \ back
      BY <2>1
    <3>2. \A p \in Orders : Placed(p)' <=> Placed(p)
      BY <2>1
    <3>3. packed' = packed
      BY <3>2
    <3>4. back' = back \cup {o}
      BY <2>1
    <3>5. \A p \in Orders : orders'[p].lines = orders[p].lines
      BY <2>1
    <3>6. inside' = inside
      BY <3>5
    <3> QED BY <3>1, <3>3, <3>4, <3>6
  <2>3. stock' = [t \in Targets |-> stock[t] + inside[o][t]]
    BY <1>4, <2>1 DEF Restores
  <2> HIDE DEF CheckoutAssumption
  <2>4. Ordering!Return(o)
    BY <2>2, <2>3, Zenon DEF Ordering!Return
  <2> QED BY <2>2, <2>4 DEF Ordering!Next
<1>5. Ordering!Next \/ UNCHANGED <<stock, inside, packed, back>>
  <2> HIDE DEF inside, packed, back
  <2> QED BY <1>2, <1>3, <1>4, OrderMoves
<1> QED BY <1>5

\* Checkouts and cancellations implement the ledger of parcels: the orders of a checkout
\* take their units together and only if they are there, and each gives them back at most
\* once and all, whichever requests overlap and whichever die.
THEOREM OrderingRefines == CheckoutSpec => OrdersAsPromised
<1>1. OrdersAsPromised <=>
        /\ Ordering!Init
        /\ [][Ordering!Next]_<<stock, [o \in Orders |-> orders[o].lines],
             {o \in Orders : Placed(o)}, {o \in Orders : orders[o].restored}>>
  BY DEF OrdersAsPromised, Ordering!Spec
<1> QED BY <1>1, OrderingInit, OrderingStep, CheckoutInitInv, CheckoutStep, PTL DEF CheckoutSpec

-----------------------------------------------------------------------------
(* The cart *)

LEMMA OrderedInit == CheckoutInit => OrderedOnce
<1> SUFFICES ASSUME CheckoutInit, NEW b \in Buyers, NEW t \in Targets
             PROVE  cart[b][t] + SumFunctionOnSet(UnitsOf(t), Bought(b)) <= put[b][t]
  BY DEF OrderedOnce
<1>1. Bought(b) = {}
  BY DEF CheckoutInit, Bought, Placed
<1>2. cart[b][t] = 0 /\ put[b][t] = 0
  BY DEF CheckoutInit, None
<1> QED BY <1>1, <1>2, SumEmpty

LEMMA OrderedStep == CheckoutInv /\ OrderedOnce /\ [CheckoutNext]_checkoutVars => OrderedOnce'
<1> SUFFICES ASSUME CheckoutInv, OrderedOnce, [CheckoutNext]_checkoutVars,
                    NEW b \in Buyers, NEW t \in Targets
             PROVE  cart'[b][t] + SumFunctionOnSet(UnitsOf(t)', Bought(b)') <= put'[b][t]
  BY DEF OrderedOnce
<1> DEFINE Goal == cart'[b][t] + SumFunctionOnSet(UnitsOf(t)', Bought(b)') <= put'[b][t]
           sum  == SumFunctionOnSet(UnitsOf(t), Bought(b))
<1>1. /\ cart \in [Buyers -> [Targets -> Nat]] /\ put \in [Buyers -> [Targets -> Nat]]
      /\ cart[b][t] + sum <= put[b][t] /\ Bought(b) \in SUBSET AllPlaced
  BY DEF CheckoutInv, CheckoutTypeOK, OrderedOnce, Bought, AllPlaced
<1>2. sum \in Nat /\ cart[b][t] \in Nat /\ put[b][t] \in Nat
  <2>1. IsFiniteSet(Bought(b)) /\ \A p \in Bought(b) : UnitsOf(t)[p] \in Nat
    BY <1>1, PlacedTypes, FS_Subset DEF AllPlaced
  <2>2. sum \in Nat
    BY <2>1, SumNat
  <2> QED BY <1>1, <2>2
<1>3. ASSUME UNCHANGED orders, UNCHANGED <<cart, put>> \/ \E a \in Buyers, u \in Targets : AddToCart(a, u)
      PROVE  Goal
  <2>1. SumFunctionOnSet(UnitsOf(t)', Bought(b)') = sum
    BY <1>3, OrdersKept
  <2>2. CASE UNCHANGED <<cart, put>>
    BY <1>1, <2>1, <2>2
  <2>3. ASSUME NEW a \in Buyers, NEW u \in Targets, AddToCart(a, u) PROVE Goal
    <3>1. /\ cart' = [cart EXCEPT ![a][u] = @ + 1]
          /\ put'  = [put EXCEPT ![a][u] = @ + 1]
      BY <2>3 DEF AddToCart
    <3>2. \/ cart'[b][t] = cart[b][t] /\ put'[b][t] = put[b][t]
          \/ cart'[b][t] = cart[b][t] + 1 /\ put'[b][t] = put[b][t] + 1
      BY <1>1, <3>1
    <3> HIDE DEF sum, Goal, CheckoutAssumption
    <3>3. cart[b][t] + 1 + sum <= put[b][t] + 1
      <4>1. cart[b][t] + sum <= put[b][t]
        BY <1>1
      <4> QED BY <1>2, <4>1
    <3> USE DEF Goal
    <3>4. CASE cart'[b][t] = cart[b][t] /\ put'[b][t] = put[b][t]
      BY <1>1, <2>1, <3>4
    <3>5. CASE cart'[b][t] = cart[b][t] + 1 /\ put'[b][t] = put[b][t] + 1
      BY <1>2, <2>1, <3>3, <3>5
    <3> QED BY <3>2, <3>4, <3>5
  <2> QED BY <1>3, <2>2, <2>3
<1>4. ASSUME NEW c \in Checkouts, Places(c) PROVE Goal
  <2>1. cart' = [cart EXCEPT ![BuyerOf[c]] = None] /\ put' = put
    BY <1>4 DEF Places
  <2>2. CASE b = BuyerOf[c]
    <3>1. SumFunctionOnSet(UnitsOf(t)', Bought(b)') = sum + lines[c][t]
      <4>1. Bought(b)' = Bought(b) \cup New(c) /\ Bought(b) \cap New(c) = {}
        BY <1>4, <2>2, PlacesGrows
      <4>2. Bought(b) \in SUBSET AllPlaced
        BY <1>1
      <4>3. SumFunctionOnSet(UnitsOf(t)', Bought(b) \cup New(c)) = sum + lines[c][t]
        BY <1>4, <4>1, <4>2, PlacesAdds
      <4> HIDE DEF sum
      <4> QED BY <4>1, <4>3
    <3>2. cart'[b][t] = 0
      BY <1>1, <2>1, <2>2 DEF None
    <3>3. lines[c][t] <= cart[b][t] /\ lines[c][t] \in Nat
      BY <1>4, <2>2, NewUnits DEF CheckoutInv, CartInv
    <3> HIDE DEF sum, Goal, CheckoutAssumption
    <3>4. sum + lines[c][t] <= put[b][t]
      <4>1. cart[b][t] + sum <= put[b][t] /\ cart[b][t] \in Nat /\ put[b][t] \in Nat
        BY <1>1 DEF sum
      <4>2. sum \in Nat
        BY <1>2
      <4> QED BY <3>3, <4>1, <4>2
    <3>5. sum + lines[c][t] \in Int
      BY <1>2, <3>3
    <3> USE DEF Goal
    <3> QED BY <2>1, <3>1, <3>2, <3>4, <3>5
  <2>3. CASE b # BuyerOf[c]
    <3>1. SumFunctionOnSet(UnitsOf(t)', Bought(b)') = sum
      <4>1. Bought(b)' = Bought(b) /\ Bought(b) \cap New(c) = {}
        BY <1>4, <2>3, PlacesGrows
      <4>2. Bought(b) \in SUBSET AllPlaced
        BY <1>1
      <4> HIDE DEF Goal, CheckoutAssumption
      <4>3. SumFunctionOnSet(UnitsOf(t)', Bought(b)) = SumFunctionOnSet(UnitsOf(t), Bought(b))
        BY <1>4, <4>1, <4>2, PlacesAdds
      <4> QED BY <4>1, <4>3
    <3>2. cart'[b] = cart[b]
      BY <1>1, <2>1, <2>3
    <3> HIDE DEF sum
    <3> QED BY <1>1, <2>1, <3>1, <3>2
  <2> QED BY <2>2, <2>3
<1>5. ASSUME NEW o \in Cancellable, Restores(o) PROVE Goal
  <2>1. Bought(b)' = Bought(b) /\ UnitsOf(t)' = UnitsOf(t)
    BY <1>5, RestoresShrinks
  <2>2. UNCHANGED <<cart, put>>
    BY <1>5 DEF Restores
  <2> QED BY <1>1, <2>1, <2>2
<1>6. Goal
  <2> HIDE DEF Goal, sum
  <2> QED BY <1>3, <1>4, <1>5, OrderMoves
<1> QED BY <1>6

\* A unit put in the cart once is ordered at most once, however many requests race for
\* the cart, die half way or find it filled meanwhile.
THEOREM CartIsOrderedOnce == CheckoutSpec => []OrderedOnce
BY CheckoutInitInv, CheckoutStep, OrderedInit, OrderedStep, PTL DEF CheckoutSpec

-----------------------------------------------------------------------------
(* Waiting for the stock rows *)

LEMMA StockQueuesInv == CheckoutInv => StockQueues
<1> SUFFICES ASSUME CheckoutInv, NEW circle \in SUBSET Actors, circle # {},
                    \A a \in circle : \E b \in circle : WaitsForStockOf(a, b),
                    \A a \in circle : Wanted(a)[1] # "key"
             PROVE  FALSE
  BY DEF StockQueues
<1>1. PlanInv /\ plan \in [Actors -> Seq(LockRows)] /\ got \in [Actors -> Nat]
  BY DEF CheckoutInv, CheckoutTypeOK
\* Who waits for a stock row wants a target.
<1> DEFINE Row(a) == Wanted(a)[2]
<1>2. ASSUME NEW a \in circle
      PROVE  /\ got[a] + 1 \in 1 .. Len(plan[a]) /\ plan[a][got[a] + 1] = Wanted(a)
             /\ Wanted(a)[1] = "stock" /\ Wanted(a) = <<"stock", Row(a)>> /\ Row(a) \in Targets
  <2>1. Waits(a) /\ Wanted(a)[1] = "stock"
    <3>1. PICK b \in circle : WaitsForStockOf(a, b)
      OBVIOUS
    <3> QED BY <3>1 DEF WaitsForStockOf
  <2>2. got[a] \in Nat /\ got[a] < Len(plan[a]) /\ plan[a] \in Seq(LockRows)
    BY <1>1, <2>1 DEF Waits
  <2>3. got[a] + 1 \in 1 .. Len(plan[a]) /\ plan[a][got[a] + 1] = Wanted(a)
    BY <2>2 DEF Wanted
  <2>4. Wanted(a) \in LockRows
    BY <2>2, <2>3
  <2>5. Wanted(a) \in {"stock"} \X Targets
    BY <2>1, <2>4 DEF LockRows
  <2> QED BY <2>1, <2>3, <2>5
<1> DEFINE rows == {t \in Targets : \E a \in circle : Row(a) = t}
<1>3. PICK m \in rows : \A t \in rows : Rank[t] <= Rank[m]
  <2>1. rows # {}
    BY <1>2
  <2>2. rows \in SUBSET Targets
    OBVIOUS
  <2> HIDE DEF rows
  <2> QED BY <2>1, <2>2, HighestRank
<1>4. PICK a \in circle : Row(a) = m
  OBVIOUS
<1>5. PICK b \in circle : WaitsForStockOf(a, b)
  OBVIOUS
<1>6. PICK i \in 1 .. got[b] : plan[b][i][1] \in {"stock", "key"} /\ plan[b][i][2] = Row(a)
  <2>1. PICK k \in LocksOf(b) : Conflict(k, Wanted(a))
    BY <1>5 DEF WaitsForStockOf
  <2>2. k[1] \in {"stock", "key"} /\ k[2] = Row(a)
    BY <1>2, <2>1 DEF Conflict
  <2> QED BY <2>1, <2>2 DEF LocksOf
<1>7. Rank[Row(a)] < Rank[Row(b)]
  <2>1. /\ got[b] \in Nat /\ got[b] + 1 \in 1 .. Len(plan[b]) /\ Len(plan[b]) \in Nat
        /\ DOMAIN plan[b] = 1 .. Len(plan[b])
    <3>1. plan[b] \in Seq(LockRows) /\ got[b] \in Nat
      BY <1>1
    <3>2. got[b] + 1 \in 1 .. Len(plan[b])
      BY <1>2
    <3> QED BY <3>1, <3>2
  <2>2. i \in DOMAIN plan[b] /\ got[b] + 1 \in DOMAIN plan[b] /\ i < got[b] + 1
    BY <2>1
  <2>3. StockAscends(plan[b])
    BY <1>1 DEF PlanInv
  <2>4. plan[b][i][1] \in {"stock", "key"} /\ plan[b][got[b] + 1][1] = "stock"
    BY <1>2, <1>6
  <2>5. Rank[plan[b][i][2]] < Rank[plan[b][got[b] + 1][2]]
    BY <2>2, <2>3, <2>4 DEF StockAscends
  <2> QED BY <1>2, <1>6, <2>5
<1>8. Row(b) \in rows /\ Row(b) \in Targets /\ m \in Targets
  BY <1>2
<1>9. Rank[Row(b)] <= Rank[m] /\ Rank[Row(b)] \in Nat /\ Rank[m] \in Nat
  BY <1>3, <1>8
<1> HIDE DEF Row
<1> QED BY <1>4, <1>7, <1>9

\* In a circle of transactions that wait for each other's stock, one shares the product
\* of a combo at its commit: of others, the one that waits for the last row would wait
\* for someone who wants a later row.
THEOREM StockLocksQueue == CheckoutSpec => []StockQueues
BY CheckoutInitInv, CheckoutStep, StockQueuesInv, PTL DEF CheckoutSpec

-----------------------------------------------------------------------------
(* Store credit *)

HIDE CheckoutAssumption

\* The costs of the orders are together the cost of the lines.
LEMMA CostSplits ==
  ASSUME CheckoutInv, NEW c \in Checkouts, Places(c), NEW k,
         \A o \in New(c) : k[o] = Cost(OfSeller(c, o[2]))
  PROVE  SumFunctionOnSet(k, New(c)) = Cost(lines[c])
<1> DEFINE N == New(c)
           f == [o \in N |-> [t \in Targets |-> OfSeller(c, o[2])[t] * Price[t]]]
           v == [t \in Targets |-> lines[c][t] * Price[t]]
           q == [t \in Targets |-> [o \in N |-> f[o][t]]]
<1>1. CheckoutTypeOK /\ lines[c] \in [Targets -> Nat] /\ IsFiniteSet(N) /\ IsFiniteSet(Targets)
  BY PlacesNew, CheckoutAssumption DEF CheckoutInv, CheckoutTypeOK
<1>2. Cost(lines[c]) = SumFunctionOnSet(v, Targets)
  BY DEF Cost, SumFunction
<1>3. \A o \in N : k[o] = SumFunctionOnSet(f[o], Targets)
  BY DEF Cost, SumFunction
<1>4. ASSUME NEW t \in Targets
      PROVE  /\ v[t] = SumFunctionOnSet(q[t], N)
             /\ \A o \in N : f[o][t] \in Int
  <2> DEFINE g == [o \in N |-> f[o][t]]
  <2>1. lines[c][t] \in Nat /\ Price[t] \in Nat
    BY <1>1, CheckoutAssumption
  <2>2. v[t] \in Nat /\ (lines[c][t] = 0 => v[t] = 0)
    BY <2>1
  <2>3. \A o \in N : /\ o[2] = SellerOf[t] => g[o] = v[t]
                     /\ o[2] # SellerOf[t] => g[o] = 0
    <3> TAKE o \in N
    <3>1. g[o] = OfSeller(c, o[2])[t] * Price[t]
      OBVIOUS
    <3>2. CASE o[2] = SellerOf[t]
      <4>1. OfSeller(c, o[2])[t] = lines[c][t]
        BY <1>1, <3>2, OfSellerType
      <4> QED BY <3>1, <3>2, <4>1
    <3>3. CASE o[2] # SellerOf[t]
      <4>1. OfSeller(c, o[2])[t] = 0
        BY <1>1, <3>3, OfSellerType
      <4> QED BY <2>1, <3>1, <3>3, <4>1
    <3> QED BY <3>2, <3>3
  <2>4. \A o \in N : f[o][t] = g[o]
    OBVIOUS
  <2> DEFINE w == v[t]
  <2> HIDE DEF v, f, g, w
  <2>5. w \in Nat /\ (lines[c][t] = 0 => w = 0)
    BY <2>2 DEF w
  <2>6. \A o \in New(c) : /\ o[2] = SellerOf[t] => g[o] = w
                          /\ o[2] # SellerOf[t] => g[o] = 0
    BY <2>3 DEF w
  <2>7. SumFunctionOnSet(g, New(c)) = w /\ \A o \in New(c) : g[o] \in Nat
    BY <2>5, <2>6, NewSum
  <2>8. g = q[t] /\ w = v[t]
    BY DEF g, w, q, f
  <2> QED BY <2>4, <2>7, <2>8 DEF N
<1> HIDE DEF f, v, q, N
<1>5. SumFunctionOnSet(k, N) = SumFunctionOnSet(v, Targets)
  <2>1. \A o \in N, t \in Targets : f[o][t] \in Int /\ q[t][o] = f[o][t]
    BY <1>4 DEF q
  <2>2. \A t \in Targets : v[t] = SumFunctionOnSet(q[t], N)
    BY <1>4
  <2>3. Table(f, q, k, v, N, Targets)
    BY <1>3, <2>1, <2>2 DEF Table
  <2> QED BY <1>1, <2>3, SumSwap
<1> QED BY <1>2, <1>5 DEF N

\* Together the shares are within half a unit for each order of what was applied.
LEMMA SharesAddUp ==
  ASSUME CheckoutInv, NEW c \in Checkouts, Places(c)
  PROVE  LET sum == SumFunctionOnSet(CreditOf', New(c))
             n   == Cardinality(New(c))
         IN  /\ sum \in Nat /\ n \in Nat /\ \A o \in New(c) : CreditOf'[o] \in Nat
             /\ 2 * (sum - Applied(c)) \in -n .. n
<1> DEFINE N == New(c)
           n == Cardinality(N)
           d == Cost(lines[c])
           a == Applied(c)
           h == CreditOf'
           k == [o \in N |-> Cost(OfSeller(c, o[2]))]
           sum == SumFunctionOnSet(h, N)
<1>1. CheckoutTypeOK /\ lines[c] # None /\ lines[c] \in [Targets -> Nat] /\ IsFiniteSet(N)
  BY PlacesNew DEF CheckoutInv, CheckoutTypeOK
<1>2. d \in Nat \ {0} /\ a \in Nat
  <2>1. d \in Nat /\ d > 0
    BY <1>1, CostOf
  <2>2. a \in Nat
    BY <1>1, AppliedBounds
  <2> QED BY <2>1, <2>2
<1>3. \A o \in N : /\ h[o] \in Nat /\ k[o] \in Nat
                   /\ 2 * d * h[o] - 2 * (a * k[o]) \in -d .. d
  <2> TAKE o \in N
  <2>1. h[o] = Share(c, o[2])
    <3>1. orders'[o] = [lines |-> OfSeller(c, o[2]), credit |-> Share(c, o[2]), restored |-> FALSE]
      BY PlacesNew
    <3>2. orders'[o].credit = Share(c, o[2]) /\ o \in Orders
      BY <3>1 DEF New
    <3> QED BY <3>2 DEF CreditOf
  <2>2. k[o] = Cost(OfSeller(c, o[2])) /\ k[o] \in Nat
    BY <1>1, OfSellerType, CostOf
  <2>3. /\ Share(c, o[2]) \in Nat
        /\ 2 * d * Share(c, o[2]) - 2 * (a * Cost(OfSeller(c, o[2]))) \in -d .. d
    BY <1>1, ShareRounds
  <2> HIDE DEF d, a, h, k
  <2> QED BY <2>1, <2>2, <2>3
<1>4. SumFunctionOnSet(k, N) = d
  <2>1. \A o \in New(c) : k[o] = Cost(OfSeller(c, o[2]))
    OBVIOUS
  <2> HIDE DEF k
  <2> QED BY <2>1, CostSplits
<1> HIDE DEF N, d, a, h, k
<1>5. n \in Nat /\ sum \in Nat
  BY <1>1, <1>3, FS_CardinalityType, SumNat
<1>6. 2 * d * sum - 2 * (a * d) \in -(d * n) .. d * n
  BY <1>1, <1>2, <1>3, <1>4, RoundingsAdd
<1> HIDE DEF n, sum
<1>7. 2 * d * sum - 2 * (a * d) = d * (2 * (sum - a))
  BY <1>2, <1>5
<1>8. 2 * (sum - a) \in -n .. n
  <2>1. 2 * (sum - a) \in Int
    BY <1>2, <1>5
  <2>2. d * (2 * (sum - a)) \in -(d * n) .. d * n
    BY <1>6, <1>7
  <2> QED BY <1>2, <1>5, <2>1, <2>2, FactorOff
<1> QED BY <1>3, <1>5, <1>8 DEF N, n, a, h, sum

\* How far a buyer's balance and live orders are from the credit there was.
CreditDrift(b) == credit[b] + SumFunctionOnSet(CreditOf, Bought(b) \cap Live) - Credit[b]

CreditFor(b) ==
  credit[b] >= 0 /\ 2 * CreditDrift(b) \in -Cardinality(Bought(b)) .. Cardinality(Bought(b))

LEMMA CreditForAll == CreditAddsUp <=> \A b \in Buyers : CreditFor(b)
BY DEF CreditAddsUp, CreditFor, CreditDrift

LEMMA CreditInit == CheckoutInit => CreditAddsUp
<1> SUFFICES ASSUME CheckoutInit, NEW b \in Buyers PROVE CreditFor(b)
  BY CreditForAll
<1>1. Bought(b) = {} /\ Bought(b) \cap Live = {}
  BY DEF CheckoutInit, Bought, Placed
<1>2. credit[b] = Credit[b] /\ credit[b] \in Nat
  BY CheckoutAssumption DEF CheckoutInit
<1>3. CreditDrift(b) = 0
  BY <1>1, <1>2, SumEmpty DEF CreditDrift
<1>4. Cardinality(Bought(b)) = 0
  BY <1>1, FS_EmptySet
<1> QED BY <1>2, <1>3, <1>4 DEF CreditFor

\* A buyer's orders are finitely many.
LEMMA BoughtTypes ==
  ASSUME CheckoutInv, NEW b \in Buyers
  PROVE  /\ IsFiniteSet(Bought(b)) /\ Cardinality(Bought(b)) \in Nat
         /\ IsFiniteSet(Bought(b) \cap Live) /\ Bought(b) \cap Live \subseteq Orders
         /\ \A o \in Bought(b) \cap Live : CreditOf[o] \in Nat
         /\ SumFunctionOnSet(CreditOf, Bought(b) \cap Live) \in Nat
         /\ credit[b] \in Nat /\ Credit[b] \in Nat
<1> DEFINE B == Bought(b)
           S == Bought(b) \cap Live
<1>1. B \in SUBSET AllPlaced /\ S \in SUBSET AllPlaced /\ S \subseteq Orders
  BY DEF Bought, AllPlaced
<1>2. IsFiniteSet(AllPlaced) /\ \A o \in S : CreditOf[o] \in Nat
  BY <1>1, PlacedTypes
<1> HIDE DEF B, S
<1>3. IsFiniteSet(B) /\ IsFiniteSet(S)
  BY <1>1, <1>2, FS_Subset
<1>4. Cardinality(B) \in Nat /\ SumFunctionOnSet(CreditOf, S) \in Nat
  BY <1>2, <1>3, FS_CardinalityType, SumNat
<1>5. credit[b] \in Nat /\ Credit[b] \in Nat
  BY CheckoutAssumption DEF CheckoutInv, CheckoutTypeOK
<1> QED BY <1>1, <1>2, <1>3, <1>4, <1>5 DEF B, S

LEMMA CreditStep == CheckoutInv /\ CreditAddsUp /\ [CheckoutNext]_checkoutVars => CreditAddsUp'
<1> SUFFICES ASSUME CheckoutInv, CreditAddsUp, [CheckoutNext]_checkoutVars, NEW b \in Buyers
             PROVE  CreditFor(b)'
  BY DEF CreditAddsUp, CreditFor, CreditDrift
<1> DEFINE B == Bought(b)
           S == Bought(b) \cap Live
           m == Cardinality(Bought(b))
           sum == SumFunctionOnSet(CreditOf, Bought(b) \cap Live)
<1>1. CreditFor(b) /\ credit'[b] >= 0
  BY CreditForAll, CheckoutTypeStep DEF CheckoutTypeOK
<1>2. /\ IsFiniteSet(B) /\ m \in Nat /\ IsFiniteSet(S) /\ S \subseteq Orders
      /\ \A o \in S : CreditOf[o] \in Nat
      /\ sum \in Nat /\ credit[b] \in Nat /\ Credit[b] \in Nat
  BY BoughtTypes
<1>3. 2 * (credit[b] + sum - Credit[b]) \in -m .. m
  BY <1>1 DEF CreditFor, CreditDrift
<1>4. ASSUME credit'[b] = credit[b],
             Bought(b)' = Bought(b),
             SumFunctionOnSet(CreditOf', Bought(b)' \cap Live') = sum
      PROVE  CreditFor(b)'
  BY <1>1, <1>4 DEF CreditFor, CreditDrift
<1>5. ASSUME UNCHANGED <<credit, orders>> PROVE CreditFor(b)'
  BY <1>4, <1>5, OrdersKept
<1>6. ASSUME NEW c \in Checkouts, Places(c) PROVE CreditFor(b)'
  <2> DEFINE N == New(c)
             add == SumFunctionOnSet(CreditOf', New(c))
             n == Cardinality(New(c))
             a == Applied(c)
  <2>1. Live' = Live \cup N /\ B \cap N = {} /\ IsFiniteSet(N)
    BY <1>6, PlacesGrows, PlacesNew
  <2>2. /\ add \in Nat /\ n \in Nat /\ 2 * (add - a) \in -n .. n
        /\ \A o \in N : CreditOf'[o] \in Nat
    BY <1>6, SharesAddUp
  <2>3. credit \in [Buyers -> Nat] /\ credit' = [credit EXCEPT ![BuyerOf[c]] = @ - a]
    BY <1>6 DEF Places, CheckoutInv, CheckoutTypeOK
  <2>4. \A o \in S : CreditOf'[o] = CreditOf[o] /\ o \notin N
    <3> TAKE o \in S
    <3>1. o \in Orders /\ o \notin N
      BY <1>2, <2>1
    <3>2. orders'[o] = orders[o]
      BY <1>6, <3>1, PlacesNew
    <3> QED BY <3>1, <3>2 DEF CreditOf
  <2>5. SumFunctionOnSet(CreditOf', S) = sum
    <3> DEFINE h == CreditOf'
               g == CreditOf
    <3>1. \A o \in S : g[o] = h[o]
      BY <2>4
    <3> HIDE DEF g, h, S
    <3>2. SumFunctionOnSet(g, S) = SumFunctionOnSet(h, S)
      BY <1>2, <3>1, SumAgree
    <3> QED BY <3>2 DEF g, h, S
  <2>6. CASE b = BuyerOf[c]
    <3>1. Bought(b)' = B \cup N
      BY <1>6, <2>6, PlacesGrows
    <3>2. Bought(b)' \cap Live' = S \cup N
      BY <2>1, <3>1
    <3>3. SumFunctionOnSet(CreditOf', S \cup N) = sum + add
      <4> DEFINE h == CreditOf'
      <4>1. \A o \in S \cup N : h[o] \in Int
        <5> TAKE o \in S \cup N
        <5>1. h[o] \in Nat
          BY <1>2, <2>2, <2>4
        <5> QED BY <5>1
      <4>2. S \cap N = {}
        BY <2>4
      <4> HIDE DEF h, S, N
      <4>3. SumFunctionOnSet(h, S \cup N) = SumFunctionOnSet(h, S) + SumFunctionOnSet(h, N)
        BY <1>2, <2>1, <4>1, <4>2, SumUnion
      <4> HIDE DEF sum, add
      <4> QED BY <2>5, <4>3 DEF h, S, N, add
    <3>4. Cardinality(B \cup N) = m + n
      <4>1. B \cap N = {} /\ Cardinality(B \cap N) = 0
        BY <2>1, FS_EmptySet
      <4>2. Cardinality(B \cup N) = m + n - Cardinality(B \cap N)
        BY <1>2, <2>1, FS_Union
      <4> HIDE DEF m, n
      <4> QED BY <1>2, <2>2, <4>1, <4>2
    <3>5. credit'[b] = credit[b] - a /\ a \in Nat
      BY <2>3, <2>6, AppliedBounds DEF CheckoutInv
    <3> HIDE DEF sum, add, m, n, a
    <3>6. 2 * (credit'[b] + (sum + add) - Credit[b]) \in -(m + n) .. m + n
      <4>1. 2 * (credit'[b] + (sum + add) - Credit[b]) =
              2 * (credit[b] + sum - Credit[b]) + 2 * (add - a)
        BY <1>2, <2>2, <3>5
      <4> QED BY <1>2, <1>3, <2>2, <4>1
    <3> QED BY <1>1, <3>1, <3>2, <3>3, <3>4, <3>6 DEF CreditFor, CreditDrift
  <2>7. CASE b # BuyerOf[c]
    <3>1. Bought(b)' = B
      BY <1>6, <2>7, PlacesGrows
    <3>2. Bought(b)' \cap Live' = S
      BY <2>1, <3>1
    <3>3. credit'[b] = credit[b]
      BY <2>3, <2>7
    <3> QED BY <1>4, <2>5, <3>1, <3>2, <3>3
  <2> QED BY <2>6, <2>7
<1>7. ASSUME NEW o \in Cancellable, Restores(o) PROVE CreditFor(b)'
  <2>1. /\ Live' = Live \ {o} /\ o \in Live /\ Bought(b)' = Bought(b) /\ CreditOf' = CreditOf
    BY <1>7, RestoresShrinks
  <2>2. /\ credit \in [Buyers -> Nat] /\ o \in Orders
        /\ credit' = [credit EXCEPT ![BuyerOf[o[1]]] = @ + orders[o].credit]
    BY <1>7, RestoresLive DEF Restores, CheckoutInv, CheckoutTypeOK
  <2>3. o \in Bought(b) <=> b = BuyerOf[o[1]]
    BY <1>7, RestoresLive DEF Bought
  <2>4. Bought(b)' \cap Live' = S \ {o}
    BY <2>1
  <2>5. CASE b = BuyerOf[o[1]]
    <3>1. o \in S
      BY <2>1, <2>3, <2>5
    <3>2. sum = CreditOf[o] + SumFunctionOnSet(CreditOf, S \ {o})
      <4> DEFINE g == CreditOf
      <4>1. \A p \in S : g[p] \in Int
        BY <1>2
      <4> HIDE DEF g, S
      <4>2. SumFunctionOnSet(g, S) = g[o] + SumFunctionOnSet(g, S \ {o})
        BY <1>2, <3>1, <4>1, SumRemove
      <4> QED BY <4>2 DEF g, S
    <3>3. SumFunctionOnSet(CreditOf, S \ {o}) \in Nat /\ CreditOf[o] \in Nat
      <4> DEFINE g == CreditOf
      <4>1. IsFiniteSet(S \ {o}) /\ \A p \in S : g[p] \in Nat
        BY <1>2, FS_Subset
      <4> HIDE DEF g, S
      <4>2. SumFunctionOnSet(g, S \ {o}) \in Nat
        BY <4>1, SumNat
      <4> QED BY <3>1, <4>1, <4>2 DEF g, S
    <3>4. credit'[b] = credit[b] + CreditOf[o]
      BY <2>2, <2>5 DEF CreditOf
    <3> HIDE DEF sum, m
    <3>5. credit'[b] + SumFunctionOnSet(CreditOf, S \ {o}) = credit[b] + sum
      BY <1>2, <3>2, <3>3, <3>4
    <3>6. 2 * (credit'[b] + SumFunctionOnSet(CreditOf, S \ {o}) - Credit[b]) \in -m .. m
      BY <1>2, <1>3, <3>3, <3>4, <3>5
    <3>7. CreditDrift(b)' = credit'[b] + SumFunctionOnSet(CreditOf, S \ {o}) - Credit[b]
      BY <2>1, <2>4 DEF CreditDrift
    <3>8. Cardinality(Bought(b))' = m
      BY <2>1 DEF m
    <3> QED BY <1>1, <3>6, <3>7, <3>8 DEF CreditFor
  <2>6. CASE b # BuyerOf[o[1]]
    <3>1. S \ {o} = S
      BY <2>3, <2>6
    <3>2. credit'[b] = credit[b]
      BY <2>2, <2>6
    <3> QED BY <1>4, <2>1, <2>4, <3>1, <3>2
  <2> QED BY <2>5, <2>6
<1> QED BY <1>5, <1>6, <1>7, OrderMoves

\* Store credit is spent once: balance and live orders differ from the credit there was
\* by no more than the rounding of the shares.
THEOREM CreditIsConserved == CheckoutSpec => []CreditAddsUp
BY CheckoutInitInv, CheckoutStep, CreditInit, CreditStep, PTL DEF CheckoutSpec
=============================================================================
