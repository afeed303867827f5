------------------------------ MODULE Checkout ------------------------------
(***************************************************************************)
(* Checkouts and the cancellations that undo them.  CheckoutService turns  *)
(* the lines of a cart into one order for each seller, in one transaction  *)
(* that locks the cart's lines, the coupons, the buyer's row (if store     *)
(* credit is asked for) and then the stock rows, and whose commit shares   *)
(* the rows its order items refer to; restore_order() gives an order's     *)
(* stock and store credit back under locks it takes in another order.  A   *)
(* transaction writes only rows it has locked, and is seen when it         *)
(* commits.  What becomes of an order in between is in Orders.             *)
(*                                                                         *)
(* execute() first looks for an order with the request's key, but orders   *)
(* are stored under key:seller: the lookup finds nothing and is left out.  *)
(* A request that placed its orders is answered from its Idempotency-Key.  *)
(***************************************************************************)
EXTENDS StockRows, SequencesExt

CONSTANTS Buyers, Sellers,
          Coupons, UsageLimit,
          ProductOf,   \* the product of a combo; a product is its own
          SellerOf, Rank, Price,     \* of a stock row: Rank, the order of its lock
          Credit,      \* store credit at the start
          Checkouts, BuyerOf, AskOf, \* requests, the store credit they ask for
          CouponsOf,                 \* in the order the database finds the rows
          Cancellable, \* orders that may be cancelled: <<checkout, seller>>
          MaxPut       \* bound: units each buyer puts in the cart, by target

ASSUME CheckoutAssumption ==
  /\ IsFiniteSet(Targets) /\ IsFiniteSet(Sellers)
  /\ \A c \in Checkouts : c \notin Checkouts \X Sellers
  /\ ProductOf \in [Targets -> Targets]
  /\ SellerOf \in [Targets -> Sellers] /\ BuyerOf \in [Checkouts -> Buyers]
  /\ Rank \in [Targets -> Nat] /\ \A t, u \in Targets : Rank[t] = Rank[u] => t = u
  /\ Price \in [Targets -> Nat \ {0}]
  /\ Credit \in [Buyers -> Nat] /\ AskOf \in [Checkouts -> Nat]
  /\ UsageLimit \in [Coupons -> Nat \ {0}] /\ CouponsOf \in [Checkouts -> Seq(Coupons)]
  /\ Cancellable \subseteq Checkouts \X Sellers
  /\ MaxPut \in [Buyers -> [Targets -> Nat]]

VARIABLES
  (* The tables. *)
  cart,    \* CartItem.quantity by buyer and target, 0 for no line
  stock,   \* quantity of a Product or ProductVariantCombo
  credit,  \* User.store_credit, in the smallest unit
  used,    \* Coupon.used_count
  orders,  \* of a checkout and a seller
  (* The transactions. *)
  plan,    \* the rows it locks, in this order
  got,     \* how many of them it has locked
  lines,   \* the cart's lines as a checkout read them
  (* Observation. *)
  put      \* units put in the cart so far

tables       == <<cart, stock, credit, used, orders, put>>
checkoutVars == <<tables, plan, got, lines>>

Orders  == Checkouts \X Sellers
Actors  == Checkouts \cup Cancellable
None    == [t \in Targets |-> 0]
NoOrder == [lines |-> None, credit |-> 0, restored |-> FALSE]
Placed(o) == orders[o] # NoOrder

CheckoutInit ==
  /\ cart = [b \in Buyers |-> None] /\ put = cart
  /\ stock = Stock /\ credit = Credit
  /\ used = [k \in Coupons |-> 0]
  /\ orders = [o \in Orders |-> NoOrder]
  /\ plan = [a \in Actors |-> <<>>]
  /\ got = [a \in Actors |-> 0]
  /\ lines = [c \in Checkouts |-> None]

-----------------------------------------------------------------------------
(* Row locks *)

CartLock(b)  == <<"cart", b>>
UserLock(b)  == <<"user", b>>
OrderLock(o) == <<"order", o>>
CouponLocks(c) == [i \in DOMAIN CouponsOf[c] |-> <<"coupon", CouponsOf[c][i]>>]

Ascends(q) == \A i, j \in DOMAIN q : i < j => Rank[q[i]] < Rank[q[j]]

\* Products in the order of their keys, then combos in the order of theirs.
Sorted(ts) == CHOOSE q \in [1 .. Cardinality(ts) -> ts] : Ascends(q)

StockLocks(ts) == [i \in 1 .. Cardinality(ts) |-> <<"stock", Sorted(ts)[i]>>]

\* OrderItem.product refers to the product of a combo too: when the transaction commits,
\* the foreign key locks it FOR KEY SHARE, in the order of the items.
ParentsOf(ts) == {ProductOf[t] : t \in ts} \ ts
KeyLocks(q)   == [i \in DOMAIN q |-> <<"key", q[i]>>]

LocksOf(a)   == {plan[a][i] : i \in 1 .. got[a]}
Waits(a)  == got[a] < Len(plan[a])
Wanted(a) == plan[a][got[a] + 1]
HasAll(a) == plan[a] # <<>> /\ ~Waits(a)

\* Two locks of one row, unless both are FOR KEY SHARE.
Conflict(k, l) ==
  \/ k = l /\ k[1] # "key"
  \/ k[2] = l[2] /\ {k[1], l[1]} = {"stock", "key"}

\* Mutant: the select of the cart's lines locks nothing.
FreeCart(l) == l[1] = "cart" \/ \A a \in Actors : \A k \in LocksOf(a) : ~Conflict(k, l)

Free(l) == \A a \in Actors : \A k \in LocksOf(a) : ~Conflict(k, l)

Ends(a) ==
  /\ plan' = [plan EXCEPT ![a] = <<>>]
  /\ got'  = [got EXCEPT ![a] = 0]
  /\ lines' = IF a \in Checkouts THEN [lines EXCEPT ![a] = None] ELSE lines

\* A CheckoutError, a dead worker, or a victim the database picks to break a
\* deadlock: nothing was written.
RollsBack(a) == Ends(a) /\ UNCHANGED tables

\* The row is locked and the transaction goes on with the locks in rest.
Locks(a, rest) ==
  /\ plan' = [plan EXCEPT ![a] = @ \o rest]
  /\ got'  = [got EXCEPT ![a] = @ + 1]

-----------------------------------------------------------------------------
(* The cart *)

\* AddToCartView: a new line, which no lock of a checkout keeps out, or one more
\* of a line that no checkout has locked.  A combo that is sold out is not found.
AddToCart(b, t) ==
  /\ put[b][t] < MaxPut[b][t]
  /\ ProductOf[t] # t => stock[t] > 0
  /\ cart[b][t] > 0 =>
       /\ \A c \in Checkouts : BuyerOf[c] = b => lines[c][t] = 0
       /\ cart[b][t] < stock[t]
  /\ cart' = [cart EXCEPT ![b][t] = @ + 1]
  /\ put'  = [put EXCEPT ![b][t] = @ + 1]
  /\ UNCHANGED <<stock, credit, used, orders, plan, got, lines>>

-----------------------------------------------------------------------------
(* CheckoutService._process_checkout *)

Begin(c) ==
  /\ plan[c] = <<>> /\ \A s \in Sellers : ~Placed(<<c, s>>)
  /\ plan' = [plan EXCEPT ![c] = <<CartLock(BuyerOf[c])>>]
  /\ UNCHANGED <<tables, got, lines>>

\* The cart's lines are locked, and refused if there is none or one exceeds the
\* stock as it is now.
Short(wanted) == \E t \in Targets : wanted[t] > stock[t]

LocksCart(c) ==
  LET read == cart[BuyerOf[c]]
      Credits == IF AskOf[c] > 0 THEN <<UserLock(BuyerOf[c])>> ELSE <<>>
      bought == {t \in Targets : read[t] > 0}
  IN /\ Waits(c) /\ got[c] = 0 /\ Free(Wanted(c))
     /\ IF read = None \/ Short(read)
          THEN RollsBack(c)
          ELSE /\ lines' = [lines EXCEPT ![c] = read]
               /\ \E q \in SetToSeqs(ParentsOf(bought)) :
                    Locks(c, CouponLocks(c) \o Credits \o StockLocks(bought) \o KeyLocks(q))
               /\ UNCHANGED tables

\* All coupons are locked, and is_valid() fails for one.
CouponGone(c) ==
  /\ got[c] >= 1 + Len(CouponsOf[c])
  /\ \E i \in DOMAIN CouponsOf[c] : used[CouponsOf[c][i]] >= UsageLimit[CouponsOf[c][i]]

\* All stock rows are locked, and one has too few units.
OutOfStock(c) ==
  /\ Short(lines[c])
  /\ Waits(c) => Wanted(c)[1] = "key"

Refused(c) ==
  /\ CouponGone(c) \/ OutOfStock(c)
  /\ RollsBack(c)

\* The next lock, in a checkout or a cancellation.
TakesLock(a) ==
  /\ got[a] > 0 /\ Waits(a) /\ Free(Wanted(a))
  /\ a \in Checkouts => ~CouponGone(a) /\ ~OutOfStock(a)
  /\ Locks(a, <<>>)
  /\ UNCHANGED <<tables, lines>>

-----------------------------------------------------------------------------
(* What a checkout writes *)

OfSeller(c, s) == [t \in Targets |-> IF SellerOf[t] = s THEN lines[c][t] ELSE 0]
Cost(ls)       == SumFunction([t \in Targets |-> ls[t] * Price[t]])

\* Mutant: the balance is not looked at.
AppliedUnchecked(c) == Min({AskOf[c], Cost(lines[c])})

\* min(requested, balance, total), split by subtotal and rounded half to even.
Applied(c)  == Min({AskOf[c], credit[BuyerOf[c]], Cost(lines[c])})
Share(c, s) ==
  LET n == 2 * Applied(c) * Cost(OfSeller(c, s)) + Cost(lines[c])
      d == 2 * Cost(lines[c])
  IN IF n % d = 0 /\ (n \div d) % 2 = 1 THEN n \div d - 1 ELSE n \div d

\* One order for each seller; the cart is emptied of whatever is in it by now.
Places(c) ==
  /\ HasAll(c)
  /\ ~CouponGone(c) /\ ~Short(lines[c])
  /\ orders' = [o \in Orders |->
       IF o[1] = c /\ OfSeller(c, o[2]) # None
         THEN [lines |-> OfSeller(c, o[2]), credit |-> Share(c, o[2]), restored |-> FALSE]
         ELSE orders[o]]
  /\ stock'  = [t \in Targets |-> stock[t] - lines[c][t]]
  /\ credit' = [credit EXCEPT ![BuyerOf[c]] = @ - Applied(c)]
  /\ used'   = [k \in Coupons |-> used[k] + (IF k \in ToSet(CouponsOf[c]) THEN 1 ELSE 0)]
  /\ cart'   = [cart EXCEPT ![BuyerOf[c]] = None]
  /\ Ends(c) /\ UNCHANGED put

-----------------------------------------------------------------------------
(* restore_order *)

BeginCancel(o) ==
  /\ plan[o] = <<>> /\ Placed(o)
  /\ plan' = [plan EXCEPT ![o] = <<OrderLock(o)>>]
  /\ UNCHANGED <<tables, got, lines>>

\* The rows of the order's products and combos, and the products of the combos.
Restocked(o) ==
  LET ts == {t \in Targets : orders[o].lines[t] > 0}
  IN StockLocks(ts \cup {ProductOf[t] : t \in ts})

\* Mutant: stock_restored is not looked at.
LocksOrderAgain(o) ==
  /\ Waits(o) /\ got[o] = 0 /\ Free(Wanted(o))
  /\ Locks(o, Restocked(o))
  /\ UNCHANGED <<tables, lines>>

\* Mutant: combos are locked before products.
LocksOrderReversed(o) ==
  /\ Waits(o) /\ got[o] = 0 /\ Free(Wanted(o)) /\ ~orders[o].restored
  /\ Locks(o, Reverse(Restocked(o)))
  /\ UNCHANGED <<tables, lines>>

\* The order is locked: the stock rows come next, then the buyer's row, and the
\* coupons last.
LocksOrder(o) ==
  LET Refund == IF orders[o].credit > 0 THEN <<UserLock(BuyerOf[o[1]])>> ELSE <<>>
  IN /\ Waits(o) /\ got[o] = 0 /\ Free(Wanted(o))
     /\ IF orders[o].restored
          THEN RollsBack(o)
          ELSE /\ Locks(o, Restocked(o) \o Refund \o CouponLocks(o[1]))
               /\ UNCHANGED <<tables, lines>>

\* Stock and credit come back.  The coupons do not: release() looks for a
\* redemption row, and checkout creates none.
Restores(o) ==
  /\ HasAll(o)
  /\ stock'  = [t \in Targets |-> stock[t] + orders[o].lines[t]]
  /\ credit' = [credit EXCEPT ![BuyerOf[o[1]]] = @ + orders[o].credit]
  /\ orders' = [orders EXCEPT ![o].restored = TRUE]
  /\ Ends(o) /\ UNCHANGED <<cart, used, put>>

-----------------------------------------------------------------------------
Dies(a) == plan[a] # <<>> /\ RollsBack(a)

CheckoutNext ==
  \/ \E b \in Buyers, t \in Targets : AddToCart(b, t)
  \/ \E c \in Checkouts : Begin(c) \/ LocksCart(c) \/ Refused(c) \/ Places(c)
  \/ \E o \in Cancellable : BeginCancel(o) \/ LocksOrder(o) \/ Restores(o)
  \/ \E a \in Actors : TakesLock(a) \/ Dies(a)

CheckoutSpec == CheckoutInit /\ [][CheckoutNext]_checkoutVars

-----------------------------------------------------------------------------
(* Properties *)

LockRows ==
  ({"cart", "user"} \X Buyers) \cup ({"order"} \X Orders)
    \cup ({"coupon"} \X Coupons) \cup ({"stock", "key"} \X Targets)

\* In particular no row is oversold and no buyer's credit overdrawn.
CheckoutTypeOK ==
  /\ cart \in [Buyers -> [Targets -> Nat]] /\ put \in [Buyers -> [Targets -> Nat]]
  /\ stock \in [Targets -> Nat] /\ credit \in [Buyers -> Nat] /\ used \in [Coupons -> Nat]
  /\ orders \in [Orders -> [lines : [Targets -> Nat], credit : Nat, restored : BOOLEAN]]
  /\ plan \in [Actors -> Seq(LockRows)] /\ got \in [Actors -> Nat]
  /\ lines \in [Checkouts -> [Targets -> Nat]]

Bought(b)  == {o \in Orders : BuyerOf[o[1]] = b /\ Placed(o)}
Live       == {o \in Orders : Placed(o) /\ ~orders[o].restored}
UnitsOf(t) == [o \in Orders |-> orders[o].lines[t]]
CreditOf   == [o \in Orders |-> orders[o].credit]

\* Whatever checkouts and cancellations race for the last units, none is sold
\* twice or lost: what is left and what stands in orders is what there was.
StockAddsUp ==
  \A t \in Targets :
    /\ stock[t] >= 0
    /\ stock[t] + SumFunctionOnSet(UnitsOf(t), Live) = Stock[t]

\* Checkouts take stock as StockLedger promises: an order is a parcel, packed together
\* with the other orders of its checkout and returned by restore_order().
Ordering == INSTANCE StockLedger
              WITH Parcels <- Orders, left <- stock, inside <- [o \in Orders |-> orders[o].lines],
                   packed <- {o \in Orders : Placed(o)},
                   back <- {o \in Orders : orders[o].restored}

OrdersAsPromised == Ordering!Spec

\* A unit the buyer put in the cart once is ordered at most once ("duplicate
\* requests return same order, not two orders", checkout.py), also when two
\* requests with different keys race, one dies, or the cart is filled meanwhile.
OrderedOnce ==
  \A b \in Buyers, t \in Targets :
    cart[b][t] + SumFunctionOnSet(UnitsOf(t), Bought(b)) <= put[b][t]

\* Store credit is spent once: the balance and what live orders carry differ from
\* the credit there was by no more than the rounding of the shares, half a unit
\* for each order that was placed.
CreditAddsUp ==
  \A b \in Buyers :
    LET drift == credit[b] + SumFunctionOnSet(CreditOf, Bought(b) \cap Live) - Credit[b]
        n     == Cardinality(Bought(b))
    IN credit[b] >= 0 /\ 2 * drift \in -n .. n

\* Sorted locks leave one way to wait for each other's stock in a circle ("Concurrent
\* checkouts queue up rather than deadlock", checkout.py): one of those in it commits,
\* and its order items share the product of a combo that another has locked.  Circles
\* through a coupon or the buyer's row exist.
WaitsForStockOf(a, b) ==
  /\ Waits(a) /\ Wanted(a)[1] \in {"stock", "key"}
  /\ \E k \in LocksOf(b) : Conflict(k, Wanted(a))

StockQueues ==
  \A circle \in SUBSET Actors :
    circle # {} /\ (\A a \in circle : \E b \in circle : WaitsForStockOf(a, b))
      => \E a \in circle : Wanted(a)[1] = "key"

(* The strengthening that makes them inductive. *)

\* A transaction locks its cart or its order first, then the rest, and the stock rows
\* among it in one order and before it shares any.
FirstLock(a) == IF a \in Checkouts THEN CartLock(BuyerOf[a]) ELSE OrderLock(a)

StockAscends(q) ==
  \A i, j \in DOMAIN q :
    i < j /\ q[i][1] \in {"stock", "key"} /\ q[j][1] = "stock"
      => q[i][1] = "stock" /\ Rank[q[i][2]] < Rank[q[j][2]]

PlanInv ==
  \A a \in Actors :
    /\ got[a] <= Len(plan[a]) /\ (got[a] = 0 => Len(plan[a]) <= 1)
    /\ plan[a] # <<>> => plan[a][1] = FirstLock(a)
    /\ StockAscends(plan[a])

\* While a checkout runs, its lines stay in the cart, no other checkout has the cart,
\* and none of its orders exists.
CartInv ==
  /\ \A c \in Checkouts :
       /\ plan[c] # <<>> => \A s \in Sellers : ~Placed(<<c, s>>)
       /\ got[c] = 0 <=> lines[c] = None
       /\ \A t \in Targets : lines[c][t] <= cart[BuyerOf[c]][t]
  /\ \A c, d \in Checkouts : got[c] > 0 /\ got[d] > 0 /\ BuyerOf[c] = BuyerOf[d] => c = d

\* While a cancellation has its order, the order stands.
CancelInv ==
  \A o \in Cancellable :
    /\ plan[o] # <<>> => Placed(o)
    /\ got[o] > 0 => ~orders[o].restored

PlacedInv == IsFiniteSet({o \in Orders : Placed(o)})
=============================================================================
