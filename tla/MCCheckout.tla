---------------------------- MODULE MCCheckout ----------------------------
(***************************************************************************)
(* Values for the constants of Checkout: two requests of one buyer and one *)
(* of another; a product of one seller, its combo, and a product of the    *)
(* other, with too few units for all; two coupons of two uses, which two   *)
(* requests find in opposite orders; store credit that does not split.     *)
(***************************************************************************)
EXTENDS Checkout

CONSTANTS b1, b2, s1, s2, t1, t2, t3, k1, k2, c1, c2, c3

MCProductOf == [t \in Targets |-> IF t = t3 THEN t1 ELSE t]
MCSellerOf == [t \in Targets |-> IF t = t2 THEN s2 ELSE s1]
MCRank     == [t \in Targets |-> CASE t = t1 -> 1 [] t = t2 -> 2 [] t = t3 -> 3]
MCPrice    == [t \in Targets |-> IF t = t2 THEN 200 ELSE 100]
MCStock    == [t \in Targets |-> IF t = t1 THEN 2 ELSE 1]
MCCredit   == [b \in Buyers |-> 101]
MCUsageLimit == [k \in Coupons |-> 2]
MCBuyerOf  == [c \in Checkouts |-> IF c = c3 THEN b2 ELSE b1]
MCAskOf    == [c \in Checkouts |-> IF c = c3 THEN 0 ELSE 200]
MCCouponsOf == [c \in Checkouts |-> 
  CASE c = c1 -> <<k1>> [] c = c2 -> <<k2, k1>> [] c = c3 -> <<k1, k2>>]
MCMaxPut   == [b \in Buyers |-> [t \in Targets |->
  IF b = b1 THEN IF t = t1 THEN 2 ELSE 1 ELSE IF t = t2 THEN 0 ELSE 1]]
MCCancellable == {<<c1, s1>>, <<c3, s1>>}
=============================================================================
