---------------------------- MODULE MCRefunds ----------------------------
(***************************************************************************)
(* Values for the constants of Refunds: a buyer's request for the whole    *)
(* order, and a dispute that ends in half of it.                           *)
(***************************************************************************)
EXTENDS Refunds

CONSTANTS request, dispute, w1, w2

MCAmountOf == [r \in Rows |-> IF r = dispute THEN 1 ELSE 2]
=============================================================================
