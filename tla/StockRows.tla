----------------------------- MODULE StockRows -----------------------------
(***************************************************************************)
(* The rows that hold stock, a Product or a ProductVariantCombo, and their *)
(* quantities at the start: what reservations (Inventory) and checkouts    *)
(* (Checkout) have in common.                                              *)
(***************************************************************************)
EXTENDS Integers

CONSTANTS Targets, Stock

ASSUME StockAssumption == Stock \in [Targets -> Nat]
=============================================================================
