---------------------------- MODULE MCOrders ----------------------------
(***************************************************************************)
(* Values for the constants of Orders: two requests of each kind.          *)
(***************************************************************************)
EXTENDS Orders

CONSTANTS c1, c2, u1, u2, k1, k2
=============================================================================
