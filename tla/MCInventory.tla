---------------------------- MODULE MCInventory ----------------------------
(***************************************************************************)
(* Values for the constants of Inventory.                                  *)
(***************************************************************************)
EXTENDS Inventory, TLC

CONSTANTS a1, a2, a3, a4, u1, u2, k1, p, c, s1, s2

MCTargets  == {p, c}

\* Two units of a product and one of a variant combo.
MCStock == (p :> 2) @@ (c :> 1)

Ask(user, key, target, n) ==
  [user |-> user, key |-> key, target |-> target, quantity |-> n]

\* A call, its retry, a reuse of the key for something else, and another user
\* with the same key who wants the rest of the product.
MCCallOf ==
  (a1 :> Ask(u1, k1, c, 1)) @@ (a2 :> Ask(u1, k1, c, 1)) @@
  (a3 :> Ask(u1, k1, p, 1)) @@ (a4 :> Ask(u2, k1, p, 2))
=============================================================================
