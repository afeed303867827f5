----------------------------- MODULE MCDisputes -----------------------------
(***************************************************************************)
(* Values for the constants of Disputes: an order, and two overlapping     *)
(* runs of each task.                                                      *)
(***************************************************************************)
EXTENDS Disputes

CONSTANTS o1, r1, r2, s1, s2
=============================================================================
