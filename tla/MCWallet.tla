----------------------------- MODULE MCWallet -----------------------------
(***************************************************************************)
(* Values for the constants of Wallet: two users; a credit that is called  *)
(* twice, a transfer in either direction and one over the day's limit, a   *)
(* top-up and a spend.                                                     *)
(***************************************************************************)
EXTENDS Wallet

CONSTANTS credit, there, back, again, topup, spend,
          c1, c2, c3, c4, c5, c6, c7

MCPayer  == [o \in Ops |-> CASE o \in {there, again, spend} -> 1
                             [] o = back -> 2 [] OTHER -> NoUser]
MCPayee  == [o \in Ops |-> CASE o \in {credit, topup, back} -> 1
                             [] o \in {there, again} -> 2 [] OTHER -> NoUser]
MCAmount == [o \in Ops |-> IF o = credit THEN 2 ELSE 1]
MCOpOf   == [c \in Calls |->
  CASE c \in {c1, c2} -> credit [] c = c3 -> there [] c = c4 -> back
    [] c = c5 -> again [] c = c6 -> topup [] c = c7 -> spend]
=============================================================================
