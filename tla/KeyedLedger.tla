---------------------------- MODULE KeyedLedger ----------------------------
(***************************************************************************)
(* What a wallet ledger with idempotency keys promises: every operation is *)
(* posted at most once, whole, and never takes an account below zero.      *)
(***************************************************************************)
EXTENDS Integers

CONSTANTS Accounts, Ops,
          Effect   \* what an operation adds to each account

VARIABLES applied, balance

TypeOK ==
  /\ applied \subseteq Ops
  /\ balance \in [Accounts -> Nat]

Init ==
  /\ applied = {}
  /\ balance = [a \in Accounts |-> 0]

\* An operation is posted to all its accounts at once.
Apply(o) ==
  /\ o \notin applied
  /\ applied' = applied \cup {o}
  /\ balance' = [a \in Accounts |-> balance[a] + Effect[o][a]]
  /\ \A a \in Accounts : balance'[a] >= 0

Next == \E o \in Ops : Apply(o)

Spec == Init /\ [][Next]_<<applied, balance>>
=============================================================================
