---------------------------- MODULE StockLedger ----------------------------
(***************************************************************************)
(* What everything that takes stock promises, reservations and checkouts   *)
(* alike: units leave the shelf in parcels, each packed once and whole,    *)
(* never more of them than are there, and a parcel comes back at most once *)
(* and with all it held.                                                   *)
(***************************************************************************)
EXTENDS Integers, FiniteSetsExt

CONSTANTS Targets, Stock,
          Parcels   \* what leaves and comes back as a whole

VARIABLES left,     \* units on the shelf, by target
          inside,   \* units in a parcel, by target
          packed,   \* parcels that were packed
          back      \* parcels that came back

Empty == [t \in Targets |-> 0]

Init ==
  /\ left = Stock
  /\ inside = [p \in Parcels |-> Empty]
  /\ packed = {} /\ back = {}

\* Some parcels are packed at once.
Pack(S) ==
  /\ packed' = packed \cup S
  /\ inside' \in [Parcels -> [Targets -> Nat]]
  /\ \A p \in S : inside'[p] # Empty
  /\ \A p \in Parcels \ S : inside'[p] = inside[p]
  /\ left' = [t \in Targets |->
                left[t] - SumFunctionOnSet([p \in Parcels |-> inside'[p][t]], S)]
  /\ \A t \in Targets : left'[t] >= 0
  /\ UNCHANGED back

Return(p) ==
  /\ back' = back \cup {p}
  /\ left' = [t \in Targets |-> left[t] + inside[p][t]]
  /\ UNCHANGED <<inside, packed>>

Next ==
  \/ \E S \in SUBSET (Parcels \ packed) : IsFiniteSet(S) /\ Pack(S)
  \/ \E p \in packed \ back : Return(p)

Spec == Init /\ [][Next]_<<left, inside, packed, back>>
=============================================================================
