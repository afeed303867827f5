--------------------------- MODULE RefundsProofs ---------------------------
(***************************************************************************)
(* Money on its way back to the buyer.  Refunds: the seller is debited     *)
(* once and only after the provider has paid, for any refund rows, amounts *)
(* and workers.  Disputes: dispute, hold and refund agree, the hold stays  *)
(* frozen while the dispute is open, and the platform pays no more than    *)
(* what was on its way when it was opened: for any orders and any runs of  *)
(* the two tasks.                                                          *)
(***************************************************************************)
EXTENDS Refunds, Disputes, FiniteSetTheorems, TLAPS

-----------------------------------------------------------------------------
(* Refunds *)

\* What the argument needs of the types.
PayType ==
  /\ DOMAIN refund = Rows
  /\ DOMAIN at = Workers /\ DOMAIN outcome = Workers
  /\ row \in [Workers -> Rows]
  /\ payment \in {"none", "confirmed", "refunded"}

PInv == PayType /\ PayInv

LEMMA PayInit == RefundInit => PInv
  BY DEF RefundInit, PInv, PayType, PayInv, Backed

\* Steps that leave the money, the rows and the workers' answers as they are.
LEMMA PayIdle ==
  ASSUME PInv, UNCHANGED <<refund, payment, paidOut, job, debits>>
  PROVE  PInv'
  BY DEF PInv, PayType, PayInv, Backed, job

\* A worker moves on, without a new answer unless the provider has paid for it.
LEMMA PayMoves ==
  ASSUME PInv, NEW w \in Workers, NEW place, NEW result, Proceed(w, place, result),
         UNCHANGED <<refund, payment, debits>>,
         paidOut \subseteq paidOut',
         place = "settle" \/ result = "ok" => AmountOf[row[w]] \in paidOut',
         place = "idle" => result = "none"
  PROVE  PInv'
  <1>1. PayType' BY DEF PInv, PayType, Proceed
  <1>2. \A v \in Workers : Backed(v)'
    <2> TAKE v \in Workers
    <2>1. CASE v = w BY <2>1 DEF Proceed, PInv, PayType, Backed
    <2>2. CASE v # w BY <2>2 DEF Proceed, PInv, PayType, PayInv, Backed
    <2> QED BY <2>1, <2>2
  <1> QED BY <1>1, <1>2 DEF PInv, PayInv

\* The local block.
LEMMA PaySettles == ASSUME PInv, NEW w \in Workers, Settle(w) PROVE PInv'
  <1>1. AmountOf[row[w]] \in paidOut BY DEF Settle, PInv, PayInv, Backed
  <1>2. PayType' BY DEF Settle, Proceed, PInv, PayType
  <1>3. debits' = 1 /\ payment' = "refunded" BY DEF Settle, Replayed, PInv, PayInv
  <1>4. UNCHANGED <<refund, paidOut, row>> BY DEF Settle, Proceed
  <1>5. \A v \in Workers : Backed(v)'
    <2> TAKE v \in Workers
    <2>1. CASE v = w BY <2>1, <1>1, <1>4 DEF Settle, Proceed, PInv, PayType, Backed
    <2>2. CASE v # w BY <2>2, <1>4 DEF Settle, Proceed, PInv, PayType, PayInv, Backed
    <2> QED BY <2>1, <2>2
  <1> QED BY <1>1, <1>2, <1>3, <1>4, <1>5 DEF PInv, PayInv

\* A row becomes processed with the answer for its own amount.
LEMMA PayRecords == ASSUME PInv, NEW w \in Workers, Record(w) PROVE PInv'
  <1> DEFINE r == row[w]
  <1>1. r \in Rows BY DEF PInv, PayType
  <1>2. /\ refund' = [refund EXCEPT ![r] = Recorded(r, outcome[w])]
        /\ UNCHANGED <<payment, paidOut, debits, row>>
    BY DEF Record, Proceed
  <1>3. PayType' BY DEF Record, Proceed, PInv, PayType
  <1>4. Recorded(r, outcome[w]) = "processed" => AmountOf[r] \in paidOut
    <2>1. outcome[w] = "ok" => AmountOf[r] \in paidOut BY DEF PInv, PayInv, Backed
    <2>2. refund[r] = "processed" => AmountOf[r] \in paidOut BY <1>1 DEF PInv, PayInv
    <2>3. Recorded(r, outcome[w]) \in {"rejected", "failed", refund[r]} \/ outcome[w] = "ok"
      BY DEF Recorded
    <2> QED BY <2>1, <2>2, <2>3
  <1>5. \A s \in Rows : refund'[s] = "processed" => AmountOf[s] \in paidOut'
    <2> TAKE s \in Rows
    <2>1. CASE s = r BY <2>1, <1>2, <1>4 DEF PInv, PayType
    <2>2. CASE s # r BY <2>2, <1>2 DEF PInv, PayType, PayInv
    <2> QED BY <2>1, <2>2
  <1>6. \A v \in Workers : Backed(v)'
    BY <1>2 DEF Record, Proceed, PInv, PayType, PayInv, Backed
  <1> QED BY <1>2, <1>3, <1>5, <1>6 DEF PInv, PayInv

LEMMA PayNext == PInv /\ [RefundNext]_refundVars => PInv'
  <1> SUFFICES ASSUME PInv, [RefundNext]_refundVars PROVE PInv' OBVIOUS
  <1>1. CASE UNCHANGED refundVars BY <1>1, PayIdle DEF refundVars
  <1>2. CASE LockExpires BY <1>2, PayIdle DEF LockExpires
  <1>3. CASE \E r \in Rows : Ask(r) \/ Create(r)
    BY <1>3 DEF Ask, Create, PInv, PayType, PayInv, Backed, job
  <1>4. CASE \E r \in Rows, w \in Workers : Begin(w, r)
    <2>1. PICK r \in Rows, w \in Workers : Begin(w, r) BY <1>4
    <2>2. at' = [at EXCEPT ![w] = "check"] /\ row' = [row EXCEPT ![w] = r]
          /\ UNCHANGED <<refund, payment, paidOut, outcome, debits>>
      BY <2>1 DEF Begin
    <2>3. at[w] = "idle" BY <2>1 DEF Begin
    <2>4. PayType' BY <2>2 DEF PInv, PayType
    <2>5. outcome[w] = "none" BY <2>3 DEF PInv, PayInv, Backed
    <2> QED BY <2>2, <2>4, <2>5 DEF PInv, PayType, PayInv, Backed
  <1>5. CASE \E w \in Workers : Step(w) \/ Crash(w)
    <2>1. PICK w \in Workers : Step(w) \/ Crash(w) BY <1>5
    <2>2. CASE Check(w) BY <2>2, PayMoves DEF Check
    <2>3. CASE Call(w)
      <3>1. Proceed(w, "settle", "none") /\ UNCHANGED <<refund, payment, debits>>
            /\ paidOut' = paidOut \cup {AmountOf[row[w]]}
        BY <2>3 DEF Call
      <3> QED BY <3>1, PayMoves
    <2>4. CASE CallRaises(w)
      <3>1. Proceed(w, "release", "transient") /\ UNCHANGED <<refund, payment, debits>>
            /\ paidOut \subseteq paidOut'
        BY <2>4 DEF CallRaises, Retries
      <3> QED BY <3>1, PayMoves
    <2>5. CASE Settle(w) BY <2>5, PaySettles
    <2>6. CASE SettleFails(w)
      <3>1. Proceed(w, "release", "transient") /\ UNCHANGED <<refund, payment, debits, paidOut>>
        BY <2>6 DEF SettleFails, Retries
      <3> QED BY <3>1, PayMoves
    <2>7. CASE Unlock(w)
      <3>1. Proceed(w, "record", outcome[w]) /\ UNCHANGED <<refund, payment, debits, paidOut>>
        BY <2>7 DEF Unlock
      <3>2. outcome[w] = "ok" => AmountOf[row[w]] \in paidOut BY DEF PInv, PayInv, Backed
      <3> QED BY <3>1, <3>2, PayMoves
    <2>8. CASE Record(w) BY <2>8, PayRecords
    <2>9. CASE Crash(w)
      <3>1. Proceed(w, "idle", "none") /\ UNCHANGED <<refund, payment, debits, paidOut>>
        BY <2>9 DEF Crash
      <3> QED BY <3>1, PayMoves
    <2> QED BY <2>1, <2>2, <2>3, <2>4, <2>5, <2>6, <2>7, <2>8, <2>9 DEF Step
  <1> QED BY <1>1, <1>2, <1>3, <1>4, <1>5 DEF RefundNext

\* The seller is debited at most once for an order: any number of refund rows,
\* retries, crashes and expired locks.
THEOREM SellerDebitedOnce == RefundSpec => []DebitedOnce
  <1>1. PInv => DebitedOnce BY DEF PInv, PayInv, DebitedOnce
  <1> QED BY <1>1, PayInit, PayNext, PTL DEF RefundSpec

\* No local trace of a refund comes before the provider's payment.
THEOREM ProviderPaysFirst == RefundSpec => []GatewayFirst
  <1>1. PInv => GatewayFirst BY DEF PInv, PayInv, GatewayFirst
  <1> QED BY <1>1, PayInit, PayNext, PTL DEF RefundSpec
-----------------------------------------------------------------------------
LEMMA ProceedTyped ==
  ASSUME RefundTypeOK, NEW w \in Workers, NEW place \in Places, NEW result \in Outcomes,
         Proceed(w, place, result)
  PROVE  at' \in [Workers -> Places] /\ row' \in [Workers -> Rows]
         /\ outcome' \in [Workers -> Outcomes]
  BY DEF RefundTypeOK, Proceed

LEMMA StepTyped == ASSUME RefundTypeOK, NEW w \in Workers, Step(w) \/ Crash(w) PROVE RefundTypeOK'
  <1> USE DEF Places, Outcomes
  <1>1. CASE Check(w) BY <1>1, ProceedTyped DEF Check, RefundTypeOK
  <1>2. CASE Call(w) BY <1>2, ProceedTyped DEF Call, RefundTypeOK
  <1>3. CASE CallRaises(w) BY <1>3, ProceedTyped DEF CallRaises, Retries, RefundTypeOK
  <1>4. CASE Settle(w) BY <1>4, ProceedTyped DEF Settle, RefundTypeOK
  <1>5. CASE SettleFails(w) BY <1>5, ProceedTyped DEF SettleFails, Retries, RefundTypeOK
  <1>6. CASE Unlock(w)
    <2>1. outcome[w] \in Outcomes BY DEF RefundTypeOK
    <2> QED BY <1>6, <2>1, ProceedTyped DEF Unlock, RefundTypeOK
  <1>7. CASE Record(w)
    <2>1. row[w] \in Rows BY DEF RefundTypeOK
    <2>2. Recorded(row[w], outcome[w]) \in {"none", "asked", "pending"} \cup Settled
      BY <2>1 DEF Recorded, Settled, RefundTypeOK
    <2>3. refund' \in [Rows -> {"none", "asked", "pending"} \cup Settled]
      BY <1>7, <2>1, <2>2 DEF Record, RefundTypeOK
    <2> QED BY <1>7, <2>3, ProceedTyped DEF Record, RefundTypeOK
  <1>8. CASE Crash(w) BY <1>8, ProceedTyped DEF Crash, RefundTypeOK
  <1> QED BY <1>1, <1>2, <1>3, <1>4, <1>5, <1>6, <1>7, <1>8 DEF Step

\* Types of the rows, the payment, the provider's refunds and the workers.
THEOREM RefundTypeCorrect == RefundSpec => []RefundTypeOK
  <1>1. RefundInit => RefundTypeOK
    <2> SUFFICES ASSUME RefundInit PROVE RefundTypeOK OBVIOUS
    <2>1. locked \in BOOLEAN /\ paidOut \subseteq {AmountOf[r] : r \in Rows}
      BY Zenon DEF RefundInit
    <2> QED BY <2>1 DEF RefundInit, RefundTypeOK, Places, Outcomes
  <1>2. RefundTypeOK /\ [RefundNext]_refundVars => RefundTypeOK'
    <2> SUFFICES ASSUME RefundTypeOK, [RefundNext]_refundVars PROVE RefundTypeOK' OBVIOUS
    <2>1. CASE UNCHANGED refundVars BY <2>1 DEF RefundTypeOK, refundVars, job
    <2>2. CASE LockExpires BY <2>2 DEF LockExpires, RefundTypeOK, job
    <2>3. CASE \E r \in Rows : Ask(r) \/ Create(r) BY <2>3 DEF Ask, Create, RefundTypeOK, job
    <2>4. CASE \E r \in Rows, w \in Workers : Begin(w, r)
      BY <2>4 DEF Begin, Attempted, RefundTypeOK, Places
    <2>5. CASE \E w \in Workers : Step(w) \/ Crash(w) BY <2>5, StepTyped
    <2> QED BY <2>1, <2>2, <2>3, <2>4, <2>5 DEF RefundNext
  <1> QED BY <1>1, <1>2, PTL DEF RefundSpec

-----------------------------------------------------------------------------
(* Disputes *)

\* Every state component keeps its type.
LEMMA TypeInit == Init => TypeOK
  BY DEF Init, TypeOK

LEMMA TypeNext == TypeOK /\ [Next]_vars => TypeOK'
  <1> SUFFICES ASSUME TypeOK, [Next]_vars PROVE TypeOK' OBVIOUS
  <1> USE DEF TypeOK
  <1>1. CASE UNCHANGED vars
    BY <1>1 DEF vars, disputes, holds, runs, slas, history
  <1>2. ASSUME NEW o \in Orders, FallsDue(o) \/ FallsLate(o) \/ Answer(o) \/ Request(o)
        PROVE  TypeOK'
    BY <1>2 DEF FallsDue, FallsLate, Answer, Request, disputes, holds, runs, slas, history
  <1>3. ASSUME NEW o \in Orders, Open(o) PROVE TypeOK'
    BY <1>3 DEF Open, Freeze, Listing, runs, slas
  <1>4. ASSUME NEW o \in Orders, NEW for \in {"seller", "buyer"}, AdminResolves(o, for) PROVE TypeOK'
    BY <1>4 DEF AdminResolves, Resolve, runs, slas, history
  <1>5. ASSUME NEW s \in Sweeps, SweepLists(s) PROVE TypeOK'
    BY <1>5 DEF SweepLists, OpenAndLate, disputes, holds, runs, history
  <1>6. ASSUME NEW s \in Sweeps, NEW o \in Orders, SweepEscalates(s, o) PROVE TypeOK'
    BY <1>6 DEF SweepEscalates, Drop, holds, runs, history
  <1>7. ASSUME NEW s \in Sweeps, NEW o \in Orders, SweepResolves(s, o) PROVE TypeOK'
    BY <1>7 DEF SweepResolves, Resolve, Drop, disputes, holds, runs, history
  <1>8. ASSUME NEW r \in Releases, ReleaseLists(r) PROVE TypeOK'
    BY <1>8 DEF ReleaseLists, Payable, disputes, holds, slas, history
  <1>9. ASSUME NEW r \in Releases, NEW o \in Orders, Pay(r, o) PROVE TypeOK'
    BY <1>9 DEF Pay, Credited, disputes, holds, slas, history
  <1>10. ASSUME NEW r \in Releases, Mark(r) PROVE TypeOK'
    BY <1>10 DEF Mark, disputes, slas, history
  <1>11. ASSUME NEW r \in Releases, Die(r) PROVE TypeOK'
    BY <1>11 DEF Die, disputes, holds, slas, history
  <1>12. CASE Staffing
    BY <1>12 DEF Staffing, disputes, holds, runs, history
  <1> QED
    BY <1>1, <1>2, <1>3, <1>4, <1>5, <1>6, <1>7, <1>8, <1>9, <1>10, <1>11, <1>12
    DEF Next, Sweep, Release

-----------------------------------------------------------------------------
\* What a dispute and its hold say of each other.
Agreed == TypeOK /\ SettledAsResolved /\ FrozenWhileOpen /\ StatusInv

LEMMA AgreedInit == Init => Agreed
  BY TypeInit DEF Init, Agreed, SettledAsResolved, FrozenWhileOpen, StatusInv, Resolvable

\* A resolution of a dispute that is not resolved, by whoever.
LEMMA AgreedResolve ==
  ASSUME Agreed, TypeOK', NEW o \in Orders, NEW for \in {"seller", "buyer"},
         Resolvable(o), Resolve(o, for)
  PROVE  Agreed'
  <1>1. dispute' = [dispute EXCEPT ![o] = "resolved"] /\ resolution' = [resolution EXCEPT ![o] = for]
    BY DEF Resolve
  <1>2. is_disputed' = is_disputed \ ({o} \ released) BY DEF Resolve, Thaw
  <1>3. resolution[o] = "none" BY DEF Agreed, StatusInv, Resolvable
  <1>4. o \notin refunded BY <1>3 DEF Agreed, SettledAsResolved
  <1>5. /\ released \subseteq released'
        /\ \A p \in Orders \ {o} : /\ p \in refunded' <=> p \in refunded
                                   /\ refundRows'[p] = refundRows[p]
    BY DEF Resolve, Agreed, TypeOK
  <1>6. for = "buyer" => o \in released' /\ refundRows'[o] > 0
    BY DEF Resolve, Agreed, TypeOK
  <1>7. for = "seller" => o \notin refunded' BY <1>4 DEF Resolve
  <1>8. SettledAsResolved'
    <2> SUFFICES ASSUME NEW p \in Orders
                 PROVE  /\ p \in refunded' => resolution'[p] = "buyer"
                        /\ resolution'[p] = "buyer" => p \in released' /\ refundRows'[p] > 0
      BY DEF SettledAsResolved
    <2>1. CASE p = o BY <2>1, <1>1, <1>6, <1>7 DEF Agreed, TypeOK
    <2>2. CASE p # o BY <2>2, <1>1, <1>5 DEF Agreed, TypeOK, SettledAsResolved
    <2> QED BY <2>1, <2>2
  <1>9. FrozenWhileOpen' BY <1>1, <1>2, <1>5 DEF Agreed, TypeOK, FrozenWhileOpen, Resolvable
  <1>10. StatusInv'
    <2>1. refunded' \subseteq released' BY DEF Resolve, Agreed, StatusInv
    <2> QED BY <2>1, <1>1, <1>2 DEF Agreed, TypeOK, StatusInv
  <1> QED BY <1>8, <1>9, <1>10 DEF Agreed

LEMMA AgreedNext == Agreed /\ [Next]_vars => Agreed'
  <1> SUFFICES ASSUME Agreed, [Next]_vars PROVE Agreed' OBVIOUS
  <1>0. TypeOK' BY TypeNext DEF Agreed
  <1> USE DEF Agreed, TypeOK, SettledAsResolved, FrozenWhileOpen, StatusInv, Resolvable
  <1>1. CASE UNCHANGED <<dispute, resolution, refundRows, is_disputed, released, refunded>>
    BY <1>0, <1>1
  <1>2. ASSUME NEW o \in Orders, FallsDue(o) \/ FallsLate(o) \/ Answer(o) PROVE Agreed'
    BY <1>1, <1>2 DEF FallsDue, FallsLate, Answer, disputes, holds
  <1>3. ASSUME NEW o \in Orders, Open(o) PROVE Agreed'
    BY <1>0, <1>3 DEF Open, Freeze
  <1>4. ASSUME NEW o \in Orders, NEW for \in {"seller", "buyer"}, AdminResolves(o, for) PROVE Agreed'
    BY <1>0, <1>4, AgreedResolve DEF AdminResolves, Decidable
  <1>11. ASSUME NEW o \in Orders, Request(o) PROVE Agreed'
    BY <1>0, <1>11 DEF Request, holds
  <1>12. CASE Staffing BY <1>1, <1>12 DEF Staffing, disputes, holds
  <1>5. ASSUME NEW s \in Sweeps, NEW o \in Orders, SweepEscalates(s, o) PROVE Agreed'
    BY <1>0, <1>5 DEF SweepEscalates, holds
  <1>6. ASSUME NEW s \in Sweeps, NEW o \in Orders, SweepResolves(s, o) PROVE Agreed'
    <2>1. CASE staffed /\ Decidable(o, "buyer")
      BY <2>1, <1>0, <1>6, AgreedResolve DEF SweepResolves, Decidable
    <2>2. CASE ~(staffed /\ Decidable(o, "buyer"))
      BY <2>2, <1>1, <1>6 DEF SweepResolves, disputes, holds
    <2> QED BY <2>1, <2>2
  <1>7. ASSUME NEW r \in Releases, Mark(r) PROVE Agreed'
    BY <1>0, <1>7 DEF Mark, disputes
  <1>8. CASE \E s \in Sweeps : SweepLists(s) BY <1>1, <1>8 DEF SweepLists, disputes, holds
  <1>9. CASE \E r \in Releases : ReleaseLists(r) \/ Die(r) \/ \E o \in Orders : Pay(r, o)
    BY <1>1, <1>9 DEF ReleaseLists, Die, Pay, disputes, holds
  <1>10. CASE UNCHANGED vars BY <1>1, <1>10 DEF vars, disputes, holds
  <1> QED
    BY <1>2, <1>3, <1>4, <1>5, <1>6, <1>7, <1>8, <1>9, <1>10, <1>11, <1>12
    DEF Next, Sweep, Release

-----------------------------------------------------------------------------
\* The lists are finite.
LEMMA ListsAreFinite ==
  ASSUME NEW S, S \subseteq Releases
  PROVE  IsFiniteSet(S) /\ Cardinality(S) \in Nat
  BY RunsAssumption, FS_Subset, FS_CardinalityType

LEMMA BoundInit == Init => PayBound
  BY DEF Init, PayBound

\* Fewer lists or a settled hold, and the same credits.
LEMMA BoundShrinks ==
  ASSUME Agreed, PayBound, UNCHANGED <<paid, before, early>>,
         is_disputed' \cup refunded' \subseteq is_disputed \cup refunded,
         \A o \in is_disputed \cup refunded : Listing(o)' \subseteq Listing(o)
  PROVE  PayBound'
  <1> SUFFICES ASSUME NEW o \in is_disputed' \cup refunded'
               PROVE  paid'[o] + Cardinality(Listing(o)') <= before'[o] + Cardinality(early'[o])
    BY DEF PayBound
  <1>1. o \in is_disputed \cup refunded OBVIOUS
  <1>2. paid[o] + Cardinality(Listing(o)) <= before[o] + Cardinality(early[o])
    BY <1>1 DEF PayBound
  <1>3. paid[o] \in Nat /\ before[o] \in Nat BY <1>1 DEF Agreed, TypeOK
  <1>4. early[o] \subseteq Releases BY <1>1 DEF Agreed, TypeOK
  <1>5. Cardinality(early[o]) \in Nat BY <1>4, ListsAreFinite
  <1>6. IsFiniteSet(Listing(o)) /\ Cardinality(Listing(o)) \in Nat
    BY ListsAreFinite DEF Listing
  <1>7. /\ Cardinality(Listing(o)') \in Nat
        /\ Cardinality(Listing(o)') <= Cardinality(Listing(o))
    BY <1>1, <1>6, FS_Subset, FS_CardinalityType
  <1> QED BY <1>2, <1>3, <1>5, <1>6, <1>7

\* The hold is refunded where it was frozen.
LEMMA BoundResolves ==
  ASSUME Agreed, PayBound, NEW o \in Orders, NEW for \in {"seller", "buyer"},
         Resolvable(o), Resolve(o, for)
  PROVE  PayBound'
  <1>1. o \in is_disputed \cup released BY DEF Agreed, FrozenWhileOpen
  <1>2. is_disputed' \cup refunded' \subseteq is_disputed \cup refunded
    BY <1>1 DEF Resolve, Thaw
  <1>3. \A p : Listing(p)' = Listing(p) BY DEF Resolve, Listing, runs
  <1> QED BY <1>2, <1>3, BoundShrinks DEF Resolve, history

\* A credit takes the hold off a list.
LEMMA BoundPays ==
  ASSUME Agreed, PayBound, NEW r \in Releases, NEW o \in Orders, Pay(r, o), ~LocksRefused
  PROVE  PayBound'
  <1> SUFFICES ASSUME NEW p \in is_disputed' \cup refunded'
               PROVE  paid'[p] + Cardinality(Listing(p)') <= before'[p] + Cardinality(early'[p])
    BY DEF PayBound
  <1>1. p \in is_disputed \cup refunded /\ p \in Orders
    BY DEF Pay, holds, Agreed, TypeOK
  <1>2. paid[p] + Cardinality(Listing(p)) <= before[p] + Cardinality(early[p])
    BY <1>1 DEF PayBound
  <1>3. UNCHANGED <<before, early>> BY DEF Pay, history
  <1>4. todo' = [todo EXCEPT ![r] = @ \ {o}] /\ paid' = [paid EXCEPT ![o] = paid[o] + 1]
    BY DEF Pay, Credited
  <1>5. paid[p] \in Nat /\ todo \in [Releases -> SUBSET Orders] BY <1>1 DEF Agreed, TypeOK
  <1>6. IsFiniteSet(Listing(p)) /\ Cardinality(Listing(p)) \in Nat
    BY ListsAreFinite DEF Listing
  <1>7. CASE p # o
    <2>1. Listing(p)' = Listing(p) BY <1>4, <1>5, <1>7 DEF Listing
    <2>2. paid'[p] = paid[p] BY <1>1, <1>4, <1>7 DEF Agreed, TypeOK
    <2> QED BY <1>2, <1>3, <2>1, <2>2
  <1>8. CASE p = o
    <2>1. Listing(p)' = Listing(p) \ {r} BY <1>4, <1>5, <1>8 DEF Listing
    <2>2. r \in Listing(p) BY <1>8 DEF Pay, Listing
    <2>3. Cardinality(Listing(p)') = Cardinality(Listing(p)) - 1
      BY <1>6, <2>1, <2>2, FS_RemoveElement
    <2>4. paid'[p] = paid[p] + 1 BY <1>4, <1>8 DEF Agreed, TypeOK
    <2>5. paid'[p] + Cardinality(Listing(p)') = paid[p] + Cardinality(Listing(p))
      BY <1>5, <1>6, <2>3, <2>4
    <2> QED BY <1>2, <1>3, <2>5
  <1> QED BY <1>7, <1>8

\* A lock that is refused drops the list.
LEMMA BoundRefused ==
  ASSUME Agreed, PayBound, NEW r \in Releases, NEW o \in Orders, Pay(r, o), LocksRefused
  PROVE  PayBound'
  <1>1. /\ todo' = [todo EXCEPT ![r] = {}] /\ paid' = [paid EXCEPT ![o] = paid[o]]
        /\ UNCHANGED <<is_disputed, refunded, before, early>>
    BY DEF Pay, holds, history
  <1>2. paid' = paid BY <1>1 DEF Agreed, TypeOK
  <1>3. \A p \in is_disputed \cup refunded : Listing(p)' \subseteq Listing(p)
    BY <1>1 DEF Listing, Agreed, TypeOK
  <1> QED BY <1>1, <1>2, <1>3, BoundShrinks

\* The dispute opens with what was listed and credited before.
LEMMA BoundOpens ==
  ASSUME Agreed, PayBound, NEW o \in Orders, Open(o)
  PROVE  PayBound'
  <1> SUFFICES ASSUME NEW p \in is_disputed' \cup refunded'
               PROVE  paid'[p] + Cardinality(Listing(p)') <= before'[p] + Cardinality(early'[p])
    BY DEF PayBound
  <1>1. /\ before' = [before EXCEPT ![o] = paid[o]] /\ early' = [early EXCEPT ![o] = Listing(o)]
        /\ UNCHANGED <<paid, todo, refunded>>
    BY DEF Open, runs
  <1>2. Listing(p)' = Listing(p) BY <1>1 DEF Listing
  <1>3. p \in Orders /\ paid[p] \in Nat BY DEF Open, Freeze, Agreed, TypeOK
  <1>4. Cardinality(Listing(p)) \in Nat BY ListsAreFinite DEF Listing
  <1>5. CASE p = o
    <2>1. before'[p] = paid[p] /\ early'[p] = Listing(p) BY <1>1, <1>5 DEF Agreed, TypeOK
    <2> QED BY <1>1, <1>2, <1>3, <1>4, <2>1
  <1>6. CASE p # o
    <2>1. p \in is_disputed \cup refunded BY <1>6 DEF Open, Freeze
    <2>2. before'[p] = before[p] /\ early'[p] = early[p] BY <1>1, <1>3, <1>6 DEF Agreed, TypeOK
    <2> QED BY <1>1, <1>2, <2>1, <2>2 DEF PayBound
  <1> QED BY <1>5, <1>6

\* A hold that is frozen or refunded comes on no list.
LEMMA BoundLists ==
  ASSUME Agreed, PayBound, NEW r \in Releases, ReleaseLists(r)
  PROVE  PayBound'
  <1>1. todo' = [todo EXCEPT ![r] = Payable] /\ UNCHANGED <<is_disputed, refunded, paid, before, early>>
    BY DEF ReleaseLists, holds, history
  <1>2. \A o \in is_disputed \cup refunded : Listing(o)' \subseteq Listing(o)
    BY <1>1 DEF Listing, Payable, Agreed, TypeOK, StatusInv
  <1> QED BY <1>1, <1>2, BoundShrinks

\* A run that dies drops its list.
LEMMA BoundDies ==
  ASSUME Agreed, PayBound, NEW r \in Releases, Die(r)
  PROVE  PayBound'
  <1>1. todo' = [todo EXCEPT ![r] = {}] /\ UNCHANGED <<is_disputed, refunded, paid, before, early>>
    BY DEF Die, holds, history
  <1>2. \A o \in is_disputed \cup refunded : Listing(o)' \subseteq Listing(o)
    BY <1>1 DEF Listing, Agreed, TypeOK
  <1> QED BY <1>1, <1>2, BoundShrinks

LEMMA BoundNext == Agreed /\ PayBound /\ [Next]_vars => PayBound'
  <1> SUFFICES ASSUME Agreed, PayBound, [Next]_vars PROVE PayBound' OBVIOUS
  <1>1. CASE UNCHANGED <<is_disputed, refunded, paid, todo, before, early>>
    <2>1. \A o : Listing(o)' = Listing(o) BY <1>1 DEF Listing
    <2> QED BY <1>1, <2>1, BoundShrinks
  <1>2. ASSUME NEW o \in Orders, FallsDue(o) \/ FallsLate(o) \/ Answer(o) \/ Request(o)
        PROVE  PayBound'
    BY <1>1, <1>2 DEF FallsDue, FallsLate, Answer, Request, holds, runs, history
  <1>3. ASSUME NEW o \in Orders, NEW for \in {"seller", "buyer"}, AdminResolves(o, for) PROVE PayBound'
    BY <1>3, BoundResolves DEF AdminResolves, Decidable
  <1>4. ASSUME NEW s \in Sweeps, NEW o \in Orders, SweepEscalates(s, o) PROVE PayBound'
    BY <1>1, <1>4 DEF SweepEscalates, holds, runs, history
  <1>5. ASSUME NEW s \in Sweeps, NEW o \in Orders, SweepResolves(s, o) PROVE PayBound'
    <2>1. CASE staffed /\ Decidable(o, "buyer")
      BY <2>1, <1>5, BoundResolves DEF SweepResolves, Decidable
    <2>2. CASE ~(staffed /\ Decidable(o, "buyer"))
      BY <2>2, <1>1, <1>5 DEF SweepResolves, holds, runs, history
    <2> QED BY <2>1, <2>2
  <1>6. CASE \E s \in Sweeps : SweepLists(s) BY <1>1, <1>6 DEF SweepLists, holds, runs, history
  <1>7. CASE \E r \in Releases : Mark(r) BY <1>1, <1>7 DEF Mark, history
  <1>8. CASE UNCHANGED vars BY <1>1, <1>8 DEF vars, holds, runs, history
  <1>9. CASE Staffing BY <1>1, <1>9 DEF Staffing, holds, runs, history
  <1>10. ASSUME NEW r \in Releases, NEW o \in Orders, Pay(r, o) PROVE PayBound'
    BY <1>10, BoundPays, BoundRefused
  <1> QED
    BY <1>2, <1>3, <1>4, <1>5, <1>6, <1>7, <1>8, <1>9, <1>10, BoundOpens, BoundLists, BoundDies
    DEF Next, Sweep, Release

-----------------------------------------------------------------------------
LEMMA Inductive == Spec => [](Agreed /\ PayBound)
  <1>1. Init => Agreed /\ PayBound BY AgreedInit, BoundInit
  <1>2. Agreed /\ PayBound /\ [Next]_vars => (Agreed /\ PayBound)'
    BY AgreedNext, BoundNext
  <1> QED BY <1>1, <1>2, PTL DEF Spec

\* The type invariant.
THEOREM TypeCorrect == Spec => []TypeOK
  <1>1. Agreed => TypeOK BY DEF Agreed
  <1> QED BY <1>1, Inductive, PTL

\* Whoever resolves the dispute first, hold and Refund say what it says.
THEOREM SettlementAgrees == Spec => []SettledAsResolved
  <1>1. Agreed => SettledAsResolved BY DEF Agreed
  <1> QED BY <1>1, Inductive, PTL

\* As long as a dispute can be resolved, its hold is frozen or was released before.
THEOREM DisputeFreezes == Spec => []FrozenWhileOpen
  <1>1. Agreed => FrozenWhileOpen BY DEF Agreed
  <1> QED BY <1>1, Inductive, PTL

\* The buyer's win costs the platform at most what was on its way at the opening.
THEOREM LateCreditsAreEarly == Spec => []LatePaysAreEarly
  <1>1. Agreed /\ PayBound => LatePaysAreEarly
    <2> SUFFICES ASSUME Agreed, PayBound, NEW o \in refunded
                 PROVE  paid[o] <= before[o] + Cardinality(early[o])
      BY DEF LatePaysAreEarly
    <2>1. paid[o] + Cardinality(Listing(o)) <= before[o] + Cardinality(early[o])
      BY DEF PayBound
    <2>2. paid[o] \in Nat /\ before[o] \in Nat /\ early[o] \subseteq Releases
      BY DEF Agreed, TypeOK
    <2>3. Cardinality(Listing(o)) \in Nat /\ Cardinality(early[o]) \in Nat
      BY <2>2, ListsAreFinite DEF Listing
    <2> QED BY <2>1, <2>2, <2>3
  <1> QED BY <1>1, Inductive, PTL
=============================================================================
