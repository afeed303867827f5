------------------------------- MODULE Orders -------------------------------
(***************************************************************************)
(* The life of one order after checkout: payment confirmation, the buyer's *)
(* cancellation, the seller's updates, the beat tasks that expire, reap,   *)
(* escalate and complete orders, and what all of them do to the stock the  *)
(* order took.                                                             *)
(*                                                                         *)
(* Everybody moves the order through transition(), which validates against *)
(* the locked row, except the reaper and the auto-completion, which write  *)
(* the status; the views decide on a copy they read before.  The units, the*)
(* store credit and the coupons of the order come back together and count  *)
(* as one.  Escrow, returns and Buyer Protection deadlines are left out.   *)
(*                                                                         *)
(* Transactions interleave as on PostgreSQL.  confirm_payment() locks the  *)
(* payment outside of one, which SQLite ignores and PostgreSQL refuses: it *)
(* raises there, and no payment is ever confirmed (LocksRefused).  A       *)
(* database that refuses has fewer behaviours and is asked no more         *)
(* fairness, so that what holds with LocksRefused = FALSE holds with both. *)
(***************************************************************************)
EXTENDS Integers, FiniteSets

CONSTANTS Cancels,       \* requests to CancelOrderView
          Updates,       \* requests that move the order on
          Confirmations, \* runs of reconcile_order()
          LocksRefused   \* the database refuses a lock outside of a transaction

ASSUME OrderAssumption == IsFiniteSet(Confirmations) /\ LocksRefused \in BOOLEAN

VARIABLES
  (* The Order and its Payment. *)
  status, payment_status, stock_restored,
  payment,    \* "pending" or "confirmed"
  charged,    \* the provider has the buyer's money
  held,       \* how often the seller's earnings were put on hold
  returned,   \* how often the order's stock was put back
  (* Those who decided on what they read. *)
  at,         \* by cancellation
  wanted,     \* by update: the status it will ask for, or "none"
  confirming, \* confirmations that read the provider's and the payment's status
  overdue,    \* check_seller_shipping_deadlines() has it on its list
  reaper,     \* "idle", "listed", or "open" inside the saga's transaction
  reaped      \* the saga has committed

gathered == <<at, wanted, confirming, overdue, reaper, reaped>>
orderVars == <<status, payment_status, stock_restored, payment, charged, held, returned, gathered>>

Gone     == {"shipped", "delivered", "completed"}
Statuses == {"pending", "confirmed", "processing", "payment_failed", "cancelled", "refunded"} \cup Gone

\* STATUS_GRAPH.
Graph ==
  { <<"pending", s>>        : s \in {"confirmed", "cancelled", "payment_failed"} } \cup
  { <<"confirmed", s>>      : s \in {"processing", "cancelled", "refunded"} } \cup
  { <<"processing", s>>     : s \in {"shipped", "cancelled", "refunded"} } \cup
  { <<"shipped", s>>        : s \in {"delivered", "refunded"} } \cup
  { <<"delivered", s>>      : s \in {"completed", "refunded"} } \cup
  { <<"payment_failed", s>> : s \in {"pending", "cancelled"} }

\* What checkout leaves.
OrderInit ==
  /\ status = "pending" /\ payment_status = "pending" /\ stock_restored = FALSE
  /\ payment = "pending" /\ charged = FALSE /\ held = 0 /\ returned = 0
  /\ at = [c \in Cancels |-> "start"]
  /\ wanted = [u \in Updates |-> "none"]
  /\ confirming = {} /\ overdue = FALSE
  /\ reaper = "idle" /\ reaped = FALSE

-----------------------------------------------------------------------------
(* transition() *)

\* Mutant: the caller's copy is validated, not the locked row.
LegalOnCopy(new) == \E old \in Statuses : <<old, new>> \in Graph

Legal(new) == <<status, new>> \in Graph

\* The move, or InvalidTransition.
Move(new) == status' = IF Legal(new) THEN new ELSE status

-----------------------------------------------------------------------------
(* Payment *)

\* The buyer pays at the provider.
Charge ==
  /\ ~charged /\ charged' = TRUE
  /\ UNCHANGED <<status, payment_status, stock_restored, payment, held, returned, gathered>>

\* Mutant: the status of the payment is not looked at.
ConfirmedOrNot == TRUE

NotConfirmed == payment = "pending"

\* reconcile_order(): the provider says paid, and confirm_payment() finds the
\* payment not confirmed; its lock, taken before its transaction begins, raises or
\* holds nobody.
ConfirmReads(k) ==
  /\ ~LocksRefused
  /\ charged /\ NotConfirmed /\ k \notin confirming
  /\ confirming' = confirming \cup {k}
  /\ UNCHANGED <<status, payment_status, stock_restored, payment, charged, held, returned,
                 at, wanted, overdue, reaper, reaped>>

\* The transaction: an order that cannot become confirmed is paid all the same, and
\* the seller's earnings are put on hold.
ConfirmWrites(k) ==
  /\ k \in confirming
  /\ confirming' = confirming \ {k}
  /\ payment' = "confirmed" /\ payment_status' = "paid"
  /\ Move("confirmed")
  /\ held' = held + 1
  /\ UNCHANGED <<stock_restored, charged, returned, at, wanted, overdue, reaper, reaped>>

\* PaymentProcessor.refund() of an order that was sent, as admin_override.
Refunded ==
  /\ payment = "confirmed" /\ status \in Gone
  /\ status' = "refunded"
  /\ UNCHANGED <<payment_status, stock_restored, payment, charged, held, returned, gathered>>

-----------------------------------------------------------------------------
(* The buyer cancels *)

PutBack == returned + 1

\* Mutant: the flag is not looked at.
NeverRestored == FALSE

AlreadyRestored == stock_restored

\* Mutant: _NON_RESTORABLE_STATUSES is not looked at.
AlwaysRestorable == TRUE

Restorable == status \notin Gone

\* The view's own look at the status.
CancelReads(c) ==
  /\ at[c] = "start" /\ status \in {"pending", "confirmed"}
  /\ at' = [at EXCEPT ![c] = "read"]
  /\ UNCHANGED <<status, payment_status, stock_restored, payment, charged, held, returned,
                 wanted, confirming, overdue, reaper, reaped>>

\* restore_order(), a transaction of its own: done, done before, or refused.
CancelRestores(c) ==
  /\ at[c] = "read"
  /\ at' = [at EXCEPT ![c] = IF Restorable THEN "restored" ELSE "done"]
  /\ IF Restorable /\ ~AlreadyRestored
       THEN returned' = PutBack /\ stock_restored' = TRUE
       ELSE UNCHANGED <<returned, stock_restored>>
  /\ UNCHANGED <<status, payment_status, payment, charged, held, wanted, confirming, overdue,
                 reaper, reaped>>

\* update_status("cancelled"); where the order moved on, only this raises.
CancelMoves(c) ==
  /\ at[c] = "restored"
  /\ at' = [at EXCEPT ![c] = "done"]
  /\ Move("cancelled")
  /\ UNCHANGED <<payment_status, stock_restored, payment, charged, held, returned,
                 wanted, confirming, overdue, reaper, reaped>>

-----------------------------------------------------------------------------
(* The order moves on *)

\* The next status by UpdateOrderStatusView, the batch of shipments and the buyer's
\* confirmation of the delivery.
NextStatus ==
  CASE status = "confirmed"  -> {"processing", "shipped"}
    [] status = "processing" -> {"shipped"}
    [] status = "shipped"    -> {"delivered"}
    [] OTHER                 -> {}

UpdateReads(u) ==
  /\ wanted[u] = "none"
  /\ \E new \in NextStatus : wanted' = [wanted EXCEPT ![u] = new]
  /\ UNCHANGED <<status, payment_status, stock_restored, payment, charged, held, returned,
                 at, confirming, overdue, reaper, reaped>>

UpdateMoves(u) ==
  /\ wanted[u] # "none"
  /\ wanted' = [wanted EXCEPT ![u] = "none"]
  /\ Move(wanted[u])
  /\ UNCHANGED <<payment_status, stock_restored, payment, charged, held, returned, at, confirming,
                 overdue, reaper, reaped>>

\* auto_complete_old_orders().
Complete ==
  /\ status = "delivered" /\ status' = "completed"
  /\ UNCHANGED <<payment_status, stock_restored, payment, charged, held, returned, gathered>>

-----------------------------------------------------------------------------
(* Beat tasks *)

\* Mutant: the tasks look for failed payments.
UnpaidFailed == status = "pending" /\ payment_status = "failed"

Unpaid == status = "pending" /\ payment_status = "pending"

\* expire_unpaid_orders(), past the method's time to pay; the stock is left alone.
ExpireUnpaid ==
  /\ Unpaid
  /\ Move("payment_failed")
  /\ UNCHANGED <<payment_status, stock_restored, payment, charged, held, returned, gathered>>

\* check_seller_shipping_deadlines() lists a warned order.
Escalate ==
  /\ status = "confirmed" /\ ~overdue /\ overdue' = TRUE
  /\ UNCHANGED <<status, payment_status, stock_restored, payment, charged, held, returned,
                 at, wanted, confirming, reaper, reaped>>

\* It cancels the order; the stock is left alone.
EscalateMoves ==
  /\ overdue /\ overdue' = FALSE
  /\ Move("cancelled")
  /\ UNCHANGED <<payment_status, stock_restored, payment, charged, held, returned,
                 at, wanted, confirming, reaper, reaped>>

\* reap_abandoned_checkouts() lists the order.
ReapLists ==
  /\ reaper = "idle" /\ Unpaid /\ reaper' = "listed"
  /\ UNCHANGED <<status, payment_status, stock_restored, payment, charged, held, returned,
                 at, wanted, confirming, overdue, reaped>>

\* The saga's transaction begins: a paid order is left alone, and the provider is
\* never asked, for the import of its service fails and that is swallowed.
ReapReads ==
  /\ reaper = "listed"
  /\ reaper' = IF payment_status = "paid" THEN "idle" ELSE "open"
  /\ UNCHANGED <<status, payment_status, stock_restored, payment, charged, held, returned,
                 at, wanted, confirming, overdue, reaped>>

\* The stock is put back, flag or no flag, and the order cancelled, whatever it is.
ReapWrites ==
  /\ reaper = "open" /\ reaper' = "idle" /\ reaped' = TRUE
  /\ returned' = PutBack
  /\ status' = "cancelled" /\ payment_status' = "failed"
  /\ UNCHANGED <<stock_restored, payment, charged, held, at, wanted, confirming, overdue>>

-----------------------------------------------------------------------------
OrderNext ==
  \/ Charge \/ Refunded \/ Complete
  \/ \E k \in Confirmations : ConfirmReads(k) \/ ConfirmWrites(k)
  \/ \E c \in Cancels : CancelReads(c) \/ CancelRestores(c) \/ CancelMoves(c)
  \/ \E u \in Updates : UpdateReads(u) \/ UpdateMoves(u)
  \/ ExpireUnpaid \/ Escalate \/ EscalateMoves
  \/ ReapLists \/ ReapReads \/ ReapWrites

\* The beat schedule comes back to every order, and a request that began ends.
OrderFairness ==
  /\ WF_orderVars(ExpireUnpaid) /\ WF_orderVars(ReapLists \/ ReapReads \/ ReapWrites)
  /\ \A c \in Cancels : WF_orderVars(CancelRestores(c) \/ CancelMoves(c))

OrderSpec     == OrderInit /\ [][OrderNext]_orderVars
OrderFairSpec == OrderSpec /\ OrderFairness

-----------------------------------------------------------------------------
(* Properties *)

OrderTypeOK ==
  /\ status \in Statuses /\ payment_status \in {"pending", "paid", "failed"}
  /\ stock_restored \in BOOLEAN /\ charged \in BOOLEAN
  /\ overdue \in BOOLEAN /\ reaped \in BOOLEAN
  /\ payment \in {"pending", "confirmed"}
  /\ held \in Nat /\ returned \in Nat
  /\ at \in [Cancels -> {"start", "read", "restored", "done"}]
  /\ wanted \in [Updates -> Statuses \cup {"none"}]
  /\ confirming \subseteq Confirmations
  /\ reaper \in {"idle", "listed", "open"}

\* However many cancellations race, restore_order() puts the stock back once, and the
\* flag says so; what came back beyond that is the reaper's, which does not know the
\* flag and comes once.
ReturnedOnce == returned = (IF stock_restored THEN 1 ELSE 0) + (IF reaped THEN 1 ELSE 0)

StepShipsOrRestocks ==
  /\ (status # "shipped" /\ status' = "shipped") =>
       (returned = 0 \/ \E c \in Cancels : at[c] = "restored")
  /\ (returned' # returned) => (status \notin Gone \/ reaper = "open")

\* A parcel leaves with its stock counted as sold, unless a cancellation that put it
\* back has not reached its second transaction; and once it has left, only the
\* reaper's transaction puts the stock back.
ShippedOrRestocked == [][StepShipsOrRestocks]_orderVars

\* The strengthening for both: the reaper comes once, for its visit ends the pending
\* payment it looks for; and stock that came back belongs to an order that is off the
\* way to "shipped", unless a cancellation is between its transactions.
Ended == Gone \cup {"cancelled", "refunded"}

RestockInv ==
  /\ ReturnedOnce
  /\ reaped => payment_status # "pending" /\ reaper = "idle"
  /\ returned > 0 => status \in Ended \/ \E c \in Cancels : at[c] = "restored"

\* An order that was cancelled or refunded never moves again, whatever copies the
\* seller, the buyer and the beat tasks decide on.
OverIsOver ==
  [][(status \in {"cancelled", "refunded"}) => (status' \in {"cancelled", "refunded"})]_status

\* Runs of reconcile_order() that overlap may each put the seller's earnings on hold for
\* the same payment, in any order with a cancellation; but each does so once, and none
\* that begins after the payment was confirmed.
HeldByReaders == held + Cardinality(confirming) <= Cardinality(Confirmations)

\* The strengthening for it.
HeldInv == HeldByReaders /\ (payment = "pending" => held = 0)

\* No order stays pending: paid or not, the tasks settle it.
PendingEnds == status = "pending" ~> status # "pending"

(* What the repository says, and the code does not do. *)

\* "Inventory is restored via the cancellation handler" (expire_unpaid_orders).
StockComesBack == status \in {"payment_failed", "cancelled"} ~> returned > 0
=============================================================================
