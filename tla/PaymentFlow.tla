---------------------------- MODULE PaymentFlow ----------------------------
(***************************************************************************)
(* The payment flows of payments_angola: creation, confirmation, failure,  *)
(* bank proofs, the sweeps that expire unpaid flows, and refunds.          *)
(*                                                                         *)
(* confirm_reference_payment and handle_push_result lock the flow and read *)
(* it afresh.  Everybody else checks ALLOWED_TRANSITIONS against a copy    *)
(* that was read before, and saves over whatever the row holds by then: a  *)
(* sweep works through a list, a call through the object it was given.     *)
(* Cash on delivery and split payments are left out.                       *)
(***************************************************************************)
EXTENDS Integers

CONSTANTS Flows,
          Method,        \* "mcx_reference", "mcx_push" or "bank_transfer"
          Amount,
          Calls,         \* of upload_bank_proof, verify_bank_proof, create_refund
          Kind, Target,  \* what a call does, and its flow
          RefundCents,   \* how much it refunds
          Buyerless,     \* flows whose buyer was deleted
          Sweeps         \* runs of expire_references and of run_dunning

ASSUME FlowAssumption ==
  /\ Method \in [Flows -> {"mcx_reference", "mcx_push", "bank_transfer"}]
  /\ Amount \in [Flows -> Nat \ {0}]
  /\ Kind \in [Calls -> {"upload", "verify", "refund"}]
  /\ Target \in [Calls -> Flows]
  /\ RefundCents \in [Calls -> Nat \ {0}]
  /\ Buyerless \subseteq Flows

VARIABLES
  (* PaymentFlow and BankTransferProof rows. *)
  status,
  paidAt,    \* flows with paid_at
  refunded,  \* refunded_cents
  due,       \* flows whose expires_at has passed
  proofs,    \* flows with a proof to verify
  verified,  \* flows with a proof verified
  (* Wallet entries of refunds. *)
  keys,      \* by flow, the totals in the keys "refund:{flow}:{total}"
  credited,  \* by flow, what was credited
  queued,    \* by flow, what was queued for a payout that finance executes
  (* Writers. *)
  listed,    \* by sweep, the flows still to expire
  pc, copy,  \* by call: its progress, and the flow it was given
  (* Observation. *)
  confirmed  \* flows confirmed by the provider for the exact amount

rows  == <<status, paidAt, refunded>>
bank  == <<proofs, verified>>
purse == <<keys, credited, queued>>
work  == <<listed, pc, copy>>
flowVars == <<rows, due, bank, purse, work, confirmed>>

Open    == {"awaiting", "processing"}
Success == {"paid", "partially_refunded", "refunded"}
States  == Open \cup Success \cup {"failed", "expired"}

\* ALLOWED_TRANSITIONS without cash on delivery, of the statuses that a transaction
\* leaves: what it passes through (REFUND_PENDING, PROCESSING) is not seen outside it.
Allowed ==
  { <<"awaiting", "processing">>, <<"awaiting", "paid">>, <<"awaiting", "expired">>,
    <<"processing", "paid">>, <<"processing", "failed">>,
    <<"paid", "partially_refunded">>, <<"paid", "refunded">>,
    <<"partially_refunded", "partially_refunded">>, <<"partially_refunded", "refunded">> }

\* What the creation of a flow leaves: a push is sent at once, the others wait for
\* the buyer.  The key of the request makes it one flow.
Created(f) == IF Method[f] = "mcx_push" THEN "processing" ELSE "awaiting"

NoCopy(c) == [status |-> Created(Target[c]), refunded |-> 0]

FlowInit ==
  /\ status   = [f \in Flows |-> Created(f)]
  /\ refunded = [f \in Flows |-> 0]
  /\ credited = [f \in Flows |-> 0]
  /\ queued   = [f \in Flows |-> 0]
  /\ keys     = [f \in Flows |-> {}]
  /\ paidAt = {} /\ due = {} /\ proofs = {} /\ verified = {} /\ confirmed = {}
  /\ listed = [s \in Sweeps |-> {}]
  /\ pc     = [c \in Calls |-> "start"]
  /\ copy   = [c \in Calls |-> NoCopy(c)]

-----------------------------------------------------------------------------
(* Helpers. *)

\* Mutant: transition() saves without looking at the table.
LegalAlways(from, to) == TRUE

\* can_transition(), on the status the writer has.
Legal(from, to) == <<from, to>> \in Allowed

\* transition() saves the status, and paid_at with PAID.
Save(f, new) ==
  /\ status' = [status EXCEPT ![f] = new]
  /\ paidAt' = IF new = "paid" THEN paidAt \cup {f} ELSE paidAt

-----------------------------------------------------------------------------
(* Time, and the provider's result *)

\* The expires_at of a flow passes; a push has none.
Elapse(f) ==
  /\ Method[f] # "mcx_push" /\ f \notin due
  /\ due' = due \cup {f}
  /\ UNCHANGED <<rows, bank, purse, work, confirmed>>

\* confirm_reference_payment() raises IllegalTransition, also for a payment that
\* came after the expiry, which its comment marks paid.
ConfirmRaises(f, exact) == exact /\ status[f] # "paid" /\ ~Legal(status[f], "paid")

\* It returns: already paid, another amount, or paid now.
Confirm(f, exact) ==
  /\ IF status[f] # "paid" /\ exact THEN Save(f, "paid") ELSE UNCHANGED <<status, paidAt>>
  /\ confirmed' = IF exact THEN confirmed \cup {f} ELSE confirmed
  /\ UNCHANGED <<refunded, due, bank, purse, work>>

\* handle_push_result(success=False) raises IllegalTransition.
PushFailedRaises(f) == status[f] \notin {"paid", "failed"} /\ ~Legal(status[f], "failed")

\* It returns: settled already, or failed now.
PushFailed(f) ==
  /\ IF status[f] \notin {"paid", "failed"} THEN Save(f, "failed") ELSE UNCHANGED <<status, paidAt>>
  /\ UNCHANGED <<refunded, due, bank, purse, work, confirmed>>

-----------------------------------------------------------------------------
(* Sweeps *)

\* expire_references() and run_dunning() list the unpaid flows past their TTL.
SweepLists(s) ==
  /\ listed[s] = {}
  /\ listed' = [listed EXCEPT ![s] = {f \in due : status[f] = "awaiting"}]
  /\ UNCHANGED <<rows, due, bank, purse, pc, copy, confirmed>>

\* One of them is expired: its copy is AWAITING_PAYMENT, whatever the row is by now.
SweepExpires(s, f) ==
  /\ f \in listed[s]
  /\ Save(f, "expired")
  /\ listed' = [listed EXCEPT ![s] = @ \ {f}]
  /\ UNCHANGED <<refunded, due, bank, purse, pc, copy, confirmed>>

\* The worker dies in the middle of the list.
SweepDies(s) ==
  /\ listed[s] # {}
  /\ listed' = [listed EXCEPT ![s] = {}]
  /\ UNCHANGED <<rows, due, bank, purse, pc, copy, confirmed>>

-----------------------------------------------------------------------------
(* Calls *)

\* The call gets its flow: the view's query, the proof's flow, the caller's object.
Load(c) ==
  LET f == Target[c] IN
  /\ pc[c] = "start"
  /\ Kind[c] = "upload" => Method[f] = "bank_transfer"
  /\ Kind[c] = "verify" => f \in proofs
  /\ pc'   = [pc EXCEPT ![c] = "loaded"]
  /\ copy' = [copy EXCEPT ![c] = [status |-> status[f], refunded |-> refunded[f]]]
  /\ UNCHANGED <<rows, due, bank, purse, listed, confirmed>>

Return(c) ==
  /\ pc'   = [pc EXCEPT ![c] = "done"]
  /\ copy' = [copy EXCEPT ![c] = NoCopy(c)]
  /\ UNCHANGED <<due, listed, confirmed>>

\* upload_bank_proof()
Upload(c) ==
  LET f == Target[c] IN
  /\ pc[c] = "loaded" /\ Kind[c] = "upload"
  /\ proofs' = proofs \cup {f}
  /\ IF copy[c].status = "awaiting" THEN Save(f, "processing") ELSE UNCHANGED <<status, paidAt>>
  /\ Return(c)
  /\ UNCHANGED <<refunded, verified, purse>>

\* verify_bank_proof() with decision "verify"; a rejection leaves the flow alone.
Verify(c) ==
  LET f == Target[c] IN
  /\ pc[c] = "loaded" /\ Kind[c] = "verify"
  /\ \/ /\ verified' = verified \cup {f}
        /\ IF copy[c].status = "processing" THEN Save(f, "paid") ELSE UNCHANGED <<status, paidAt>>
     \/ UNCHANGED <<verified, status, paidAt>>
  /\ Return(c)
  /\ UNCHANGED <<refunded, proofs, purse>>

\* Mutant: the refund is keyed by its own amount.
KeyOfAmount(c) == RefundCents[c]

\* The total in the key of the refund's wallet entry.
Total(c) == copy[c].refunded + RefundCents[c]

\* Mutant: the status of the flow is not looked at.
RefundableAny(c) == copy[c].refunded + RefundCents[c] <= Amount[Target[c]]

\* What create_refund() checks on its copy.
Refundable(c) ==
  /\ copy[c].status \in {"paid", "partially_refunded"}
  /\ copy[c].refunded + RefundCents[c] <= Amount[Target[c]]

\* REFUND_ROUTING, unless the caller names a target; the wallet needs a buyer.
Routing(f) == IF Method[f] = "bank_transfer" THEN "bank" ELSE "wallet"

ToWallet(f, target) ==
  /\ target = "wallet" \/ (target = "none" /\ Routing(f) = "wallet")
  /\ f \notin Buyerless

\* The credit is a no-op if its key has an entry.
Credit(f, key, cents) ==
  /\ keys'     = [keys EXCEPT ![f] = @ \cup {key}]
  /\ credited' = [credited EXCEPT ![f] = IF key \in keys[f] THEN @ ELSE @ + cents]
  /\ UNCHANGED queued

\* "queued_for_payout": nothing but the event log says so.
Queue(f, cents) ==
  /\ queued' = [queued EXCEPT ![f] = @ + cents]
  /\ UNCHANGED <<keys, credited>>

\* create_refund(), with the target its caller names or none.
Refund(c) ==
  LET f == Target[c]
      total == copy[c].refunded + RefundCents[c] IN
  /\ pc[c] = "loaded" /\ Kind[c] = "refund" /\ Refundable(c)
  /\ \E target \in {"none", "wallet", "bank"} :
       IF ToWallet(f, target) THEN Credit(f, Total(c), RefundCents[c])
                              ELSE Queue(f, RefundCents[c])
  /\ refunded' = [refunded EXCEPT ![f] = total]
  /\ Save(f, IF total >= Amount[f] THEN "refunded" ELSE "partially_refunded")
  /\ Return(c)
  /\ UNCHANGED bank

\* "not_refundable" or "exceeds_paid_amount".
RefundRefused(c) ==
  /\ pc[c] = "loaded" /\ Kind[c] = "refund" /\ ~Refundable(c)
  /\ Return(c)
  /\ UNCHANGED <<rows, bank, purse>>

-----------------------------------------------------------------------------
FlowNext ==
  \/ \E f \in Flows : Elapse(f)
  \/ \E s \in Sweeps : SweepLists(s) \/ SweepDies(s) \/ \E f \in Flows : SweepExpires(s, f)
  \/ \E c \in Calls : Load(c) \/ Upload(c) \/ Verify(c) \/ Refund(c) \/ RefundRefused(c)

-----------------------------------------------------------------------------
(* Properties *)

FlowTypeOK ==
  /\ status \in [Flows -> States]
  /\ paidAt \subseteq Flows /\ due \subseteq Flows /\ confirmed \subseteq Flows
  /\ proofs \subseteq Flows /\ verified \subseteq Flows
  /\ refunded \in [Flows -> Nat] /\ credited \in [Flows -> Nat] /\ queued \in [Flows -> Nat]
  /\ keys \in [Flows -> SUBSET Nat]
  /\ listed \in [Sweeps -> SUBSET Flows]
  /\ pc \in [Calls -> {"start", "loaded", "done"}]
  /\ copy \in [Calls -> [status : States, refunded : Nat]]

\* A flow is paid, and money goes back for it, only if the provider confirmed its
\* exact amount or a bank proof was verified, whatever statuses are overwritten.
PaidIsBacked ==
  \A f \in Flows :
    f \in paidAt \/ status[f] \in Success \/ credited[f] + queued[f] > 0 =>
      f \in confirmed \cup verified

\* What a flow says it refunded was credited to the buyer's wallet or queued for a
\* payout, although racing refunds overwrite refunded_cents and share keys.
RefundedIsCredited == \A f \in Flows : refunded[f] <= credited[f] + queued[f]

\* The writer of a step: a sweep that expires f, a call on f that returns.
SweepWrites(s, f) == f \in listed[s] \ listed'[s]
CallWrites(c, f)  == Target[c] = f /\ pc[c] = "loaded" /\ pc'[c] = "done"

\* A new status is an edge of ALLOWED_TRANSITIONS from the one that its writer read:
\* the confirmations read the row itself, the sweeps and the calls an older copy.
LegalMove(f) ==
  \/ <<status[f], status'[f]>> \in Allowed
  \/ \E s \in Sweeps : SweepWrites(s, f) /\ <<"awaiting", status'[f]>> \in Allowed
  \/ \E c \in Calls : CallWrites(c, f) /\ <<copy[c].status, status'[f]>> \in Allowed

LegalMoves == \A f \in Flows : status'[f] # status[f] => LegalMove(f)

\* A status leaves ALLOWED_TRANSITIONS only by a writer whose own copy has gone stale, and
\* then by an edge from that copy; in particular a payment that comes after the expiry
\* reactivates nothing, for EXPIRED is terminal in the table.
GraphUnlessStale == [][LegalMoves]_status

\* The strengthening for the refunds: every total that was ever read, and every key, is
\* covered by what was credited or queued.
Covered(f, cents) == cents <= credited[f] + queued[f]

RefundInv ==
  /\ \A f \in Flows : Covered(f, refunded[f]) /\ \A k \in keys[f] : Covered(f, k)
  /\ \A c \in Calls : Covered(Target[c], copy[c].refunded)

\* And for PaidIsBacked: a call that works on a successful flow has read one.
BackedInv ==
  /\ PaidIsBacked
  /\ \A c \in Calls : copy[c].status \in Success => Target[c] \in confirmed \cup verified
=============================================================================
