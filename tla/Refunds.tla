------------------------------ MODULE Refunds ------------------------------
(***************************************************************************)
(* The refunds of one delivered order: the rows that buyers and disputes   *)
(* leave, the workers of process_refund(), PaymentProcessor.refund() with  *)
(* its cache lock, and the payment provider behind it.                     *)
(*                                                                         *)
(* The sweep works through a list of rows and the dispute.resolved handler *)
(* takes every pending one, so that next_attempt_at keeps nobody off a row *)
(* and two workers may hold the same one.  Whether the seller's balance,   *)
(* the pending balance or the platform pays is left out, and so is the     *)
(* provider's test mode.                                                   *)
(***************************************************************************)
EXTENDS Integers

CONSTANTS Rows,        \* the Refund rows that may be created
          AmountOf,
          Disputed,      \* those of resolve_dispute(); the others are buyers' requests
          Workers,
          MaxAttempts,   \* Refund.max_attempts
          MaxFaults      \* bound on crashes and failed transactions

ASSUME RefundsAssumption ==
  /\ AmountOf \in [Rows -> Nat \ {0}]
  /\ Disputed \subseteq Rows
  /\ MaxAttempts \in Nat \ {0} /\ MaxFaults \in Nat

VARIABLES
  refund,    \* status by row, "none" or "asked" before there is one
  attempts,
  payment,   \* the Payment's status; "none" for an order without one that was confirmed
  locked,    \* the cache key refund_lock:{payment}
  paidOut,   \* the provider: amounts it has refunded, its keys being refund_{payment}_{amount}
  at,        \* by worker
  row,       \* by worker: the row it holds
  outcome,   \* by worker: what refund() returned or raised
  (* Observation. *)
  debits,    \* how often the seller was debited
  faults

job  == <<at, row, outcome>>
refundVars == <<refund, attempts, payment, locked, paidOut, job, debits, faults>>

Settled  == {"processed", "rejected", "failed"}
Places   == {"idle", "check", "call", "settle", "release", "record"}
Outcomes == {"none", "ok", "transient", "permanent"}

RefundInit ==
  /\ refund   = [r \in Rows |-> "none"]
  /\ attempts = [r \in Rows |-> 0]
  /\ payment \in {"none", "confirmed"}
  /\ locked = FALSE /\ paidOut = {}
  /\ at      = [w \in Workers |-> "idle"]
  /\ row     \in [Workers -> Rows]
  /\ outcome = [w \in Workers |-> "none"]
  /\ debits = 0 /\ faults = 0

-----------------------------------------------------------------------------
(* Rows *)

\* RequestRefundView looks for a pending refund of a delivered order, and
\* get_or_create() in resolve_dispute() for any.
Ask(r) ==
  /\ refund[r] = "none"
  /\ IF r \in Disputed
       THEN \A s \in Rows : refund[s] \in {"none", "asked"}
       ELSE payment # "refunded" /\ \A s \in Rows : refund[s] # "pending"
  /\ refund' = [refund EXCEPT ![r] = "asked"]
  /\ UNCHANGED <<attempts, payment, locked, paidOut, job, debits, faults>>

\* It inserts its own.
Create(r) ==
  /\ refund[r] = "asked"
  /\ refund' = [refund EXCEPT ![r] = "pending"]
  /\ UNCHANGED <<attempts, payment, locked, paidOut, job, debits, faults>>

-----------------------------------------------------------------------------
(* process_refund() and PaymentProcessor.refund() *)

\* Mutant: the attempt is not counted.
NotCounted(n) == n

Attempted(n) == n + 1

\* The first transaction: the row is pending, and the attempt is counted.
Begin(w, r) ==
  /\ at[w] = "idle" /\ refund[r] = "pending"
  /\ attempts' = [attempts EXCEPT ![r] = Attempted(@)]
  /\ at'  = [at EXCEPT ![w] = "check"]
  /\ row' = [row EXCEPT ![w] = r]
  /\ UNCHANGED <<refund, payment, locked, paidOut, outcome, debits, faults>>

Proceed(w, place, result) ==
  /\ at' = [at EXCEPT ![w] = place]
  /\ outcome' = [outcome EXCEPT ![w] = result]
  /\ UNCHANGED row

\* "No confirmed payment found", "Refund already in progress", or the lock is taken.
Check(w) ==
  /\ at[w] = "check"
  /\ \/ payment = "none" /\ Proceed(w, "record", "permanent") /\ UNCHANGED locked
     \/ payment # "none" /\ locked /\ Proceed(w, "record", "transient") /\ UNCHANGED locked
     \/ payment # "none" /\ ~locked /\ Proceed(w, "call", "none") /\ locked' = TRUE
  /\ UNCHANGED <<refund, attempts, payment, paidOut, debits, faults>>

\* Mutant: the local block first, the provider afterwards.
LocalFirst(w) ==
  /\ at[w] = "call"
  /\ Proceed(w, "settle", "none")
  /\ UNCHANGED <<refund, attempts, payment, locked, paidOut, debits, faults>>

\* The provider refunds, or replays the refund of the same amount.
Call(w) ==
  /\ at[w] = "call"
  /\ paidOut' = paidOut \cup {AmountOf[row[w]]}
  /\ Proceed(w, "settle", "none")
  /\ UNCHANGED <<refund, attempts, payment, locked, debits, faults>>

\* Mutant: an error that is not the gateway's own verdict counts as permanent.
GivesUp == "permanent"

\* What is not in _PERMANENT_REASONS is tried again.
Retries == "transient"

\* The call raises: the provider did not hear of it, or its answer was lost.
CallRaises(w) ==
  /\ at[w] = "call"
  /\ paidOut' \in {paidOut, paidOut \cup {AmountOf[row[w]]}}
  /\ Proceed(w, "release", Retries)
  /\ UNCHANGED <<refund, attempts, payment, locked, debits, faults>>

\* Mutant: the payment as it was before the call, not fetched again under its lock.
SettledBefore(w) == FALSE

\* The payment is REFUNDED already.
Replayed(w) == payment = "refunded"

\* The local block: a replay is only logged; else the seller is debited and the payment
\* becomes REFUNDED.
Settle(w) ==
  /\ at[w] = "settle"
  /\ debits' = IF Replayed(w) THEN debits ELSE debits + 1
  /\ payment' = "refunded"
  /\ Proceed(w, "release", "ok")
  /\ UNCHANGED <<refund, attempts, locked, paidOut, faults>>

\* The block is rolled back, its event with it.
SettleFails(w) ==
  /\ at[w] = "settle"
  /\ faults < MaxFaults /\ faults' = faults + 1
  /\ Proceed(w, "release", Retries)
  /\ UNCHANGED <<refund, attempts, payment, locked, paidOut, debits>>

\* finally: the key is deleted, whoever set it.
Unlock(w) ==
  /\ at[w] = "release"
  /\ locked' = FALSE
  /\ Proceed(w, "record", outcome[w])
  /\ UNCHANGED <<refund, attempts, payment, paidOut, debits, faults>>

\* What the second transaction makes of the row; "pending" is a retry.
Recorded(r, result) ==
  CASE result = "ok"        -> "processed"
    [] result = "permanent" -> "rejected"
    [] OTHER                -> IF attempts[r] >= MaxAttempts THEN "failed" ELSE refund[r]

\* The second transaction locks the row and does not look at its status.
Record(w) ==
  /\ at[w] = "record"
  /\ refund' = [refund EXCEPT ![row[w]] = Recorded(row[w], outcome[w])]
  /\ Proceed(w, "idle", "none")
  /\ UNCHANGED <<attempts, payment, locked, paidOut, debits, faults>>

\* The worker dies; the lock stays until its minute is over.
Crash(w) ==
  /\ at[w] # "idle"
  /\ faults < MaxFaults /\ faults' = faults + 1
  /\ Proceed(w, "idle", "none")
  /\ UNCHANGED <<refund, attempts, payment, locked, paidOut, debits>>

\* The 60 seconds of the lock are over, with its holder dead or only slow.
LockExpires ==
  /\ locked /\ locked' = FALSE
  /\ UNCHANGED <<refund, attempts, payment, paidOut, job, debits, faults>>

-----------------------------------------------------------------------------
Step(w) ==
  \/ Check(w) \/ Call(w) \/ CallRaises(w)
  \/ Settle(w) \/ SettleFails(w) \/ Unlock(w) \/ Record(w)

RefundNext ==
  \/ \E r \in Rows : Ask(r) \/ Create(r) \/ \E w \in Workers : Begin(w, r)
  \/ \E w \in Workers : Step(w) \/ Crash(w)
  \/ LockExpires

\* A worker that lives goes on, the sweep comes back to every pending row, and the
\* cache drops a key that is over.
RefundFairness ==
  /\ \A w \in Workers : WF_refundVars(Step(w))
  /\ \A r \in Rows : WF_refundVars(\E w \in Workers : Begin(w, r))
  /\ WF_refundVars(LockExpires)

RefundSpec     == RefundInit /\ [][RefundNext]_refundVars
RefundFairSpec == RefundSpec /\ RefundFairness

-----------------------------------------------------------------------------
(* Properties *)

RefundTypeOK ==
  /\ refund \in [Rows -> {"none", "asked", "pending"} \cup Settled]
  /\ attempts \in [Rows -> Nat]
  /\ payment \in {"none", "confirmed", "refunded"}
  /\ locked \in BOOLEAN
  /\ paidOut \subseteq {AmountOf[r] : r \in Rows}
  /\ at \in [Workers -> Places] /\ row \in [Workers -> Rows]
  /\ outcome \in [Workers -> Outcomes]
  /\ debits \in Nat /\ faults \in Nat

\* The seller is debited once for the order, however many rows, retries and workers
\* there are, and although the lock may expire under its holder.
DebitedOnce == debits <= 1

\* Gateway first: the seller is debited, the payment is REFUNDED and a row processed
\* only when the provider has paid, the row's own amount for the row.
GatewayFirst ==
  /\ payment = "refunded" \/ debits > 0 => paidOut # {}
  /\ \A r \in Rows : refund[r] = "processed" => AmountOf[r] \in paidOut

\* Every refund row is settled in the end, whatever the provider answers.
Settles == \A r \in Rows : refund[r] = "pending" ~> refund[r] \in Settled

\* Once the provider has paid, the retries bring the payment to REFUNDED, or use up
\* the attempts of a row.
DriftIsRetried == paidOut # {} ~> payment = "refunded" \/ \E r \in Rows : refund[r] = "failed"

\* What a worker has settled, or is about to, the provider has paid.
Backed(w) ==
  /\ at[w] = "settle" \/ outcome[w] = "ok" => AmountOf[row[w]] \in paidOut
  /\ at[w] = "idle" => outcome[w] = "none"

\* The strengthening: the debit goes with the REFUNDED payment, and both with the
\* provider's answer.
PayInv ==
  /\ debits = (IF payment = "refunded" THEN 1 ELSE 0)
  /\ payment = "refunded" => paidOut # {}
  /\ \A w \in Workers : Backed(w)
  /\ \A r \in Rows : refund[r] = "processed" => AmountOf[r] \in paidOut
=============================================================================
