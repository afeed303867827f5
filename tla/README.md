# A formal model of the Micha backend

Micha is a marketplace: a Django backend with PostgreSQL, Celery workers with a
beat schedule, and web clients.  This directory specifies in TLA+ the parts of
the backend whose correctness depends on the order in which independent
processes act, and checks them in two ways: TLC explores every behaviour of
small instances, and the TLA+ proof system proves the safety properties that
matter most for every value of the constants.

- [1. The system](#1-the-system)
- [2. Modules and the code they model](#2-modules-and-the-code-they-model)
- [3. What the runs check](#3-what-the-runs-check)
- [4. Fairness](#4-fairness)
- [5. What is proved](#5-what-is-proved)
- [6. Where code and documentation disagree](#6-where-code-and-documentation-disagree)
- [7. What is not modelled](#7-what-is-not-modelled)
- [8. Plan](#8-plan)

To check a run: `tlc -config <cfg> <MC module>`; to check the proofs of a
module: `tlapm <module>.tla`.  `PROJECT.json` lists the runs, the mutants that
show each property can fail, the lines each definition models, the hazards and
the theorems.


## 1. The system

Everything is shared state in one PostgreSQL database under READ COMMITTED.
The actors are request threads (gunicorn), Celery workers, operators behind the
admin, and the payment provider's webhooks.  Actors coordinate through row
locks (`select_for_update`), unique constraints, one cache lock, and short
transactions; between two transactions anything may happen, and every actor may
die between any two of them.  `ATOMIC_REQUESTS` is off: a view that opens no
transaction commits every statement by itself.

An order goes through the components like this.  A buyer fills a **cart**;
**checkout**, behind an **idempotency key**, takes stock, coupons and store credit
and leaves one pending **order** per seller with a payment.  The payment is
confirmed by reconciliation, or, for the Angolan methods, a **payment flow** is
confirmed by an **inbound webhook** or a verified bank proof.  The seller ships;
the earnings are **held** and released a week later, unless a **dispute** freezes
them.  Cancellations, expiries and the abandoned-checkout **saga** undo orders;
**refunds** and the buyer's **wallet** pay back.  Everybody announces what
happened through the **outbox**.

### The components that are modelled

| component | state | operations | hard because | correct when |
|---|---|---|---|---|
| Transactional outbox (`outbox`) | `OutboxEvent`: status, attempts, `next_attempt_at`, unique `dedupe_key` | `publish()`, `drain()` in any number of workers, `requeue()`, `requeue_bulk()`, `discard()` | handlers run inside the transaction that marks the event, also when one raises half way; operators requeue under the feet of a drain | nothing is written without the record of the attempt, dispatched means handled, no event is stuck |
| Saga engine (`sagas`) | `Saga`: status, `current_step`, `steps_log`, `payload`, `wait_until` | `start()`, `run()`, `resume()`, `abandon()`, two beat tasks | `run()` is one transaction around all steps; sweeps work from lists read earlier; steps and compensations fail half way | the cursor tells the truth, a terminal status with the log is true and final, every saga ends |
| Idempotency keys (`idempotency`) | `IdempotencyKey`: hash, status, stored response, `expires_at` | `@idempotent` with `claim()`, `complete()`, `abandon()`; hourly sweep | no row to lock for a first claim; the view commits before `complete()`; the layer lets requests through when it fails | a claimed key has one effect, a replay answers the same request, a dead request frees its key |
| Stock reservations (`inventory`) | `quantity`, `is_active` of products and combos; `StockReservation` | reserve, release, commit, `sweep_expired()` | key and cap are looked up unlocked; release, commit and sweeps meet at one row; two owners of `is_active` | no unit is lost or made up, a key holds once, expired holds come back |
| Cart and checkout (`cart`, `orders/checkout.py`) | cart lines, stock, `store_credit`, `used_count`, orders | `AddToCartView`, `execute()` | many rows locked in one transaction; a retry with another key; lines that appear after the lock | last units are sold once, a line becomes one order, credit is spent once, stock locks make no circle but through a combo's product |
| Order life (`orders/state_machine.py`, `tasks.py`, `views.py`, `stock_restore.py`, `saga_defs.py`; `payments/gateway.py`) | order and payment status, `stock_restored` | `transition()`, `restore_order()`, confirmation, cancellation, expiry, escalation, reaping, completion | cancellation is two transactions; tasks work from copies; three ways to undo an order | an order that is over stays over, stock comes back once, a payment is held once for each run that found it unconfirmed, nothing stays pending |
| Refunds (`payments/refund_service.py`, `payments/gateway.py`) | `Refund` rows, payment status, cache lock, the provider's refunds | `process_refund()` in any number of workers, the sweep, requests and disputes | the provider is called between two transactions; its answer may be lost; the lock expires | the seller is debited once, and after the provider paid; every row is settled |
| Payment flows (`payments_angola`) | `PaymentFlow`, bank proofs | confirm, fail, upload, verify, expire, refund | everybody but the confirmations checks a stale copy | money moves only for payments that were made; what is refunded is credited or queued |
| Inbound webhooks (`inbound_webhooks`) | audit row per body, receipt per event | the `@verified_webhook` pipeline | duplicates overlap and come again; a receipt is given back after an error | one handler per event; 200 means handled or being handled |
| Buyer wallet (`payments_angola`, `payment_ops`) | ledger entries by key, cached balance | credit, debit, transfer, top-up, spend, audit | two apps write one balance, and a failing sync of it is swallowed; two rows locked per transfer | the ledger posts each key once and stays non-negative; no deadlock |
| Disputes and seller earnings (`disputes`, `payments/tasks.py`) | dispute, earnings hold, seller's wallet | open, answer, resolve, SLA sweep, release | the release task has no transaction; admin and sweep race | hold, dispute and refund agree; disputed money stays; silence and freezes end while the sweep has a user who may rule |

What each interacts with is in section 2; what is left out is in section 7.

**Locks outside transactions.**  `confirm_payment()`, `release_held_earnings()`, and
two callers that are not modelled (`release_order_escrow()`, `RequestPayoutView`)
use `select_for_update` outside any transaction.  SQLite, on which the tests run,
ignores it; PostgreSQL refuses the query.  In `Orders` and `Disputes` the constant
`LocksRefused` says which database it is: one that refuses, where reconciliation confirms
no payment and no hold is ever released, or one where the lock passes without holding
anybody.  The runs use FALSE.  It has all the behaviours of TRUE and more, and no fairness
is asked of the actions that are missing there, so that what the runs and theorems state
holds of both.


## 2. Modules and the code they model

Each component has a module with its state, its actions and its properties, an
`MC` module with values for the constants, and its theorems in a `Proofs` module:
`StockProofs` has those of `Inventory` and `Orders`, `RefundsProofs` those of `Refunds` and
`Disputes`, `WebhookProofs` those of `PaymentFlow` too.  An
action is named after the function it models, or the part of it between two points
where other processes can act.  Those points are transaction boundaries and, inside a
transaction, the places where READ COMMITTED shows other transactions' commits.
A definition marked *Mutant* is a plausible bug, used to show that a property can
fail; nothing else uses it.

Modules compose in four ways: `Inventory` and `Checkout` share the rows of `StockRows` and
both instantiate `StockLedger`, which both implement;
`Webhook` EXTENDS `PaymentFlow`, so that deliveries
act on the flows; `Wallet` instantiates `KeyedLedger`, which it implements;
`Checkout`, `Orders` and `Disputes` cover an order one after the other: `Checkout`
creates it and gives its parts back, `Orders` decides when, `Disputes` starts from the
hold a confirmation leaves, and `Refunds` from the rows a dispute leaves.

### Outbox

| model | code |
|---|---|
| `status`, `attempts`, `due` | columns of `OutboxEvent`; `due` is `next_attempt_at` minus now |
| `Publish` | `publish()`, as the transaction around it commits |
| `StartDrain`, `Select`, `EndDrain` | `drain()`: the clock read, the loop's `select_for_update(skip_locked=True)`, the end |
| `RunHandler`, `DispatchUnhandled`, `MarkDispatched`, `MarkFailed`, `CommitAttempt` | `dispatch_one()` and the commit around it |
| `AbortAttempt`, `Crash` | the transaction rolls back: a SQL error in a handler, a dead worker |
| `Requeue`, `RequeueBulkRead`, `RequeueBulkUpdate`, `Discard` | `dlq.py` |

Time is relative: `Tick` shifts all timers by one, and an event overdue by `Lag` or
more counts as overdue by `Lag`.  That is enough to order the queue.  `drain()`
compares every row with the one clock value it read before its loop; the model keeps
this as the set `hidden` of rows that are scheduled after that value, to which
whoever schedules a row adds it.  A function that reads the clock and commits later
(`publish`, `requeue`) chooses which of the drains under way began before its clock
read (the parameter `W`).  `ran`, `committed` and `tried` are observations, which no
action reads in its guard, except that `Requeue` uses `tried` to bound `W`.

Handlers are external: a handler returns, raises, or, for keys in `AbortKeys`, fails
with a SQL error that also dooms the transaction.  `dispatch_one()` catches the exception
inside the transaction, without a savepoint: what the handlers before wrote, and what the
raising one had written until then, commits with RETRYING or DEAD (`MarkFailed` chooses
whether it had written anything), and a retry writes it again.

### Saga

| model | code |
|---|---|
| `status`, `current_step` | columns of `Saga` |
| `log` | `steps_log`, as far as it names the steps that raised and where |
| `net`, `outside` | what step i did in and outside the database and is not undone |
| `partial` | the steps that raised, or whose compensation did, after they had written |
| `copy` | the Python object `run()` and `abandon()` work on until they save it |
| `Start`, `Resume` | `start()`, the first transaction of `resume()` |
| `SkipRun`, `BeginRun`, the step and compensation actions, `Emit`, `Commit` | `run()`, `_compensate()`, `_emit_terminal()` |
| `Abandon` | `abandon()`, as `abandon_overdue_sagas` calls it |
| `Crash` | the process dies: the transaction rolls back, `outside` stays |

Step functions are abstract: a step advances, parks the saga, or fails.  The
definition is a parameter (`NumSteps`, `Compensable`), so what is proved holds for
every saga definition.  A step or a compensation that raises may have written before:
`run()` catches the exception inside its one transaction, without a savepoint, and the
partial writes commit with the status.  `partial` records them.

### Idempotency

| model | code |
|---|---|
| `row`, `completed`, `expired` | the `IdempotencyKey` row of a key and who inserted it |
| `ClaimMisses`, `ClaimMismatch`, `ClaimReplays`, `ClaimConflicts` | the select of `claim()` and its four ends |
| `Insert`, `InsertCollides` | the insert of `claim()`, and its unique constraint |
| `ClaimFails` | any other error in `claim()`, which the wrapper lets pass |
| `ViewSucceeds`, `ViewFails`, `Complete`, `Abandon`, `SettleFails` | the rest of the wrapper |
| `Expire`, `Sweep` | the TTL and `sweep_expired_keys` |

A key stands for a (user, key) pair.  The view is external: it commits its effect and
answers 2xx, or leaves nothing behind.  That is an assumption on the views, and
`ClaimedEffectOnce` rests on it: `CancelOrderView` (`orders/views.py:253`) puts the stock back
in one transaction and may fail in the next, so that its key is released with the effect
made.  What saves that view is its own flag `stock_restored`, which `Orders` models.  Requests without key or user are passed
through by the wrapper and are not modelled.

### Inventory

| model | code |
|---|---|
| `quantity`, `active` | the target's row |
| `hold`, `expired` | the `StockReservation` of a call: active, released or committed, both with `is_active` off; `expires_at` has passed |
| `View` | the endpoint's lookup of the product among active ones |
| `LookupHits`, `LookupMisses` | the idempotency lookup of `reserve()` |
| `Count` | the cap on active reservations |
| `Take`, `TakeRefused`, `TakeCollides` | the locked part of `reserve()`, and its unique constraint |
| `ReleaseNow`, `Commit` | `release_reservation()`, `commit_reservation()` |
| `SweepRead`, `SweepNext`, `SweepSkips`, `SweepDies` | `sweep_expired()` |
| `TakeDown`, `Relist` | moderation's hide, the seller's bulk edit and its revert, as far as `is_active` goes |

Low-stock alerts, logging and the legacy variant model are left out.  Release and commit of a reservation are called by the
sweep and by the model's methods only; the model allows them at any time, as the
functions do.

### Checkout

| model | code |
|---|---|
| `cart`, `stock`, `credit`, `used` | `CartItem.quantity`, `quantity` of products and combos, `User.store_credit`, `Coupon.used_count` |
| `orders` | the lines, the store credit and the `stock_restored` flag of the order of a checkout and a seller |
| `plan`, `got` | the rows a transaction locks, in order, and how many of them it has locked |
| `KeyLocks`, `ParentsOf` | the FOR KEY SHARE locks that the commit takes on the products of the order items, a combo's product among them |
| `AddToCart` | `AddToCartView` |
| `Begin`, `LocksCart`, `TakesLock`, `Refused`, `Places` | `_process_checkout()`: the lock of the cart's lines with the first look at the stock, then one lock after the other, the checks under locks, and the commit |
| `BeginCancel`, `LocksOrder`, `Restores` | `restore_order()` |
| `Dies` | a dead worker, or the victim the database picks to break a deadlock |

A transaction writes only rows it has locked, so its writes are one action, at its
commit.  A price per stock row stands for prices, discounts, taxes and shipping; the
split of the store credit keeps `quantize()`'s rounding half to even.  `put` counts
what the buyer put in the cart.  `OrderItem.product` is a foreign key that PostgreSQL checks
at the commit, so a checkout that holds the row of a combo still has to share that of its
product; the rows it has locked itself it need not wait for.  The key shares on users,
addresses and sellers are left out: nothing modelled waits for those while it holds stock.

### StockLedger

What reservations and checkouts promise of stock, without locks, keys, carts, sweeps or
crashes: units leave the shelf in parcels, each packed once and whole (`Pack`, several at
once) and never more of them than are there, and a parcel comes back at most once and
with all it held (`Return`).  A parcel is the reservation of a call, or the order of a
checkout and a seller; what is packed, what is inside and what came back are read off
`hold`, or off `orders` with its `restored` flag.

### Orders

| model | code |
|---|---|
| `status`, `payment_status`, `stock_restored`, `payment` | the columns of `Order` and `Payment` |
| `held` | how often `confirm_payment()` made an `EarningsHold` |
| `Move` | `transition()`, which validates against the locked row |
| `ConfirmReads`, `ConfirmWrites` | `reconcile_order()` up to and from the transaction of `confirm_payment()`; nothing where `LocksRefused` |
| `CancelReads`, `CancelRestores`, `CancelMoves` | `CancelOrderView`: its look, `restore_order()`, `update_status()` |
| `UpdateReads`, `UpdateMoves` | the seller's update, the batch of shipments, the buyer's confirmation |
| `Complete`, `ExpireUnpaid`, `Escalate`, `EscalateMoves` | `auto_complete_old_orders()`, `expire_unpaid_orders()`, `check_seller_shipping_deadlines()` |
| `ReapLists`, `ReapReads`, `ReapWrites` | `reap_abandoned_checkouts()` and the abandoned-checkout saga's transaction |
| `Refunded` | the order's side of `PaymentProcessor.refund()` |

`charged` is the provider's side (external).  `returned` counts how often the order's
stock was put back; units, credit and coupons count as one here.

### Refunds

| model | code |
|---|---|
| `refund`, `attempts` | `Refund.status`, `attempts` |
| `payment`, `locked`, `paidOut` | the payment's status, the cache key `refund_lock:{payment}`, the refunds the provider has made, by amount |
| `Ask`, `Create` | `RequestRefundView` and `resolve_dispute()`: the lookup, the insert |
| `Begin`, `Record` | the two transactions of `process_refund()` |
| `Check`, `Call`, `CallRaises`, `Settle`, `SettleFails`, `Unlock` | `PaymentProcessor.refund()` |
| `Crash`, `LockExpires` | a dead worker, the 60 seconds of the lock |

### PaymentFlow and Webhook

| model | code |
|---|---|
| `status`, `paidAt`, `refunded`, `due` | columns of `PaymentFlow` |
| `keys`, `credited` | the wallet entries of refunds: keys `refund:{flow}:{total}` and the sum |
| `queued` | what `create_refund()` left for a payout by finance, "queued_for_payout" |
| `Confirm`, `PushFailed` | `confirm_reference_payment()`, `handle_push_result()`, under the flow's lock |
| `SweepLists`, `SweepExpires`, `SweepDies` | `expire_references()` and `run_dunning()` |
| `Load`, `Upload`, `Verify`, `Refund`, `RefundRefused` | `upload_bank_proof()`, `verify_bank_proof()`, `create_refund()` on the object they were given |
| `LookUp`, `Insert`, `Finalise` | the `@verified_webhook` wrapper and its audit row |
| `Claim`, `Handle`, `HandleRaises`, `Release` | `AppypayWebhookView.post()` with `_claim_event()` and the receipt |
| `Crash` | the process dies between any two of these |

The provider (external) delivers a body any number of times, also at once.  A refund goes
to the wallet if its target, named by the caller or chosen by the method of payment, is
the wallet and the flow still has a buyer (`Buyerless`: it was deleted); else it is queued.
Nothing in the repository calls `create_refund()` yet; the model lets it be called with the
stale objects its signature allows.  In the run every notification carries the exact
amount; the theorems hold for any others too.

### Wallet and KeyedLedger

| model | code |
|---|---|
| `rows`, `posted`, `snapshot` | `WalletLedgerEntry`, its sum, the newest `balance_after` |
| `cached`, `frozen`, `confirmed`, `sent`, `spent` | `BuyerWallet`, top-ups, the day's totals |
| `drift` | by user, what the cached balance and the ledger were not both told of since the last sync |
| `holder` | the row locks on `BuyerWallet` |
| `FindsDone`, `Held`, `Begin`, `Lock` | what `wallet_credit()`, `wallet_debit()`, `p2p_transfer()`, `confirm_topup()`, `spend_wallet()` do before and at their locks |
| `Post`, `PostDuplicate`, `WriteCached`, `Refuse`, `Abort` | how they end |
| `Sync` | `_sync_cached_balance()`, which swallows every exception: `Post` commits the entries with any part of the cached balances |
| `AuditRead`, `AuditCompare` | `check_wallet_integrity()` |

`KeyedLedger` is the promise: an operation is posted at most once, to all its accounts
at once, and never below zero.  Under the refinement mapping the applied operations are
those with an entry in `rows`, and the balance is `posted`.

### Disputes

| model | code |
|---|---|
| `dispute`, `resolution`, `answered`, `late`, `refundRows` | `Dispute`, and how many `Refund` rows the order has |
| `staffed` | whether the user the sweep rules as exists and is staff or superuser |
| `due`, `is_disputed`, `released`, `refunded` | `EarningsHold` |
| `Open`, `Answer`, `AdminResolves` | `open_dispute()`, `add_message()`, `resolve_dispute()`, which raises for the buyer on two `Refund` rows (`Decidable`) |
| `Request` | `RequestRefundView`: another `Refund` row |
| `Staffing` | that user appears or goes, at any time |
| `SweepLists`, `SweepEscalates`, `SweepResolves` | `sweep_dispute_sla()` with `auto_resolve_silent_seller()` |
| `ReleaseLists`, `Pay`, `Mark`, `Die` | `release_held_earnings()`, statement by statement |

`before` and `early` remember, when a dispute is opened, the credits made and the runs
that had its hold on their list.  The sweep's limit of 200 rows is left out.



## 3. What the runs check

A run is one `.cfg`.  Between them the passing runs take every action of every module.
Types are no part of a run: the type invariant of every component is proved for every
value of the constants (section 5).

| run | instance | what it shows |
|---|---|---|
| `outbox` | two workers, a topic with two handlers (one can fail with SQL errors) and one without, two attempts, a bulk operator, two operator actions, one crash; fair workers | dispatched means handled (`DispatchedWasHandled`); handlers' writes never commit without the record of their attempt, all of them with the mark, and with a failure those up to the handler that raised (`MarkedWithWrites`); every event settles again and again unless SQL errors never stop (`EventuallySettled`) |
| `saga` | three workers (a request, the resume task, the sweep) at one saga of three steps, the last without compensation; parked up to twice, two crashes; fair sweeps | cursor and effects agree (`CursorMatchesEffects`); terminal statuses are final (`TerminalIsFinal`) and, with the log, true: what completed steps did is there or undone as the status says, and partial writes are only of steps the log names (`OutcomeIsHonest`); every saga ends (`EventuallyTerminal`) |
| `idempotency` | three attempts of a request and another body under the same key, two faults; fair wrapper, TTL and sweep | one effect per claimed key (`ClaimedEffectOnce`); faithful replays (`ReplayIsFaithful`); a key left behind is freed (`EventuallyUnlocked`) |
| `idempotency_twice` | no faults | *violation* of `EffectOnce`: two first attempts both execute |
| `inventory` | a call for the only unit of a combo, its retry, a reuse of its key for a product; two sweeps, one visibility change, one fault, a cap of one | stock is conserved (`StockConserved`); a key holds once (`OneHoldPerKey`); what is offered has stock (`OfferMatchesStock`); expired stock comes back (`ExpiredComesBack`) |
| `checkout` | two requests of one buyer and one of another, a product, its combo and a product of a second seller with too few units for all, two coupons found in opposite orders, store credit that does not split evenly, two cancellations | stock and orders add up (`StockAddsUp`); a unit put in the cart is ordered at most once (`OrderedOnce`); credit adds up to the rounding (`CreditAddsUp`); a circle of stock locks contains a commit that shares the product of a combo (`StockQueues`) |
| `orders` | two cancellations, two updates, two confirmations and all beat tasks at one order, the database ignoring locks outside transactions | stock comes back once, and once more from the reaper at most (`ReturnedOnce`); a parcel leaves with its stock sold (`ShippedOrRestocked`); over is over (`OverIsOver`); earnings are held once for each overlapping confirmation at most (`HeldByReaders`); nothing stays pending (`PendingEnds`) |
| `orders_leak` | as above | *violation* of `StockComesBack`: an expired order keeps its stock |
| `refunds` | two workers, a request for the whole and a dispute for half, two attempts, two faults | one debit (`DebitedOnce`), only after the provider paid (`GatewayFirst`); rows settle (`Settles`); the provider's refund reaches the payment (`DriftIsRetried`) |
| `webhook` | a reference payment notified twice and refunded in halves to either target, a failing push, a bank transfer whose buyer was deleted; three deliveries, one fault | paid means confirmed or proven (`PaidIsBacked`); what is refunded is credited or queued (`RefundedIsCredited`); one handler per event (`HandledOnce`); 200 is earned (`AckedUnlessSpoiled`); every new status is an allowed edge from the one its own writer read (`GraphUnlessStale`) |
| `wallet` | a duplicated credit, transfers in both directions, one over the limit, a top-up, a spend, the audit; any sync of the cached balance may fail | cached balance and ledger differ by what one of them was not told of since the last sync (`CachedFollowsLedger`); no deadlock (`NoDeadlock`); the ledger implements `KeyedLedger` (`LedgerIsIdeal`) |
| `disputes` | one order, two overlapping runs of each task, two deaths, an admin, refund requests, a user for the sweep that comes and goes | hold, dispute and refund agree (`SettledAsResolved`); frozen while open (`FrozenWhileOpen`); late credits are bounded (`LatePaysAreEarly`); once the sweep has its user for good, silence ends and so does the freeze, unless a second `Refund` row makes the resolution raise or an answered dispute waits for its admin (`SilenceEnds`, `FreezeEnds`) |

### Bounds, and why they are enough

- *Actors.* Each hazard is a race of two actors at one row (two drains, two first
  claims, two sweeps, two workers at one refund), or of two and a third that moves the
  row between them (bulk requeue and drains; call, retry and release; two requests of
  one buyer and a cancellation).  One order, hold or saga is enough where rows meet only
  through a worker that handles one after the other; two wallets, and three stock rows
  of two sellers, where one transaction locks several.
- `MaxAttempts = 2`: a first failure that is retried and a second that is final.
  `BatchSize = 2`: a batch that ends by its size and one that ends by lack of rows.
- `BackoffBase = 1`, `BackoffCap = 2`; `Lag = 0`: an overdue event is only told from one
  that is not; `PublishDelay = 0`: a publisher's delay would only postpone an event.
- `MaxInterventions` bounds operator actions, `MaxCrashes`, `MaxFaults` and `MaxDeaths`
  bound crashes and errors, `MaxWaits` how often a saga is parked, `MaxSwitches`
  visibility changes, `MaxPut` the units put in a cart.  Two operator actions and a crash,
  or two crashes, are what the longest counterexamples of the mutants need.
- `Limit`, `Cap`, `TransferLimit`, `SpendLimit` are parameters of the code, chosen so that
  they bind.
- `webhook` uses symmetry, between equal deliveries and between the two refunds; all of
  its properties are safety properties.

Where a safety property is also proved, the bound does not matter.

`CHECK_DEADLOCK FALSE` stands where the system really stops: all sagas are terminal,
all requests answered, all calls done, all carts ordered.  The outbox never stops,
because a drain can always begin.


## 4. Fairness

| assumption | why the code justifies it |
|---|---|
| Outbox: time passes and every worker keeps taking steps | `drain()` has to be called again and again.  The docstring of `outbox/tasks.py` asks for a beat entry every five seconds, and `dispatch_outbox --loop` is its fallback.  `CELERY_BEAT_SCHEDULE` in `config/settings.py` has no such entry, so this is an assumption on the deployment.  Handlers are assumed to end, not to succeed. |
| Saga: a worker inside a call goes on; every saga is reached by the overdue sweep | `sagas.abandon_overdue` every 300 s, over sagas older than the `max_lifetime_seconds` of their definition (`sagas/tasks.py:55`), which every registered definition sets.  Nothing is assumed of `resume()`. |
| Idempotency: a request that began goes on; the TTL passes; the sweep comes | `idempotency.sweep_expired` hourly, a TTL of 24 h. |
| Inventory: reservations expire; every sweeper keeps taking steps | `inventory.clean_expired_reservations` every 300 s. |
| Orders: expiry and reaper come back; a cancellation that began ends | their beat entries.  Nothing is assumed of reconciliation: the beat entry names `payments.run_payment_reconciliation` (`config/settings.py:1548`), and the task is registered under the name of its module (`payments/tasks.py:151`). |
| Refunds: a worker that lives goes on; the sweep comes back to pending rows; the lock's minute ends | `process_pending_refunds` over rows whose `next_attempt_at` has passed; the cache's timeout. |
| Disputes: time passes; the SLA sweep starts again and again | its hourly beat entry.  Nothing is assumed of the release of holds, nor that an admin rules.  That the sweep has a user who may rule is no fairness but the premise `<>[]staffed` of both properties: without one it skips every dispute. |

`Checkout`, `Wallet` and `Webhook` assume no fairness, for they state safety only.
Fairness is weak everywhere and never on the outcome of a handler, a step, a view or the
provider, or on a client, an operator or a fault.


## 5. What is proved

Eight `Proofs` modules prove, for any numbers of rows, processes, retries and crashes,
with the assumptions on constants stated in the modules (`OutboxAssumption` and so on;
TLC evaluates them in the runs):

| module | theorems | properties |
|---|---|---|
| OutboxProofs | `TypeCorrect`, `RetriesAreBounded`, `RowLocksHold`, `DispatchedMeansHandled`, `WritesCarryTheMark`, `DispatchedHasWrites` | `TypeOK`, `RetryBudget`, `RowHeldStaysLive`, `DispatchedWasHandled`, `MarkedWithWrites`, `DispatchedIsWritten` |
| | `OneAttemptPerDrain`, `DispatchedStays` | `OncePerDrain`, `DispatchedIsFinal`, each if `Operators = {}` |
| | `WritesAreBounded` | `WritesPerAttempt`, if `MaxInterventions = 0` |
| SagaProofs | `TypeCorrect`, `CursorIsRight`, `OutcomesAreHonest`, `TerminalStays` | `TypeOK`, `CursorMatchesEffects`, `OutcomeIsHonest`, `TerminalIsFinal` |
| IdempotencyProofs | `TypeCorrect`, `ClaimsAreExclusive`, `OneEffectPerClaim`, `ReplaysAreFaithful` | `TypeOK`, `ClaimIsExclusive`, `ClaimedEffectOnce`, `ReplayIsFaithful` |
| StockProofs | `TypeCorrect`, `OfferFollowsStock`, `KeyHoldsOnce`, `EndStays`, `StockNeverLeaks`, `ReservingRefines` | `TypeOK`, `OfferMatchesStock`, `OneHoldPerKey`, `EndIsFinal`, `StockConserved`, `ReservesAsPromised` |
| | `OrderTypeCorrect`, `StockReturnedOnce`, `HeldOncePerRun`, `ShipsOrRestocks`, `OverStays` | `OrderTypeOK`, `ReturnedOnce`, `HeldByReaders`, `ShippedOrRestocked`, `OverIsOver` |
| CheckoutProofs | `CheckoutTypeCorrect`, `StockIsConserved`, `CartIsOrderedOnce`, `CreditIsConserved`, `StockLocksQueue`, `OrderingRefines` | `CheckoutTypeOK`, `StockAddsUp`, `OrderedOnce`, `CreditAddsUp`, `StockQueues`, `OrdersAsPromised` |
| WalletProofs | `TypeCorrect`, `NeverNegative`, `SnapshotRuns`, `CachedKeepsUp`, `NeverDeadlocks`, `Refines` | `TypeOK`, `NonNegative`, `RunningSnapshot`, `CachedFollowsLedger`, `NoDeadlock`, `LedgerIsIdeal` |
| WebhookProofs | `TypeCorrect`, `PaymentsAreBacked`, `RefundsAreCredited`, `HandlesOnce`, `AcksAreEarned`, `GraphFollowed` | `TypeOK`, `PaidIsBacked`, `RefundedIsCredited`, `HandledOnce`, `AckedUnlessSpoiled`, `GraphUnlessStale` |
| RefundsProofs | `RefundTypeCorrect`, `SellerDebitedOnce`, `ProviderPaysFirst` | `RefundTypeOK`, `DebitedOnce`, `GatewayFirst` |
| | `TypeCorrect`, `SettlementAgrees`, `DisputeFreezes`, `LateCreditsAreEarly` | `TypeOK`, `SettledAsResolved`, `FrozenWhileOpen`, `LatePaysAreEarly` |

The arguments:

- **Outbox.** `RowHeldStaysLive` and `DispatchedWasHandled` are not inductive: a step
  that marks a row needs to know that the handlers before `step` returned, and that
  the row's lock is what kept others away.  `DispatchInv` adds this (`DrainState`,
  `RanOnlyHandlers`).  `MarkedWithWrites` follows step by step: writes
  become durable only in `CommitAttempt`, at the end of an attempt that is counted, and
  `RowHeldStaysLive` says what the status was.  From it follow `DispatchedIsWritten`, and
  `WritesPerAttempt` where nobody resets the attempts.
  `OncePerDrain` rests on `TriedIsOver`: a row this drain is done
  with is gone from the live statuses or scheduled after the drain's clock value.
  A bulk requeue breaks it with a clock value older than its locks, and reopens
  dispatched rows, hence the condition `Operators = {}`.
- **Saga.** `SagaInv` says of the copy a worker holds what the properties say of the
  row, and that a worker in a transaction is alone with a saga that is not terminal.
  The save at the end then carries the law from the copy to the row, and a crash
  drops the copy.  The law has a part for the log (`LogInv`): every partial
  write has an entry of its step, a saga that can still go forward has stopped at no step, and
  a compensation that failed is the one at the cursor.
- **Idempotency.** `ClaimInv`: the holder of a claim is the request that inserted the
  row, and the row is neither settled nor expired while it holds.
- **Inventory.** `OfferMatchesStock` is inductive together with the types (`StockInv`).
  `HoldChanges` says that a step makes one reservation active, ends an active one, or
  leaves all as they are.  The first is refused while the key is taken, which gives
  `KeyHoldsOnce`; for `EndStays` one needs as well that a call that is not done has no
  reservation yet (`FreshCall`), so that none is made active twice.  `StockConserved`: a
  step changes the stock of a target and the set of reservations that hold or have sold
  its units together, by one reservation (`OneCallMoves`); that set is always finite
  (`ConservedInv`), without which its sum would say nothing.
- **Orders.** `RestockInv`: the reaper puts stock back only for a pending payment and
  ends that, so that it comes once; and where stock came back the order is over or a
  cancellation stands between its two transactions.  `HeldInv`: runs that overlap and holds that were made are
  together no more than runs, for none begins once the payment is confirmed.  `OverIsOver` needs no invariant:
  `StatusMoves` lists every edge a step may take, `transition()` checks it against the
  locked row, and none leaves the two statuses.
- **Checkout.** `CheckoutInv` has four parts besides the types.  `PlanInv`: what a
  transaction locks begins with its cart or its order and has the stock rows in the order of
  their ranks, all of them before the first it only shares.  `CartInv`: from the lock of the cart to the commit, the lines that were read
  are in the cart (it can only grow), nobody else has locked it, and none of the orders
  exists.  `CancelInv`: a cancellation that locked its order finds it as it read it.
  `PlacedInv`: finitely many orders exist.  From the invariant, every step is one of four
  kinds for the tables: nothing, a unit into a cart, the orders of a checkout appear
  (`PlacesNew`), or one order is marked as restored (`RestoresLive`).  Each sum changes by the
  same amount as its counterpart: the lines of a checkout go each into the order of the one
  seller of the target (`NewUnits`), which gives `StockAddsUp` and `OrderedOnce`.
  For `CreditAddsUp` the costs of the orders are together the cost of the lines (the sum over
  orders and targets in either order, `SumSwap`), a rounded share is within half a unit of
  its exact value (`Rounding`, half to even), and n shares within n halves (`RoundingsAdd`).
  `StockQueues`: if no transaction of a circle waited to share a row at its commit, the one
  that waits for the row of the highest rank (`HighestRank`) would wait for somebody who
  holds that row and waits for one of a higher rank, against `PlanInv`; a shared row is held
  only by a transaction that waits for nothing but more of them.
- **StockLedger.** Both refinements go step by step through the same lists of moves.  Of a
  reservation, `Take` is `Pack` of one parcel, which nobody has packed (`FreshCall`); a release
  of an active one is `Return`, and the rest, a sale too, stutters.  Of a checkout, `Places` is
  `Pack` of all its orders (`PlacesNew`: none existed; `NewUnits`: together they hold the lines
  that leave the stock), and `Restores` is `Return` (`RestoresLive`: it was out); locks,
  rollbacks and carts stutter.
- **Wallet.** `LockInv`: from its last lock to its commit a call holds its rows, and the
  balances it read are still true.  With it, what a call writes is computed from the
  truth, which gives the invariants, `CachedFollowsLedger` for any subset of the
  syncs that fail, and the step of the refinement: `Post` is
  `KeyedLedger`'s `Apply`, and everything else a stutter.  `NoDeadlock` rests on `LockOrder`, a
  held row belongs to a call that waits for higher rows only, and `HeldBounded`, the ids
  of held rows are bounded: the holder of the highest can go on.
- **Webhook.** `RefundInv`: every total that a call has read, and every key that is
  taken, is covered by what was credited and queued, so a refund that finds its key taken
  is covered already.  `ReceiptInv`: a receipt without a handled event is held by one delivery, or
  by a dead one.  `BackedInv`: a call that works on a successful flow has read one, so that
  the copies that overwrite each other are backed by a confirmation or a proof as well.
  `AckInv`: who finds a receipt or a finished row answers 200, and whoever left them has
  handled the event, is handling it, or has spoiled it.  `GraphFollowed` goes writer
  by writer: the confirmations check the edge on the row, a sweep on the awaiting flow it
  listed, a call on its own copy, which its return releases.
- **Refunds.** `PayInv`: the debit goes with the `REFUNDED` payment, and a worker holds
  the answer "ok" only after the provider paid its row's amount.
- **Disputes.** `StatusInv` ties resolution, hold and status together; `PayBound` counts
  credits plus the runs that still list a frozen hold, a sum that no step increases; a run whose
  lock is refused drops its list, which can only lower it.

**Sums.**  The sums of the community modules are defined by recursion over a set, through
a CHOOSE of a function.  `StockProofs` shows first that this function exists and is unique
(`SumsExist`, `SumsAgree`) and then the laws the components use: an element taken out
(`SumRemove`), two sets together, sums of sums.  The induction over a finite set that this takes
is not an induction theorem with an operator parameter but the minimal element of a set of
counterexamples under the strict subset ordering, which is well-founded on a finite set
(`SubsetInduction`).

**Assumptions.**  Each component's assumption says what its constants are: types, positive
limits, requests that are no orders.  Four carry weight.  `Targets` and `Sellers` are finite in
`CheckoutAssumption`, as rows of a table are: the sums over a cart need it.  `Rank` is
injective: it is the order of `_lock_stock_rows()`, by table and primary key.  `Releases`
is finite in `RunsAssumption`, and `Confirmations` in `OrderAssumption`: runs of a task that
overlap.  `LocksRefused` is either Boolean.

**Model-checked only** is liveness: `EventuallySettled`, `EventuallyTerminal`,
`EventuallyUnlocked`, `ExpiredComesBack`, `Settles`, `DriftIsRetried`,
`PendingEnds`, `SilenceEnds`, `FreezeEnds`.  They need fairness and ENABLED, which the prover
does not handle.  Every invariant and every action property of a passing run is
proved, and so are the refinements of `KeyedLedger` and, by `Inventory` and by `Checkout`, of
`StockLedger`.  `ReservesAsPromised` and `OrdersAsPromised` are stated by theorems only; their
consequence, that the units add up, is what the runs check too.  No module declares a recursive operator.


## 6. Where code and documentation disagree

With a run whose counterexample TLC prints:

1. `idempotency_twice`: the loser of two first claims runs the view without a claim
   (`idempotency/decorators.py:118`).
2. `orders_leak`: an order that expires, or that the shipping SLA cancels, never gives
   its stock back, which the docstrings promise (`orders/tasks.py:279`, `:320`).

Read in the code while modelling.  The models behave so; where a property is affected it
is stated so that it says what is left.

*Outbox, sagas, reservations.*
Handlers "may run more than once if the dispatcher crashes between executing the handler and
marking the event" (`outbox/handlers.py:17`): such a crash rolls both back; what repeats
writes is a failed attempt, whose partial writes are committed (`outbox/dispatcher.py:61`).
A reaper whose restock raises half way "flips to NEEDS_ATTENTION" and leaves no "inventory in
an inconsistent state" (`orders/saga_defs.py:20`): the runner walks back to FAILED and commits
the partial restock, which only the log shows (`sagas/runner.py:125`).  The same holds of a
refund that "fails mid-way" (`orders/saga_defs.py:192`): what it had written stays.
`requeue_bulk()` updates by ids it read earlier and reopens a row dispatched since
(`outbox/dlq.py:202`).  After a SQL error in a handler the failure cannot be saved in the
same transaction: the attempt is never counted, and the event is retried ahead of all
others (`outbox/dispatcher.py:127`); `EventuallySettled` excepts it.  `abandon()` never counts
its outcome (`sagas/runner.py:217`); a crash in `run()` loses the record of completed steps
(`sagas/runner.py:75`).  A retried reservation can get an IntegrityError or a stock or cap
error instead of its reservation (`inventory/service.py:221`); the cap can be passed by
racing calls (`:151`); a release puts a product on sale that moderation had taken off
(`:289`), and so does `restore_order()`.  An expired idempotency row is replayed until the
sweep comes (`idempotency/models.py:103`).  On commit a reservation's "row is dropped"
(`inventory/models.py:66`): it is kept, inactive.

*Checkout.*
`execute()` looks for orders under the bare key, which are stored under key:seller
(`orders/checkout.py:93`, `:568`).  Sorted stock locks do not
make concurrent transactions "queue up rather than deadlock" (`:184`, "DEADLOCK-FREE", `:173`).
Inserting an order item for a combo also shares the row of its product, by the foreign key
of `orders/models.py:274`, at the commit: a checkout that holds the combo then waits for a
cancellation, or a checkout of product and combo, that holds the product and waits for the
combo (`orders/stock_restore.py:159`).  `StockQueues` says that there is no other circle of
stock rows.  Coupons and the buyer's row are locked before the stock by a checkout and
after it by `restore_order()`, another circle for the database to break.  Coupons are locked in no
stated order (`:393`).  `cart_items.delete()` runs its query again and also deletes lines
added after the lock (`:269`).  A cancelled order does not release its coupon: checkout
creates no redemption row (`promotions/coupon_service.py:227`).  The limit per user counts
confirmed orders only, so that two pending ones both pass (`:405`).  The shares of the
store credit may differ from it by their rounding (`:360`).  Two racing additions to one
cart line lose one of them (`cart/views.py:63`).

*Orders and payments.*
`reconcile_order()` "fixes the common issue of payment confirmed by gateway but not reflected in
our DB": `confirm_payment()` locks the payment outside a transaction, which raises on PostgreSQL
(`payments/gateway.py:345`); it looks the payment up by a reference that checkout leaves
blank (`orders/checkout.py:651`), which several payments share; and the nightly run lists
payments that are pending only (`payments/tasks.py:168`), under a task name that is not
registered.  `initiate()` returns early for the pending payment that checkout created
(`payments/gateway.py:286`).
The reaper's import of the payment service fails and is swallowed (`orders/saga_defs.py:53`),
so it never asks the provider; and it restocks without the flag, a second time after
`restore_order()` (`:80`).  A payment that arrives at a cancelled order is recorded as paid,
and nothing pays it back.  The batch of shipments asks for confirmed to shipped, an edge the
graph does not have.  `auto_complete_old_orders()` evaluates its filter again after the
update, so that no escrow release is queued.  `enforce_buyer_protection` and
`auto_confirm_delivered` are not scheduled, `fail_payment()` has no caller.

*Refunds and disputes.*
The SLA sweep skips every dispute while there is neither a `__sla_bot__` nor a superuser
(`disputes/service.py:497`), and raises for a bot that is not staff (`:369`); both only reach
the log, as does the MultipleObjectsReturned below (`disputes/tasks.py:57`), and the
dispute stays open.  `release_held_earnings()` locks the wallet outside a transaction, which
raises on PostgreSQL and is caught (`payments/tasks.py:78`, `:95`): no hold is released there.
Two `Refund` rows of different amounts are two keys at the provider, which pays both
(`orders/views.py:442`); with two rows `resolve_dispute()` raises MultipleObjectsReturned
(`disputes/service.py:427`).  The second transaction of `process_refund()` does not look at the
status again (`payments/refund_service.py:170`).  The "refunded" event is rolled back with the
local block (`payments/gateway.py:599`).  A hold that a run has listed is paid after a dispute
froze it (`payments/tasks.py:73`), and twice if the run dies before the mark (`:91`).
A partial refund consumes the whole hold (`disputes/service.py:194`).

*Payment flows and wallet.*
A payment that arrives after expiry: "mark paid" (`payments_angola/services.py:431`), but EXPIRED
is terminal in the table (`payments_angola/state_machine.py:40`) and `transition()` raises.  The
log entry is rolled back, the receipt is given back, and every redelivery ends the same way;
`GraphUnlessStale` states what the code does.  "BuyerWallet balance is a convenience kept in sync
inside the same txn" (`payments_angola/models.py:320`): a failing sync is swallowed, and the
entry commits without it (`payments_angola/services.py:606`).
"200 means durably recorded" (`payments_angola/views.py:220`), but a duplicate is answered 200
while the first delivery may still fail.  `ALLOWED_TRANSITIONS` is "enforced" on stale
copies: a sweep overwrites a flow that was paid since with expired
(`payments_angola/services.py:447`).  Refunds of one flow that race share a key or overwrite
`refunded_cents` (`:1018`).  The two writers of the cached wallet balance overwrite each other
(`:606`), `confirm_topup()` adds a top-up twice (`payment_ops/services.py:635`), the audit
freezes a wallet for a transfer that fell between its two reads
(`payments_angola/services.py:692`), and racing transfers pass the daily limit (`:713`).


## 7. What is not modelled

The backend has about 147 000 lines in 1 130 files.  Most of it is data entry: models,
serializers, CRUD views, back-office rules and reports, each of which reads and writes one
record in one request and has no order of events for a model to explore.  What is modelled
is where actors meet.  Left out, with the reason:

- *Inside the modelled components.*  Handlers, saga steps and views are reduced to their
  outcomes.  Prices, discounts, taxes and shipping in `Checkout`; escrow, returns and Buyer
  Protection in `Orders`; cash on delivery, split payments and settlement statements in
  `PaymentFlow`; evidence in `Disputes`; payouts, also those that a
  queued refund waits for (finance executes them), and the sum of the seller's wallet; key shares of
  `Checkout` on rows other than stock;
  `drain_batch()`, which has no caller; the legacy variants and stock alerts.
- *Database.*  Row locks, unique constraints and atomic commit are assumed.  A crash of the
  database between commits is not told from one of the process.
- *Double-entry ledger* (`ledger`): `post()` inserts a balanced journal under a unique key in a
  savepoint, and its many callers log its errors and go on; `KeyedLedger` states the promise it
  shares with the wallet.
- *Outbound webhooks*: the retry pattern of the outbox.  *Stock engine*: a second stock
  ledger that checkout does not use.  *Singleton locks*: the models let two runs of a task
  overlap, which is the weaker assumption.
- *Cases, returns, rentals, gift cards, loyalty*: one status or balance changed by one actor at a
  time in one transaction.
- *Moderation, fraud and risk rules; catalogue, search, recommendations, AI and analytics;
  accounts and verification; notifications, chat and feeds; seller, logistics, customer
  service, marketing and admin back offices; middleware; frontend*: rules over data, read paths
  and I/O.
- Metrics, logs, admin pages, serializers and permissions have no state the properties tell
  apart.


## 8. Plan

In order of importance:

1. **Payouts**: `RequestPayoutView`, the payout task and the seller's wallet, which
   `release_held_earnings()` writes without a lock (`payments/tasks.py:82`, `:108`); it would
   refine `Disputes` with amounts.
2. **Cash on delivery and split payments**, the remaining methods of `PaymentFlow`.
3. **Composition** of `Checkout` with `Orders`, so that the cancellations are those of the order's
   life; of `Refunds` with `Disputes`, so that the second `Refund` row
   that `Disputes` allows for is the one `Refunds` settles.
4. **Proofs**: what the additions above bring; refinements of abstract promises for the outbox
   and the order's life, as `StockLedger` is for what takes stock.
5. **Outbound webhooks**, composed with `Outbox`; the **ledger** as a second implementation of
   `KeyedLedger`.
