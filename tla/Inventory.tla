----------------------------- MODULE Inventory -----------------------------
(***************************************************************************)
(* Stock reservations of apps/inventory: the reserve endpoint, reserve(),  *)
(* release_reservation(), commit_reservation() and the sweep of expired    *)
(* reservations, together with the sellers and moderators who take a       *)
(* product off sale and put it back.                                       *)
(*                                                                         *)
(* A target is a Product row or a ProductVariantCombo row.  reserve() is a *)
(* transaction under READ COMMITTED that locks nothing until it locks the  *)
(* target; from there to its commit it is alone with that target, so this  *)
(* part is one step.  A call of reserve() also names the reservation it    *)
(* creates.                                                                *)
(***************************************************************************)
EXTENDS StockRows, FiniteSetsExt

CONSTANTS Calls,       \* calls of the reserve endpoint
          CallOf,      \* what each asks: [user, key, target, quantity]
          NoKey,       \* the empty idempotency key
          Combos,      \* the targets that are variant combos
          Cap,         \* MAX_ACTIVE_RESERVATIONS_PER_USER
          Sweepers,    \* processes that run sweep_expired()
          Limit,       \* sweep_expired(limit)
          MaxSwitches, \* bound on visibility changes
          MaxFaults    \* bound on crashes and database errors

ASSUME InventoryAssumption ==
  /\ \A a \in Calls : CallOf[a].target \in Targets /\ CallOf[a].quantity \in Nat \ {0}
  /\ Combos \subseteq Targets
  /\ Cap \in Nat \ {0} /\ Limit \in Nat \ {0}
  /\ MaxSwitches \in Nat /\ MaxFaults \in Nat

VARIABLES
  (* Product and ProductVariantCombo. *)
  quantity, active,
  (* StockReservation, by the call that created it. *)
  hold,      \* "none", "held" (is_active), "released" or "committed"
  expired,   \* expires_at has passed
  (* The endpoint, by call. *)
  pc, answer,
  (* sweep_expired(), by sweeper. *)
  queue,     \* the ids it read and has not come to
  (* Bounds. *)
  switches, faults

targets == <<quantity, active>>
holds   == <<hold, expired>>
calls   == <<pc, answer>>
bounds  == <<switches, faults>>
vars    == <<targets, holds, calls, queue, bounds>>

Phases  == {"view", "lookup", "count", "take", "done"}
Answers == {"none", "reserved", "existing", "not_found", "reused", "capped",
            "insufficient", "collided", "lost"}

-----------------------------------------------------------------------------
(* Helpers. *)

Held == {a \in Calls : hold[a] = "held"}

\* The active reservations under the call's user and key; the empty key has none.
UnderKey(a) ==
  {b \in Held : CallOf[a].key # NoKey /\ CallOf[b].key = CallOf[a].key
                                      /\ CallOf[b].user = CallOf[a].user}

\* The same target and quantity.
SameIntent(a, b) ==
  CallOf[a].target = CallOf[b].target /\ CallOf[a].quantity = CallOf[b].quantity

\* The call's user has as many active reservations as allowed.
CapReached(a) ==
  Cardinality({b \in Held : CallOf[b].user = CallOf[a].user}) >= Cap

\* The target is on sale and has the stock.
Available(a) ==
  active[CallOf[a].target] /\ quantity[CallOf[a].target] >= CallOf[a].quantity

\* Mutant: no unique constraint.
KeyTakenNever(a) == FALSE

\* uniq_user_active_idem_key refuses another active row for the user and key.
KeyTaken(a) == UnderKey(a) # {}

\* The target's quantity goes down; at 0 it goes off sale.
TakeStock(a) ==
  LET t == CallOf[a].target
      left == quantity[t] - CallOf[a].quantity
  IN /\ quantity' = [quantity EXCEPT ![t] = left]
     /\ active'   = [active EXCEPT ![t] = left > 0]

\* Mutant: only products are put back on sale.
GiveBackHidden(a) ==
  /\ quantity' = [quantity EXCEPT ![CallOf[a].target] = @ + CallOf[a].quantity]
  /\ active'   = [active EXCEPT ![CallOf[a].target] = @ \/ CallOf[a].target \notin Combos]

\* The target's quantity goes up and it is on sale again, whatever took it off
\* (no code of the repository archives a product).
GiveBack(a) ==
  /\ quantity' = [quantity EXCEPT ![CallOf[a].target] = @ + CallOf[a].quantity]
  /\ active'   = [active EXCEPT ![CallOf[a].target] = TRUE]

-----------------------------------------------------------------------------
Init ==
  /\ quantity = Stock
  /\ active   = [t \in Targets |-> Stock[t] > 0]
  /\ hold     = [a \in Calls |-> "none"]
  /\ expired  = [a \in Calls |-> FALSE]
  /\ pc       = [a \in Calls |-> "view"]
  /\ answer   = [a \in Calls |-> "none"]
  /\ queue    = [s \in Sweepers |-> {}]
  /\ switches = 0 /\ faults = 0

-----------------------------------------------------------------------------
(* The reserve endpoint and reserve() *)

Goto(a, phase) ==
  /\ pc' = [pc EXCEPT ![a] = phase]
  /\ UNCHANGED answer

Reply(a, what) ==
  /\ pc'     = [pc EXCEPT ![a] = "done"]
  /\ answer' = [answer EXCEPT ![a] = what]

\* The view fetches the target, which must be on sale.
View(a) ==
  /\ pc[a] = "view"
  /\ IF active[CallOf[a].target] THEN Goto(a, "lookup") ELSE Reply(a, "not_found")
  /\ UNCHANGED <<targets, holds, queue, bounds>>

\* The key has an active reservation.
LookupHits(a) ==
  /\ pc[a] = "lookup"
  /\ \E b \in UnderKey(a) : Reply(a, IF SameIntent(a, b) THEN "existing" ELSE "reused")
  /\ UNCHANGED <<targets, holds, queue, bounds>>

LookupMisses(a) ==
  /\ pc[a] = "lookup"
  /\ UnderKey(a) = {}
  /\ Goto(a, "count")
  /\ UNCHANGED <<targets, holds, queue, bounds>>

\* The count of the user's active reservations, which locks nothing.
Count(a) ==
  /\ pc[a] = "count"
  /\ IF CapReached(a) THEN Reply(a, "capped") ELSE Goto(a, "take")
  /\ UNCHANGED <<targets, holds, queue, bounds>>

\* Under the lock of the target it is not available any more.
TakeRefused(a) ==
  /\ pc[a] = "take"
  /\ ~Available(a)
  /\ Reply(a, "insufficient")
  /\ UNCHANGED <<targets, holds, queue, bounds>>

\* Another call with the key created its row since the lookup.  The
\* IntegrityError rolls the decrement back and is raised again.
TakeCollides(a) ==
  /\ pc[a] = "take"
  /\ Available(a)
  /\ KeyTaken(a)
  /\ Reply(a, "collided")
  /\ UNCHANGED <<targets, holds, queue, bounds>>

\* The decrement and the reservation row commit.
Take(a) ==
  /\ pc[a] = "take"
  /\ Available(a)
  /\ ~KeyTaken(a)
  /\ TakeStock(a)
  /\ hold' = [hold EXCEPT ![a] = "held"]
  /\ Reply(a, "reserved")
  /\ UNCHANGED <<expired, queue, bounds>>

\* The process dies or the database fails: the transaction rolls back.
CallFails(a) ==
  /\ pc[a] \in {"lookup", "count", "take"}
  /\ faults < MaxFaults
  /\ faults' = faults + 1
  /\ Reply(a, "lost")
  /\ UNCHANGED <<targets, holds, queue, switches>>

-----------------------------------------------------------------------------
(* The end of a reservation *)

\* Mutant: the row is not looked at again under its lock.
ReleaseBlindly(a) ==
  /\ GiveBack(a)
  /\ hold' = [hold EXCEPT ![a] = "released"]

\* Mutant: only a target on sale is found, and others are skipped.
ReleaseListed(a) ==
  IF hold[a] = "held" /\ active[CallOf[a].target]
    THEN /\ GiveBack(a)
         /\ hold' = [hold EXCEPT ![a] = "released"]
    ELSE UNCHANGED <<targets, hold>>

\* release_reservation(): under the row's lock it must still be active, and so
\* a second release does nothing.
Release(a) ==
  IF hold[a] = "held"
    THEN /\ GiveBack(a)
         /\ hold' = [hold EXCEPT ![a] = "released"]
    ELSE UNCHANGED <<targets, hold>>

\* release_reservation() by a caller that holds the reservation.
ReleaseNow(a) ==
  /\ hold[a] = "held"
  /\ Release(a)
  /\ UNCHANGED <<expired, calls, queue, bounds>>

\* commit_reservation(): the stock is sold.
Commit(a) ==
  /\ hold[a] = "held"
  /\ hold' = [hold EXCEPT ![a] = "committed"]
  /\ UNCHANGED <<targets, expired, calls, queue, bounds>>

\* The reservation's time is up.
Expire(a) ==
  /\ hold[a] = "held"
  /\ ~expired[a]
  /\ expired' = [expired EXCEPT ![a] = TRUE]
  /\ UNCHANGED <<targets, hold, calls, queue, bounds>>

\* sweep_expired() reads the ids of up to Limit expired active reservations; a
\* sweep that finds none changes nothing.
SweepRead(s) ==
  /\ queue[s] = {}
  /\ \E S \in SUBSET {a \in Held : expired[a]} :
       /\ Cardinality(S) \in 1 .. Limit
       /\ S = {a \in Held : expired[a]} \/ Cardinality(S) = Limit
       /\ queue' = [queue EXCEPT ![s] = S]
  /\ UNCHANGED <<targets, holds, calls, bounds>>

\* It releases the next one in a transaction of its own.
SweepNext(s, a) ==
  /\ a \in queue[s]
  /\ Release(a)
  /\ queue' = [queue EXCEPT ![s] = @ \ {a}]
  /\ UNCHANGED <<expired, calls, bounds>>

\* That fails, is logged, and the loop goes on with the others.
SweepSkips(s, a) ==
  /\ a \in queue[s]
  /\ faults < MaxFaults
  /\ faults' = faults + 1
  /\ queue' = [queue EXCEPT ![s] = @ \ {a}]
  /\ UNCHANGED <<targets, holds, calls, switches>>

\* The sweeping process dies.
SweepDies(s) ==
  /\ queue[s] # {}
  /\ faults < MaxFaults
  /\ faults' = faults + 1
  /\ queue' = [queue EXCEPT ![s] = {}]
  /\ UNCHANGED <<targets, holds, calls, switches>>

-----------------------------------------------------------------------------
(* Visibility of products *)

\* A moderation decision, or the seller's bulk status change, takes a product
\* off sale.
TakeDown(t) ==
  /\ switches < MaxSwitches
  /\ t \notin Combos
  /\ active'   = [active EXCEPT ![t] = FALSE]
  /\ switches' = switches + 1
  /\ UNCHANGED <<quantity, holds, calls, queue, faults>>

\* The seller's bulk status change puts it back; Product.save() keeps it off
\* sale when there is no stock.
Relist(t) ==
  /\ switches < MaxSwitches
  /\ t \notin Combos
  /\ active'   = [active EXCEPT ![t] = quantity[t] > 0]
  /\ switches' = switches + 1
  /\ UNCHANGED <<quantity, holds, calls, queue, faults>>

-----------------------------------------------------------------------------
Sweeper(s) ==
  \/ SweepRead(s)
  \/ \E a \in Calls : SweepNext(s, a)

Next ==
  \/ \E a \in Calls :
       \/ View(a) \/ LookupHits(a) \/ LookupMisses(a) \/ Count(a)
       \/ TakeRefused(a) \/ TakeCollides(a) \/ Take(a) \/ CallFails(a)
       \/ ReleaseNow(a) \/ Commit(a) \/ Expire(a)
  \/ \E s \in Sweepers :
       \/ Sweeper(s) \/ SweepDies(s)
       \/ \E a \in Calls : SweepSkips(s, a)
  \/ \E t \in Targets : TakeDown(t) \/ Relist(t)

Spec == Init /\ [][Next]_vars

\* Time passes, and beat fires the sweep every few minutes.
Fairness ==
  /\ \A a \in Calls : WF_vars(Expire(a))
  /\ \A s \in Sweepers : WF_vars(Sweeper(s))

FairSpec == Spec /\ Fairness

-----------------------------------------------------------------------------
(* Properties *)

\* In particular no target is oversold.
TypeOK ==
  /\ quantity \in [Targets -> Nat]
  /\ active \in [Targets -> BOOLEAN]
  /\ hold \in [Calls -> {"none", "held", "released", "committed"}]
  /\ expired \in [Calls -> BOOLEAN]
  /\ pc \in [Calls -> Phases]
  /\ answer \in [Calls -> Answers]
  /\ queue \in [Sweepers -> SUBSET Calls]
  /\ switches \in Nat /\ faults \in Nat

Units  == [a \in Calls |-> CallOf[a].quantity]
Out(t) == {a \in Calls : CallOf[a].target = t /\ hold[a] \in {"held", "committed"}}

\* No unit is lost or made up: what is in stock, held and sold is what there was,
\* also when two sweeps, a release and a commit meet at one reservation.
StockConserved ==
  \A t \in Targets : quantity[t] + SumFunctionOnSet(Units, Out(t)) = Stock[t]

\* A key holds stock at most once, although the lookup of a first call locks
\* nothing ("no double-decrement", service.py).
OneHoldPerKey ==
  \A a, b \in Held :
    CallOf[a].key # NoKey /\ CallOf[a].key = CallOf[b].key
      /\ CallOf[a].user = CallOf[b].user => a = b

\* Nobody is offered a target without stock, and a variant combo with stock is
\* always on offer.
OfferMatchesStock ==
  \A t \in Targets :
    /\ active[t] => quantity[t] > 0
    /\ t \in Combos /\ quantity[t] > 0 => active[t]

\* Reservations take stock as StockLedger promises: each is a parcel, packed by the
\* commit of reserve() and returned by the release; a sold one stays away.
Contents(a) ==
  [t \in Targets |-> IF hold[a] # "none" /\ t = CallOf[a].target THEN CallOf[a].quantity ELSE 0]

Reserving == INSTANCE StockLedger
               WITH Parcels <- Calls, left <- quantity, inside <- [a \in Calls |-> Contents(a)],
                    packed <- {a \in Calls : hold[a] # "none"},
                    back <- {a \in Calls : hold[a] = "released"}

ReservesAsPromised == Reserving!Spec

\* A reservation is sold or given back once, and that is the end of it.
EndIsFinal ==
  [][\A a \in Calls : hold[a] \in {"released", "committed"} => hold'[a] = hold[a]]_vars

\* Stock that nobody buys comes back.
ExpiredComesBack == \A a \in Calls : (hold[a] = "held" /\ expired[a]) ~> hold[a] # "held"
=============================================================================
