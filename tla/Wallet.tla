------------------------------- MODULE Wallet -------------------------------
(***************************************************************************)
(* The buyer wallet, which two apps write.  payments_angola keeps a ledger *)
(* of entries with unique idempotency keys (wallet_credit, wallet_debit,   *)
(* p2p_transfer) and copies its balance into BuyerWallet; payment_ops adds *)
(* to and subtracts from that copy (confirm_topup, spend_wallet) and       *)
(* writes no entry.  The copying may fail, and the entry is committed all  *)
(* the same.  A daily audit compares the two books.                        *)
(*                                                                         *)
(* An operation is a movement with its key: a transfer has a payer and a   *)
(* payee, a credit or a top-up only a payee, a debit or a spend only a     *)
(* payer.  A call is one execution of an operation; retries and duplicated *)
(* callbacks are further calls of it.  A call is one transaction: nothing  *)
(* of it is seen before it commits, and it holds the rows it locks.        *)
(***************************************************************************)
EXTENDS Integers

CONSTANTS Users,      \* primary keys of the users
          Ops, Cached,
          Payer, Payee, Amount,
          Calls, OpOf,
          NoUser, NoCall,
          TransferLimit, SpendLimit  \* per payer and day

\* Cached: the operations of payment_ops, which write the cached balance only.
\* A transfer has a new id, hence new keys, in every call.
ASSUME WalletAssumption ==
  /\ Users \subseteq Nat /\ NoUser \notin Users /\ NoCall \notin Calls
  /\ Cached \subseteq Ops
  /\ Payer \in [Ops -> Users \cup {NoUser}]
  /\ Payee \in [Ops -> Users \cup {NoUser}]
  /\ Amount \in [Ops -> Nat \ {0}]
  /\ OpOf \in [Calls -> Ops]
  /\ \A o \in Ops : Payer[o] # Payee[o]
  /\ \A o \in Cached : NoUser \in {Payer[o], Payee[o]}
  /\ TransferLimit \in Nat /\ SpendLimit \in Nat
  /\ \A s, t \in Calls :
       OpOf[s] = OpOf[t] /\ NoUser \notin {Payer[OpOf[s]], Payee[OpOf[s]]} => s = t

VARIABLES
  (* The tables. *)
  rows,      \* WalletLedgerEntry: <<operation, user>>
  posted,    \* the sum of a user's entries
  snapshot,  \* balance_after of a user's newest entry
  cached,    \* BuyerWallet.available_balance
  frozen,    \* wallets with is_active = False
  confirmed, \* top-ups that succeeded
  sent, spent, \* what a user transferred and spent today
  (* Row locks on BuyerWallet. *)
  holder,
  (* The calls. *)
  pc, seen,  \* seen: the balances it read under its locks
  (* The audit. *)
  audited,   \* the cached balance it read, by wallet, or -1
  (* Observation. *)
  drift      \* by wallet, what only one book was told of since the last sync:
             \* what payment_ops booked, less the entries whose sync failed

books == <<rows, posted, snapshot, cached, confirmed, sent, spent, drift>>
calls == <<holder, pc, seen>>
vars  == <<books, frozen, calls, audited>>

Phases == {"start", "lock", "write", "done"}
Zero   == [u \in Users |-> 0]

-----------------------------------------------------------------------------
(* Helpers. *)

Parties(o)    == {Payer[o], Payee[o]} \cap Users
IsTransfer(o) == NoUser \notin {Payer[o], Payee[o]}
Ledgered      == Ops \ Cached
Applied       == {o \in Ops : \E u \in Users : <<o, u>> \in rows}

\* What an operation adds to each wallet.
Effect == [o \in Ops |-> [u \in Users |->
            IF u = Payee[o] THEN Amount[o] ELSE IF u = Payer[o] THEN -Amount[o] ELSE 0]]

Init ==
  /\ rows = {}
  /\ posted = Zero /\ snapshot = Zero /\ cached = Zero
  /\ frozen = {} /\ confirmed = {}
  /\ sent = Zero /\ spent = Zero /\ drift = Zero
  /\ holder  = [u \in Users |-> NoCall]
  /\ pc      = [t \in Calls |-> "start"]
  /\ seen    = [t \in Calls |-> Zero]
  /\ audited = [u \in Users |-> -1]

\* The call ends and its transaction gives its locks back.
Finish(t) ==
  /\ pc'     = [pc EXCEPT ![t] = "done"]
  /\ seen'   = [seen EXCEPT ![t] = Zero]
  /\ holder' = [u \in Users |-> IF holder[u] = t THEN NoCall ELSE holder[u]]
  /\ UNCHANGED <<frozen, audited>>

-----------------------------------------------------------------------------
(* Before the locks *)

\* What the call finds before it locks anything: the entry of its key, or a
\* top-up that has succeeded.
Settled(o) == o \in Applied \/ o \in confirmed

\* The operation was done by an earlier call.
FindsDone(t) ==
  /\ pc[t] = "start"
  /\ Settled(OpOf[t])
  /\ Finish(t)
  /\ UNCHANGED books

\* _p2p_velocity_ok() holds the transfer back for review.
Held(t) ==
  /\ pc[t] = "start"
  /\ IsTransfer(OpOf[t])
  /\ sent[Payer[OpOf[t]]] + Amount[OpOf[t]] > TransferLimit
  /\ Finish(t)
  /\ UNCHANGED books

\* The call goes on to the locks.
Begin(t) ==
  /\ pc[t] = "start"
  /\ ~Settled(OpOf[t])
  /\ IsTransfer(OpOf[t]) => sent[Payer[OpOf[t]]] + Amount[OpOf[t]] <= TransferLimit
  /\ pc' = [pc EXCEPT ![t] = "lock"]
  /\ UNCHANGED <<books, holder, seen, frozen, audited>>

-----------------------------------------------------------------------------
(* Under the locks *)

Waiting(t) == {u \in Parties(OpOf[t]) : holder[u] # t}

\* The balances: the sum of the entries, or the locked row.
Balances(o) == IF o \in Cached THEN cached ELSE posted

\* The call locks a row it waits for; with the last one it reads the balances.
TakeRow(t, u) ==
  /\ holder[u] = NoCall
  /\ holder' = [holder EXCEPT ![u] = t]
  /\ IF Waiting(t) = {u}
       THEN /\ pc'   = [pc EXCEPT ![t] = "write"]
            /\ seen' = [seen EXCEPT ![t] = Balances(OpOf[t])]
       ELSE UNCHANGED <<pc, seen>>
  /\ UNCHANGED <<books, frozen, audited>>

\* Mutant: the payer's row is locked first.
PayerRow(t, u) == u \in Waiting(t) /\ (Payer[OpOf[t]] \in Waiting(t) => u = Payer[OpOf[t]])

\* The row the call locks next: by user id.
NextRow(t, u) == u \in Waiting(t) /\ \A v \in Waiting(t) : u <= v

\* SELECT ... FOR UPDATE, one row after the other.
Lock(t) ==
  /\ pc[t] = "lock"
  /\ \E u \in Users : NextRow(t, u) /\ TakeRow(t, u)

After(t, u) == seen[t][u] + Effect[OpOf[t]][u]

Enough(t) == \A u \in Parties(OpOf[t]) : After(t, u) >= 0

\* Mutant: no unique constraint on the key.
KeyFreeAlways(t) == TRUE

\* The insert does not violate the unique key.
KeyFree(t) == OpOf[t] \notin Applied

\* Mutant: the cached balance is moved by the amount instead of set.
SyncAdds(t, synced) ==
  /\ cached' = [u \in Users |-> IF u \in synced THEN cached[u] + Effect[OpOf[t]][u] ELSE cached[u]]
  /\ drift'  = [u \in Users |-> IF u \in synced THEN 0 ELSE drift[u] - Effect[OpOf[t]][u]]

\* _sync_cached_balance() sets a cached balance to the new sum.  Its update has a
\* savepoint of its own, and any exception in it is swallowed.
Sync(t, synced) ==
  /\ cached' = [u \in Users |-> IF u \in synced THEN After(t, u) ELSE cached[u]]
  /\ drift'  = [u \in Users |-> IF u \in synced THEN 0 ELSE drift[u] - Effect[OpOf[t]][u]]

\* The entries are inserted, and the cached balances of `synced` follow.
Post(t) ==
  /\ pc[t] = "write"
  /\ OpOf[t] \in Ledgered /\ Enough(t) /\ KeyFree(t)
  /\ LET o == OpOf[t] IN
       /\ rows'     = rows \cup {<<o, u>> : u \in Parties(o)}
       /\ posted'   = [u \in Users |-> posted[u] + Effect[o][u]]
       /\ snapshot' = [u \in Users |-> IF u \in Parties(o) THEN After(t, u) ELSE snapshot[u]]
       /\ \E synced \in SUBSET Parties(o) : Sync(t, synced)
       /\ sent'     = [u \in Users |-> IF IsTransfer(o) /\ u = Payer[o]
                                         THEN sent[u] + Amount[o] ELSE sent[u]]
  /\ Finish(t)
  /\ UNCHANGED <<confirmed, spent>>

\* A duplicate posted while this call waited: the savepoint is rolled back and
\* the entry of the other call returned.
PostDuplicate(t) ==
  /\ pc[t] = "write"
  /\ OpOf[t] \in Ledgered /\ Enough(t) /\ ~KeyFree(t)
  /\ Finish(t)
  /\ UNCHANGED books

\* What payment_ops refuses: a frozen wallet, too low a balance, the day's limit.
Spendable(t) ==
  LET o == OpOf[t] IN
  Payer[o] # NoUser =>
    /\ Payer[o] \notin frozen
    /\ Enough(t)
    /\ spent[Payer[o]] + Amount[o] <= SpendLimit

\* confirm_topup() and spend_wallet() write the cached balance.  The top-up's
\* status was read before the lock and is not read again.
WriteCached(t) ==
  /\ pc[t] = "write"
  /\ OpOf[t] \in Cached /\ Spendable(t)
  /\ LET o == OpOf[t] IN
       /\ cached'    = [u \in Users |-> IF u \in Parties(o) THEN After(t, u) ELSE cached[u]]
       /\ drift'     = [u \in Users |-> drift[u] + Effect[o][u]]
       /\ confirmed' = IF Payer[o] = NoUser THEN confirmed \cup {o} ELSE confirmed
       /\ spent'     = [u \in Users |-> IF u = Payer[o] THEN spent[u] + Amount[o] ELSE spent[u]]
  /\ Finish(t)
  /\ UNCHANGED <<rows, posted, snapshot, sent>>

\* "insufficient wallet balance", a rejected transfer, or an error of spend_wallet().
Refuse(t) ==
  /\ pc[t] = "write"
  /\ IF OpOf[t] \in Cached THEN ~Spendable(t) ELSE ~Enough(t)
  /\ Finish(t)
  /\ UNCHANGED books

\* The lock times out or the process dies: the transaction is rolled back.
Abort(t) ==
  /\ pc[t] \in {"lock", "write"}
  /\ Finish(t)
  /\ UNCHANGED books

-----------------------------------------------------------------------------
(* check_wallet_integrity() *)

\* The iterator reads a chunk of wallet rows.
AuditRead ==
  /\ audited = [u \in Users |-> -1]
  /\ audited' = cached
  /\ UNCHANGED <<books, frozen, calls>>

\* The sum of the entries as they are now differs from the balance it read.
Breach(u) == posted[u] # audited[u]

\* A breach is recorded and the wallet frozen; the update waits for the row.
AuditCompare(u) ==
  /\ audited[u] # -1
  /\ Breach(u) => holder[u] = NoCall
  /\ frozen'  = IF Breach(u) THEN frozen \cup {u} ELSE frozen
  /\ audited' = [audited EXCEPT ![u] = -1]
  /\ UNCHANGED <<books, calls>>

-----------------------------------------------------------------------------
Work(t) ==
  \/ FindsDone(t) \/ Held(t) \/ Begin(t)
  \/ Lock(t)
  \/ Post(t) \/ PostDuplicate(t) \/ WriteCached(t) \/ Refuse(t)

Audit == AuditRead \/ \E u \in Users : AuditCompare(u)

Next ==
  \/ \E t \in Calls : Work(t) \/ Abort(t)
  \/ Audit

Spec == Init /\ [][Next]_vars

-----------------------------------------------------------------------------
(* Properties *)

TypeOK ==
  /\ rows \subseteq Ops \X Users
  /\ posted \in [Users -> Int] /\ snapshot \in [Users -> Int] /\ cached \in [Users -> Int]
  /\ drift \in [Users -> Int]
  /\ frozen \subseteq Users /\ confirmed \subseteq Cached
  /\ sent \in [Users -> Nat] /\ spent \in [Users -> Nat]
  /\ holder \in [Users -> Calls \cup {NoCall}]
  /\ pc \in [Calls -> Phases]
  /\ seen \in [Calls -> [Users -> Int]]
  /\ audited \in [Users -> Int]

\* Neither book goes below zero, whatever debits, transfers and spends of a user
\* race (the guard of wallet_debit and of spend_wallet is "SELECT FOR UPDATE").
NonNegative == \A u \in Users : posted[u] >= 0 /\ cached[u] >= 0

\* balance_after of the newest entry is the sum of all entries ("balance_after is
\* the running snapshot", models.py): no entry is computed from a stale balance.
RunningSnapshot == snapshot = posted

\* The cached balance and the ledger differ by what one of them was not told of
\* since the last sync, and by nothing else: no race loses or doubles a write of
\* either app, and a posting that syncs heals what failing syncs left - and wipes
\* out what payment_ops had booked ("kept in sync inside the same txn", models.py).
CachedFollowsLedger == \A u \in Users : cached[u] = posted[u] + drift[u]

\* The ledger does what a keyed ledger promises: duplicated, retried and racing
\* calls post each operation at most once, transfers to both wallets at once.
Ideal == INSTANCE KeyedLedger
           WITH Accounts <- Users, Ops <- Ledgered, applied <- Applied, balance <- posted

LedgerIsIdeal == Ideal!Spec

\* No set of calls waits in a circle: as long as calls are under way, one of them
\* can go on without the lock timeout ("Deadlock-safe lock ordering: lock the lower
\* user id first").
UnderWay(t) == pc[t] \in {"lock", "write"}
CanGoOn(t)  == pc[t] = "write" \/ \E u \in Users : NextRow(t, u) /\ holder[u] = NoCall

NoDeadlock == (\E t \in Calls : UnderWay(t)) => \E t \in Calls : UnderWay(t) /\ CanGoOn(t)

\* The strengthening that makes the safety properties inductive: from the last lock
\* to the commit a call holds its rows, and what it has read is still true.
LockInv ==
  \A t \in Calls :
    pc[t] = "write" =>
      \A u \in Parties(OpOf[t]) : holder[u] = t /\ seen[t][u] = Balances(OpOf[t])[u]

\* And the one for NoDeadlock: a row belongs to a call under way that waits for higher
\* rows only, and a call that locks waits for one.
LockOrder ==
  /\ \A t \in Calls : pc[t] = "lock" => Waiting(t) # {}
  /\ \A t \in Calls, u \in Users : holder[u] = t =>
       /\ UnderWay(t) /\ u \in Parties(OpOf[t])
       /\ \A v \in Waiting(t) : u < v
=============================================================================
