------------------------------- MODULE Outbox -------------------------------
(***************************************************************************)
(* The transactional outbox of apps/outbox: publish() writes one row per   *)
(* intent, dispatcher workers run drain(), and operators work the          *)
(* dead-letter queue with requeue(), requeue_bulk() and discard().         *)
(*                                                                         *)
(* A row is named by its dedupe_key (a unique column).  drain() holds one  *)
(* row lock at a time, in a transaction that also contains whatever the    *)
(* handlers write to the database, so an attempt is: lock the row, run the *)
(* topic's handlers in order, save the outcome and commit.  Everything the *)
(* handlers wrote is lost when that transaction rolls back; what they did  *)
(* outside the database is not.  A handler that raises is caught inside    *)
(* that transaction, with no savepoint around it, so that what it wrote    *)
(* before it raised is committed with the record of the failure.           *)
(***************************************************************************)
EXTENDS Integers, FiniteSets

CONSTANTS Keys,         \* dedupe keys
          MaxHandlers,  \* the most handlers a topic has
          NumHandlers,  \* number of handlers registered for the key's topic
          AbortKeys,    \* keys with a handler that can fail with a SQL error
          Workers,      \* processes that run drain()
          Operators,    \* processes that run requeue_bulk()
          NoKey,        \* "no event in hand"
          MaxAttempts,  \* OutboxEvent.max_attempts
          BatchSize,    \* drain(batch_size)
          BackoffBase, BackoffCap,  \* BACKOFF_*_SECONDS, in ticks
          PublishDelay, \* the delay_seconds some publishers ask for, in ticks
          Lag,          \* bound: how long overdue an event is told apart
          MaxInterventions, \* bound on operator actions
          MaxCrashes    \* bound on worker crashes

ASSUME OutboxAssumption ==
  /\ NoKey \notin Keys
  /\ MaxHandlers \in Nat
  /\ NumHandlers \in [Keys -> 0 .. MaxHandlers]
  /\ AbortKeys \subseteq Keys
  /\ MaxAttempts \in Nat \ {0}
  /\ BatchSize \in Nat \ {0}
  /\ BackoffBase \in Nat \ {0} /\ BackoffCap \in Nat \ {0}
  /\ PublishDelay \in Nat
  /\ Lag \in Nat
  /\ MaxInterventions \in Nat /\ MaxCrashes \in Nat

VARIABLES
  (* The OutboxEvent table, by dedupe key. *)
  status,     \* EventStatus, or "absent" when there is no such row
  attempts,   \* OutboxEvent.attempts
  due,        \* next_attempt_at minus the current time
  (* drain(), by worker. *)
  draining,   \* a drain() call is under way
  hidden,     \* rows whose next_attempt_at is after this drain's `now`
  processed,  \* drain()'s counter
  job,        \* the row locked by dispatch_one's transaction, or NoKey
  step,       \* the handler dispatch_one runs next
  (* requeue_bulk(), by operator. *)
  ids,        \* primary keys read as DEAD, {} outside a call
  before,     \* the drain() calls that began before this call read the clock
  (* Observation. *)
  ran,        \* handlers that completed for this row, committed or not
  committed,  \* how often database writes of each handler were committed,
              \* all of them or, if it raised, those it had done
  tried,      \* rows this drain() has locked
  (* Bounds. *)
  interventions, crashes

rows    == <<status, attempts, due>>
drains  == <<draining, hidden, processed, job, step, tried>>
bulk    == <<ids, before>>
effects == <<ran, committed>>
bounds  == <<interventions, crashes>>
vars    == <<rows, drains, bulk, effects, bounds>>

Statuses == {"absent", "pending", "retrying", "dispatched", "dead"}
Handlers(k) == 1 .. NumHandlers[k]

-----------------------------------------------------------------------------
(* Helpers. *)

\* Mutant: drain() forgets the rows that wait for a retry.
LivePendingOnly == {"pending"}

\* The statuses drain() selects.
Live == {"pending", "retrying"}

\* Some worker's transaction holds the row lock.
Locked(k) == \E w \in Workers : job[w] = k

\* _next_retry_delay: exponential in the number of attempts made, capped.
NextRetryDelay(n) ==
  IF BackoffBase * 2^n < BackoffCap THEN BackoffBase * 2^n ELSE BackoffCap

\* dispatch_one gives up after the n-th attempt.
Exhausted(n) == n >= MaxAttempts

\* The new next_attempt_at of the rows S is later than the `now` of the drain()
\* calls W, which will not select them.
Hide(S, W) ==
  hidden' = [w \in Workers |-> IF w \in W THEN hidden[w] \cup S ELSE hidden[w]]

Draining == {w \in Workers : draining[w]}

\* The rows the select of drain() can return to worker w.
Selectable(w) ==
  {k \in Keys : status[k] \in Live /\ due[k] <= 0 /\ k \notin hidden[w] /\ ~Locked(k)}

-----------------------------------------------------------------------------
Init ==
  /\ status    = [k \in Keys |-> "absent"]
  /\ attempts  = [k \in Keys |-> 0]
  /\ due       = [k \in Keys |-> 0]
  /\ draining  = [w \in Workers |-> FALSE]
  /\ hidden    = [w \in Workers |-> {}]
  /\ processed = [w \in Workers |-> 0]
  /\ job       = [w \in Workers |-> NoKey]
  /\ step      = [w \in Workers |-> 1]
  /\ tried     = [w \in Workers |-> {}]
  /\ ids       = [o \in Operators |-> {}]
  /\ before    = [o \in Operators |-> {}]
  /\ ran       = [k \in Keys |-> {}]
  /\ committed = [k \in Keys |-> [i \in 1 .. MaxHandlers |-> 0]]
  /\ interventions = 0
  /\ crashes = 0

\* Time passes.  Only differences matter, so the clock is the common shift of
\* all timers; an event overdue by Lag or more counts as overdue by Lag.
Tick ==
  /\ \E k \in Keys : status[k] \in Live /\ due[k] > -Lag
  /\ due' = [k \in Keys |->
               IF status[k] \in Live /\ due[k] > -Lag THEN due[k] - 1 ELSE due[k]]
  /\ UNCHANGED <<status, attempts, drains, bulk, effects, bounds>>

-----------------------------------------------------------------------------
(* publish() *)

\* get_or_create on the dedupe key, as the publisher's transaction commits.
\* With the row already there it changes nothing, which is a stuttering step.
\* W are the drain() calls that began before publish() read the clock; those
\* that began between that and the commit can select the row.  A delay is longer
\* than a transaction.
Publish(k, delay, W) ==
  /\ status[k] = "absent"
  /\ W \subseteq Draining
  /\ delay > 0 => W = Draining
  /\ status'    = [status EXCEPT ![k] = "pending"]
  /\ attempts'  = [attempts EXCEPT ![k] = 0]
  /\ due'       = [due EXCEPT ![k] = delay]
  /\ ran'       = [ran EXCEPT ![k] = {}]
  /\ committed' = [committed EXCEPT ![k] = [i \in 1 .. MaxHandlers |-> 0]]
  /\ Hide({k}, W)
  /\ UNCHANGED <<draining, processed, job, step, tried, bulk, bounds>>

-----------------------------------------------------------------------------
(* drain() and dispatch_one() *)

\* drain() reads the clock once, before its loop.
StartDrain(w) ==
  /\ ~draining[w]
  /\ draining'  = [draining EXCEPT ![w] = TRUE]
  /\ hidden'    = [hidden EXCEPT ![w] = {k \in Keys : due[k] > 0}]
  /\ UNCHANGED <<rows, processed, job, step, tried, bulk, effects, bounds>>

\* Lock the selectable row that is due longest, skipping locked ones.
Select(w, k) ==
  /\ draining[w] /\ job[w] = NoKey
  /\ processed[w] < BatchSize
  /\ k \in Selectable(w)
  /\ \A j \in Selectable(w) : due[k] <= due[j]
  /\ job'   = [job EXCEPT ![w] = k]
  /\ tried' = [tried EXCEPT ![w] = @ \cup {k}]
  /\ UNCHANGED <<rows, draining, hidden, processed, step, bulk, effects, bounds>>

\* drain() is over, and its local state with it.
LeaveDrain(w) ==
  /\ draining'  = [draining EXCEPT ![w] = FALSE]
  /\ hidden'    = [hidden EXCEPT ![w] = {}]
  /\ processed' = [processed EXCEPT ![w] = 0]
  /\ tried'     = [tried EXCEPT ![w] = {}]
  /\ job'       = [job EXCEPT ![w] = NoKey]
  /\ step'      = [step EXCEPT ![w] = 1]
  /\ before'    = [o \in Operators |-> before[o] \ {w}]

\* The loop ends: nothing to select, or batch_size rows done.
EndDrain(w) ==
  /\ draining[w] /\ job[w] = NoKey
  /\ Selectable(w) = {} \/ processed[w] >= BatchSize
  /\ LeaveDrain(w)
  /\ UNCHANGED <<rows, ids, effects, bounds>>

\* The next handler returns normally.
RunHandler(w) ==
  /\ job[w] # NoKey
  /\ step[w] \in Handlers(job[w])
  /\ ran'  = [ran EXCEPT ![job[w]] = @ \cup {step[w]}]
  /\ step' = [step EXCEPT ![w] = @ + 1]
  /\ UNCHANGED <<rows, draining, hidden, processed, job, tried, bulk, committed, bounds>>

\* The handlers that returned in the attempt of worker w.
Returned(w) == 1 .. step[w] - 1

\* The committed writes of row k, with those of the handlers H once more.
AddWrites(k, H) == [i \in 1 .. MaxHandlers |-> committed[k][i] + IF i \in H THEN 1 ELSE 0]

\* The transaction of worker w commits: the lock goes, and the database writes
\* of the handlers H are kept.
CommitAttempt(w, H) ==
  /\ job'       = [job EXCEPT ![w] = NoKey]
  /\ step'      = [step EXCEPT ![w] = 1]
  /\ processed' = [processed EXCEPT ![w] = @ + 1]
  /\ committed' = [committed EXCEPT ![job[w]] = AddWrites(job[w], H)]

\* dispatch_one without handlers: dispatched, not counted as an attempt.
DispatchUnhandled(w) ==
  /\ job[w] # NoKey
  /\ NumHandlers[job[w]] = 0
  /\ status' = [status EXCEPT ![job[w]] = "dispatched"]
  /\ CommitAttempt(w, {})
  /\ UNCHANGED <<attempts, due, draining, hidden, tried, bulk, ran, bounds>>

\* Mutant: the last handler is not waited for.
AllButOneReturned(w) == step[w] >= NumHandlers[job[w]]

\* dispatch_one's loop over the handlers ended without an exception.
AllReturned(w) == step[w] = NumHandlers[job[w]] + 1

MarkDispatched(w) ==
  /\ job[w] # NoKey
  /\ NumHandlers[job[w]] > 0
  /\ AllReturned(w)
  /\ status'   = [status EXCEPT ![job[w]] = "dispatched"]
  /\ attempts' = [attempts EXCEPT ![job[w]] = @ + 1]
  /\ CommitAttempt(w, Returned(w))
  /\ UNCHANGED <<due, draining, hidden, tried, bulk, ran, bounds>>

\* A handler raises.  dispatch_one catches it inside the transaction, so what
\* the earlier handlers wrote is committed together with the failure, and so is
\* what the raising handler had written, if anything.
MarkFailed(w) ==
  /\ job[w] # NoKey
  /\ step[w] \in Handlers(job[w])
  /\ LET k == job[w]
         n == attempts[k] + 1
     IN /\ attempts' = [attempts EXCEPT ![k] = n]
        /\ status'   = [status EXCEPT ![k] = IF Exhausted(n) THEN "dead" ELSE "retrying"]
        /\ due'      = [due EXCEPT ![k] = IF Exhausted(n) THEN @ ELSE NextRetryDelay(n)]
        /\ IF Exhausted(n) THEN UNCHANGED hidden ELSE Hide({k}, Draining)
  /\ \E H \in {Returned(w), 1 .. step[w]} : CommitAttempt(w, H)
  /\ UNCHANGED <<draining, tried, bulk, ran, bounds>>

\* Mutant: the handlers run outside the transaction that marks the row.
RollbackKeepsWrites(w) ==
  /\ IF job[w] # NoKey
       THEN committed' = [committed EXCEPT ![job[w]] = AddWrites(job[w], Returned(w))]
       ELSE UNCHANGED committed
  /\ LeaveDrain(w)
  /\ UNCHANGED <<rows, ids, ran, interventions>>

\* The transaction rolls back and the drain() call is over.
Rollback(w) ==
  /\ LeaveDrain(w)
  /\ UNCHANGED <<rows, ids, effects, interventions>>

\* A handler fails with a SQL error.  PostgreSQL refuses every further statement
\* of the transaction, dispatch_one's own save of the failure included, so the
\* exception leaves drain() and nothing is recorded.
AbortAttempt(w) ==
  /\ job[w] \in AbortKeys
  /\ step[w] \in Handlers(job[w])
  /\ Rollback(w)
  /\ UNCHANGED crashes

\* The worker process dies.
Crash(w) ==
  /\ draining[w]
  /\ crashes < MaxCrashes
  /\ crashes' = crashes + 1
  /\ Rollback(w)

-----------------------------------------------------------------------------
(* The dead-letter queue *)

\* dlq.requeue refuses a row that is missing or already dispatched.
Requeueable(k) == status[k] \notin {"absent", "dispatched"}

\* dlq.requeue.  It reads the clock after it locked the row: a drain() that had
\* the row before that began earlier, others may have begun before the commit.
Requeue(k, reset_attempts, W) ==
  /\ interventions < MaxInterventions
  /\ ~Locked(k)
  /\ W \subseteq Draining
  /\ \A w \in Workers : k \in tried[w] => w \in W
  /\ Requeueable(k)
  /\ status'   = [status EXCEPT ![k] = "pending"]
  /\ due'      = [due EXCEPT ![k] = 0]
  /\ attempts' = [attempts EXCEPT ![k] = IF reset_attempts THEN 0 ELSE @]
  /\ Hide({k}, W)
  /\ interventions' = interventions + 1
  /\ UNCHANGED <<draining, processed, job, step, tried, bulk, effects, crashes>>

\* dlq.requeue_bulk, first half: the ids of the DEAD rows that match the topic
\* and since filters, read without a lock, and the clock.
RequeueBulkRead(o, S) ==
  /\ interventions < MaxInterventions
  /\ ids[o] = {}
  /\ S # {}
  /\ \A k \in S : status[k] = "dead"
  /\ ids'    = [ids EXCEPT ![o] = S]
  /\ before' = [before EXCEPT ![o] = Draining]
  /\ interventions' = interventions + 1
  /\ UNCHANGED <<rows, drains, effects, crashes>>

\* dlq.requeue_bulk, second half: the UPDATE, which waits for row locks and
\* applies to every row that still has one of the ids, whatever its status.  The
\* new next_attempt_at is the time of the first half, `overdue` ticks ago.
RequeueBulkUpdate(o, reset_attempts, overdue) ==
  /\ ids[o] # {}
  /\ \A k \in ids[o] : ~Locked(k)
  /\ status'   = [k \in Keys |-> IF k \in ids[o] THEN "pending" ELSE status[k]]
  /\ due'      = [k \in Keys |-> IF k \in ids[o] THEN -overdue ELSE due[k]]
  /\ attempts' = [k \in Keys |-> IF k \in ids[o] /\ reset_attempts THEN 0 ELSE attempts[k]]
  /\ Hide(ids[o], before[o])
  /\ ids'    = [ids EXCEPT ![o] = {}]
  /\ before' = [before EXCEPT ![o] = {}]
  /\ UNCHANGED <<draining, processed, job, step, tried, effects, bounds>>

\* dlq.discard: the row is deleted.  A row published later under the same
\* dedupe key is another row, which no pending bulk requeue reaches.
Discard(k) ==
  /\ interventions < MaxInterventions
  /\ ~Locked(k)
  /\ status[k] \in {"dead", "retrying"}
  /\ status'   = [status EXCEPT ![k] = "absent"]
  /\ attempts' = [attempts EXCEPT ![k] = 0]
  /\ due'      = [due EXCEPT ![k] = 0]
  /\ ids'      = [o \in Operators |-> ids[o] \ {k}]
  /\ hidden'   = [w \in Workers |-> hidden[w] \ {k}]
  /\ tried'    = [w \in Workers |-> tried[w] \ {k}]
  /\ interventions' = interventions + 1
  /\ UNCHANGED <<draining, processed, job, step, before, effects, crashes>>

-----------------------------------------------------------------------------
Worker(w) ==
  \/ StartDrain(w)
  \/ \E k \in Keys : Select(w, k)
  \/ EndDrain(w)
  \/ RunHandler(w)
  \/ DispatchUnhandled(w)
  \/ MarkDispatched(w)
  \/ MarkFailed(w)
  \/ AbortAttempt(w)

Operator(o) ==
  \/ \E S \in SUBSET Keys : RequeueBulkRead(o, S)
  \/ \E reset_attempts \in BOOLEAN, overdue \in 0 .. Lag :
       RequeueBulkUpdate(o, reset_attempts, overdue)

Next ==
  \/ Tick
  \/ \E k \in Keys, delay \in {0, PublishDelay}, W \in SUBSET Workers : Publish(k, delay, W)
  \/ \E w \in Workers : Worker(w) \/ Crash(w)
  \/ \E k \in Keys, reset_attempts \in BOOLEAN, W \in SUBSET Workers :
       Requeue(k, reset_attempts, W)
  \/ \E k \in Keys : Discard(k)
  \/ \E o \in Operators : Operator(o)

Spec == Init /\ [][Next]_vars

\* Something calls drain() again and again (the beat entry that outbox/tasks.py
\* asks for, or `dispatch_outbox --loop`; CELERY_BEAT_SCHEDULE has no such entry),
\* and a handler call ends, so every worker keeps taking steps; time passes.
\* Nothing is assumed of the publishers, the operators, or a handler's outcome.
Fairness ==
  /\ WF_vars(Tick)
  /\ \A w \in Workers : WF_vars(Worker(w))

FairSpec == Spec /\ Fairness

-----------------------------------------------------------------------------
(* Properties *)

\* How far ahead next_attempt_at can be.
Delays == {d \in Int : d <= BackoffCap \/ d <= PublishDelay}

TypeOK ==
  /\ status \in [Keys -> Statuses]
  /\ attempts \in [Keys -> Nat]
  /\ due \in [Keys -> Delays]
  /\ draining \in [Workers -> BOOLEAN]
  /\ hidden \in [Workers -> SUBSET Keys]
  /\ processed \in [Workers -> Nat]
  /\ job \in [Workers -> Keys \cup {NoKey}]
  /\ step \in [Workers -> Nat]
  /\ tried \in [Workers -> SUBSET Keys]
  /\ ids \in [Operators -> SUBSET Keys]
  /\ before \in [Operators -> SUBSET Workers]
  /\ ran \in [Keys -> SUBSET Nat]
  /\ committed \in [Keys -> [1 .. MaxHandlers -> Nat]]
  /\ interventions \in Nat /\ crashes \in Nat

\* What dispatch_one saves is computed from the row it selected.  While it runs
\* handlers nobody else runs them for the same row, and no operator takes the
\* row out of the state it was selected in ("without picking the same row
\* twice", dispatcher.py).
RowHeldStaysLive ==
  \A w \in Workers : job[w] # NoKey =>
    /\ status[job[w]] \in {"pending", "retrying"}
    /\ draining[w]
    /\ \A v \in Workers : job[v] = job[w] => v = w

\* A row is marked dispatched only after each of its topic's handlers returned
\* for it, across any number of failed attempts and crashes.
DispatchedWasHandled ==
  \A k \in Keys : status[k] = "dispatched" => ran[k] = Handlers(k)

\* The strengthening that makes the two properties above inductive: the local
\* state of a drain() call, and that its handlers up to `step` returned.
DrainState ==
  \A w \in Workers :
    /\ job[w] = NoKey => step[w] = 1
    /\ ~draining[w] => job[w] = NoKey /\ tried[w] = {} /\ processed[w] = 0
    /\ job[w] # NoKey =>
         /\ job[w] \in tried[w]
         /\ step[w] \in 1 .. NumHandlers[job[w]] + 1
         /\ \A i \in Handlers(job[w]) : i < step[w] => i \in ran[job[w]]

RanOnlyHandlers == \A k \in Keys : ran[k] \subseteq Handlers(k)

DispatchInv ==
  RowHeldStaysLive /\ DrainState /\ RanOnlyHandlers /\ DispatchedWasHandled

\* What handlers write for a row becomes durable only in the step that counts the
\* attempt on the row, so neither a crash nor a SQL error leaves writes without a
\* trace.  The mark DISPATCHED comes with the writes of all handlers, each once
\* more.  A failed attempt may leave writes too, of handlers up to the one that
\* raised, and a retry repeats those ("Handlers should be idempotent", handlers.py).
WritesWithMark ==
  \A k \in Keys : LET more(i) == committed'[k][i] - committed[k][i] IN
    /\ status[k] # "absent" /\ committed'[k] # committed[k] =>
         /\ status[k] \in {"pending", "retrying"}
         /\ attempts'[k] = attempts[k] + 1
         /\ status'[k] # "dispatched" =>
              /\ status'[k] \in {"retrying", "dead"}
              /\ \A i, j \in Handlers(k) : i <= j => 0 <= more(j) /\ more(j) <= more(i) /\ more(i) <= 1
    /\ status[k] # "dispatched" /\ status'[k] = "dispatched" =>
         \A i \in Handlers(k) : more(i) = 1

MarkedWithWrites == [][WritesWithMark]_vars

\* The writes of every handler are in the database when the row says dispatched,
\* whatever crashes, failures and requeues came before.
DispatchedIsWritten ==
  \A k \in Keys : status[k] = "dispatched" =>
    \A i \in Handlers(k) : committed[k][i] >= 1

\* Where nobody intervenes, a handler's writes are repeated at most as often as the
\* row has counted attempts, of which there are max_attempts at the most.
WritesPerAttempt ==
  \A k \in Keys : status[k] # "absent" =>
    /\ attempts[k] <= MaxAttempts
    /\ \A i \in Handlers(k) : committed[k][i] <= attempts[k]

\* Retries stop at max_attempts: a row that waits for a retry has attempts left,
\* and a dead row has none, also after requeues that keep the counter.
RetryBudget ==
  \A k \in Keys :
    /\ status[k] = "retrying" => attempts[k] \in 1 .. MaxAttempts - 1
    /\ status[k] = "dead" => attempts[k] >= MaxAttempts

\* One drain() call tries a row at most once, however often the row fails or is
\* requeued meanwhile, so a failing row cannot use up the batch.  (A bulk requeue
\* breaks this, with a time it read before it had the row locks.)
OncePerDrain ==
  [][\A w \in Workers, k \in Keys :
       job[w] = NoKey /\ job'[w] = k => k \notin tried[w]]_vars

\* The strengthening that makes OncePerDrain hold: a row this drain() is done
\* with is one it cannot select again.
TriedIsOver ==
  \A w \in Workers : \A k \in tried[w] :
    /\ status[k] # "absent"
    /\ job[w] = k \/ status[k] \notin {"pending", "retrying"} \/ k \in hidden[w]

\* A dispatched row is never put back in the queue ("already DISPATCHED; nothing
\* to requeue", dlq.py).
DispatchedIsFinal ==
  [][\A k \in Keys : status[k] = "dispatched" => status'[k] = "dispatched"]_vars

\* Every published row is eventually dispatched, dead or discarded, unless some
\* handler poisons the transaction of its row (AbortAttempt) again and again.
Settled(k) == status[k] \in {"absent", "dispatched", "dead"}
EventuallySettled ==
  \/ \A k \in Keys : []<>Settled(k)
  \/ []<><<\E w \in Workers : AbortAttempt(w)>>_vars
=============================================================================
