---------------------------- MODULE OutboxProofs ----------------------------
(***************************************************************************)
(* Proofs about Outbox, for every number of events, workers, operators,    *)
(* handlers and attempts.                                                  *)
(***************************************************************************)
EXTENDS Outbox, TLAPS

-----------------------------------------------------------------------------
(* Type correctness *)

LEMMA DelayType == \A n \in Nat : NextRetryDelay(n) \in Delays
  BY OutboxAssumption DEF NextRetryDelay, Delays

\* The committed writes of a row stay counters.
LEMMA AddWritesType ==
  ASSUME TypeOK, NEW k \in Keys, NEW H
  PROVE  AddWrites(k, H) \in [1 .. MaxHandlers -> Nat]
<1>1. committed[k] \in [1 .. MaxHandlers -> Nat]
  BY DEF TypeOK
<1>2. ASSUME NEW i \in 1 .. MaxHandlers
      PROVE  committed[k][i] + (IF i \in H THEN 1 ELSE 0) \in Nat
  <2>1. committed[k][i] \in Nat
    BY <1>1
  <2> QED BY <2>1
<1> QED BY <1>2 DEF AddWrites

\* What a commit does to the observation of committed handlers is well typed.
LEMMA CommitType ==
  ASSUME TypeOK, NEW w \in Workers, job[w] # NoKey, NEW H, CommitAttempt(w, H)
  PROVE  /\ job' \in [Workers -> Keys \cup {NoKey}]
         /\ step' \in [Workers -> Nat]
         /\ processed' \in [Workers -> Nat]
         /\ committed' \in [Keys -> [1 .. MaxHandlers -> Nat]]
<1>1. job[w] \in Keys
  BY DEF TypeOK
<1>2. AddWrites(job[w], H) \in [1 .. MaxHandlers -> Nat]
  BY <1>1, AddWritesType
<1>3. committed' \in [Keys -> [1 .. MaxHandlers -> Nat]]
  BY <1>1, <1>2 DEF CommitAttempt, TypeOK
<1> QED BY <1>3 DEF TypeOK, CommitAttempt

LEMMA TypeNext == TypeOK /\ [Next]_vars => TypeOK'
<1> SUFFICES ASSUME TypeOK, [Next]_vars PROVE TypeOK'
  OBVIOUS
<1> USE OutboxAssumption
<1>1. CASE Tick
  <2>1. ASSUME NEW k \in Keys PROVE due'[k] \in Delays
    <3>1. due[k] \in Delays
      BY DEF TypeOK, bulk
    <3>2. due'[k] = due[k] - 1 \/ due'[k] = due[k]
      BY <1>1 DEF Tick
    <3>3. due[k] - 1 \in Delays
      BY <3>1 DEF Delays
    <3> QED BY <3>1, <3>2, <3>3
  <2>2. due' \in [Keys -> Delays]
    BY <1>1, <2>1 DEF Tick
  <2> QED BY <1>1, <2>2 DEF Tick, TypeOK, bulk, drains, effects, bounds
<1>2. ASSUME NEW k \in Keys, NEW delay \in {0, PublishDelay},
             NEW W \in SUBSET Workers, Publish(k, delay, W)
      PROVE  TypeOK'
  <2>1. status' \in [Keys -> Statuses] /\ attempts' \in [Keys -> Nat]
    BY <1>2 DEF Publish, TypeOK, Statuses
  <2>2. due' \in [Keys -> Delays]
    BY <1>2 DEF Publish, TypeOK, Delays
  <2>3. ran' \in [Keys -> SUBSET Nat] /\ committed' \in [Keys -> [1 .. MaxHandlers -> Nat]]
    BY <1>2 DEF Publish, TypeOK
  <2>4. hidden' \in [Workers -> SUBSET Keys]
    BY <1>2 DEF Publish, Hide, TypeOK
  <2> QED BY <1>2, <2>1, <2>2, <2>3, <2>4 DEF Publish, TypeOK, bulk, bounds
<1>3. ASSUME NEW w \in Workers, StartDrain(w) PROVE TypeOK'
  BY <1>3 DEF StartDrain, TypeOK, bulk, rows, effects, bounds
<1>4. ASSUME NEW w \in Workers, NEW k \in Keys, Select(w, k) PROVE TypeOK'
  BY <1>4 DEF Select, TypeOK, bulk, rows, effects, bounds
<1>5. ASSUME NEW w \in Workers, EndDrain(w) PROVE TypeOK'
  BY <1>5 DEF EndDrain, LeaveDrain, TypeOK, bulk, rows, effects, bounds
<1>6. ASSUME NEW w \in Workers, RunHandler(w) PROVE TypeOK'
  <2>1. ran' \in [Keys -> SUBSET Nat] /\ step' \in [Workers -> Nat]
    BY <1>6 DEF RunHandler, TypeOK, Handlers
  <2> QED BY <1>6, <2>1 DEF RunHandler, TypeOK, bulk, rows, bounds
<1>7. ASSUME NEW w \in Workers, DispatchUnhandled(w) PROVE TypeOK'
  <2>1. CommitAttempt(w, {}) /\ job[w] # NoKey
    BY <1>7 DEF DispatchUnhandled
  <2>2. status' \in [Keys -> Statuses]
    BY <1>7 DEF DispatchUnhandled, TypeOK, bulk, Statuses
  <2> QED BY <1>7, <2>1, <2>2, CommitType DEF DispatchUnhandled, TypeOK, bulk, bounds
<1>8. ASSUME NEW w \in Workers, MarkDispatched(w) PROVE TypeOK'
  <2>1. CommitAttempt(w, Returned(w)) /\ job[w] # NoKey
    BY <1>8 DEF MarkDispatched
  <2>2. status' \in [Keys -> Statuses] /\ attempts' \in [Keys -> Nat]
    BY <1>8 DEF MarkDispatched, TypeOK, bulk, Statuses
  <2> QED BY <1>8, <2>1, <2>2, CommitType DEF MarkDispatched, TypeOK, bulk, bounds
<1>9. ASSUME NEW w \in Workers, MarkFailed(w) PROVE TypeOK'
  <2>1. job[w] # NoKey
    BY <1>9 DEF MarkFailed
  <2>a. PICK H \in {Returned(w), 1 .. step[w]} : CommitAttempt(w, H)
    BY <1>9 DEF MarkFailed
  <2>2. attempts[job[w]] + 1 \in Nat
    BY <2>1 DEF TypeOK, bulk
  <2>3. NextRetryDelay(attempts[job[w]] + 1) \in Delays
    BY <2>2, DelayType
  <2>4. attempts' \in [Keys -> Nat] /\ status' \in [Keys -> Statuses]
    <3>1. attempts' = [attempts EXCEPT ![job[w]] = attempts[job[w]] + 1]
      BY <1>9 DEF MarkFailed
    <3>2. PICK s \in Statuses : status' = [status EXCEPT ![job[w]] = s]
      BY <1>9 DEF MarkFailed, Statuses
    <3> QED BY <3>1, <3>2, <2>1, <2>2 DEF TypeOK, bulk
  <2>5. due' \in [Keys -> Delays]
    BY <1>9, <2>1, <2>3 DEF MarkFailed, TypeOK, bulk
  <2>6. hidden' \in [Workers -> SUBSET Keys]
    <3>1. hidden' = hidden \/ Hide({job[w]}, Draining)
      BY <1>9 DEF MarkFailed
    <3>2. job[w] \in Keys
      BY <2>1 DEF TypeOK, bulk
    <3>3. hidden \in [Workers -> SUBSET Keys]
      BY DEF TypeOK, bulk
    <3>4. CASE Hide({job[w]}, Draining)
      BY <3>2, <3>3, <3>4 DEF Hide
    <3> QED BY <3>1, <3>3, <3>4
  <2> QED BY <1>9, <2>1, <2>a, <2>4, <2>5, <2>6, CommitType DEF MarkFailed, TypeOK, bulk, bounds
<1>10. ASSUME NEW w \in Workers, AbortAttempt(w) PROVE TypeOK'
  BY <1>10 DEF AbortAttempt, Rollback, LeaveDrain, TypeOK, bulk, rows, effects
<1>11. ASSUME NEW w \in Workers, Crash(w) PROVE TypeOK'
  BY <1>11 DEF Crash, Rollback, LeaveDrain, TypeOK, bulk, rows, effects
<1>12. ASSUME NEW k \in Keys, NEW r \in BOOLEAN, NEW W \in SUBSET Workers,
              Requeue(k, r, W)
       PROVE  TypeOK'
  BY <1>12 DEF Requeue, Hide, TypeOK, bulk, Delays, Statuses, effects
<1>13. ASSUME NEW k \in Keys, Discard(k) PROVE TypeOK'
  BY <1>13 DEF Discard, TypeOK, bulk, Delays, Statuses, drains, effects, bounds
<1>14. ASSUME NEW o \in Operators, NEW S \in SUBSET Keys, RequeueBulkRead(o, S)
       PROVE  TypeOK'
  BY <1>14 DEF RequeueBulkRead, Draining, TypeOK, rows, drains, effects
<1>15. ASSUME NEW o \in Operators, NEW r \in BOOLEAN, NEW t \in 0 .. Lag,
              RequeueBulkUpdate(o, r, t)
       PROVE  TypeOK'
  BY <1>15 DEF RequeueBulkUpdate, Hide, TypeOK, bulk, Delays, Statuses, effects, bounds
<1>16. CASE UNCHANGED vars
  BY <1>16 DEF vars, TypeOK, bulk, rows, drains, bulk, effects, bounds
<1> QED
  BY <1>1, <1>2, <1>3, <1>4, <1>5, <1>6, <1>7, <1>8, <1>9, <1>10, <1>11,
     <1>12, <1>13, <1>14, <1>15, <1>16 DEF Next, Worker, Operator

\* The type invariant: every step of publishers, workers, operators and the
\* clock keeps the columns, the drain() state and the observations well typed.
THEOREM TypeCorrect == Spec => []TypeOK
<1>1. Init => TypeOK
  BY OutboxAssumption DEF Init, TypeOK, bulk, Statuses, Handlers, Delays
<1> QED BY <1>1, TypeNext, PTL DEF Spec

-----------------------------------------------------------------------------
(* Retries stop at max_attempts *)

\* Spec implies RetryBudget: only MarkFailed makes a row retrying or dead, and
\* it compares the counter it has just incremented; a requeue leaves a row
\* pending, with or without its counter.
THEOREM RetriesAreBounded == Spec => []RetryBudget
<1>1. Init => RetryBudget
  BY DEF Init, RetryBudget
<1>2. TypeOK /\ RetryBudget /\ [Next]_vars => RetryBudget'
  <2> SUFFICES ASSUME TypeOK, RetryBudget, [Next]_vars, NEW k \in Keys
               PROVE  /\ status'[k] = "retrying" => attempts'[k] \in 1 .. MaxAttempts - 1
                      /\ status'[k] = "dead" => attempts'[k] >= MaxAttempts
    BY DEF RetryBudget
  <2> USE OutboxAssumption DEF TypeOK
  <2> DEFINE P == /\ status'[k] = "retrying" => attempts'[k] \in 1 .. MaxAttempts - 1
                  /\ status'[k] = "dead" => attempts'[k] >= MaxAttempts
  <2>1. CASE UNCHANGED <<status, attempts>>
    BY <2>1 DEF RetryBudget
  <2>2. ASSUME NEW j \in Keys, NEW delay \in {0, PublishDelay},
               NEW W \in SUBSET Workers, Publish(j, delay, W)
        PROVE  P
    BY <2>2 DEF Publish, RetryBudget
  <2>3. ASSUME NEW w \in Workers, DispatchUnhandled(w) PROVE P
    BY <2>3 DEF DispatchUnhandled, RetryBudget
  <2>4. ASSUME NEW w \in Workers, MarkDispatched(w) PROVE P
    BY <2>4 DEF MarkDispatched, RetryBudget
  <2>5. ASSUME NEW w \in Workers, MarkFailed(w) PROVE P
    <3>1. job[w] \in Keys
      BY <2>5 DEF MarkFailed
    <3>2. CASE k = job[w]
      <4> DEFINE n == attempts[k] + 1
      <4>1. attempts' = [attempts EXCEPT ![k] = n]
        BY <2>5, <3>2 DEF MarkFailed
      <4>2. status' = [status EXCEPT ![k] = IF Exhausted(n) THEN "dead" ELSE "retrying"]
        BY <2>5, <3>2 DEF MarkFailed
      <4>3. attempts'[k] = n /\ n \in Nat \ {0}
        BY <4>1
      <4>4. status'[k] = IF n >= MaxAttempts THEN "dead" ELSE "retrying"
        BY <4>2 DEF Exhausted
      <4> HIDE DEF n, TypeOK
      <4> QED BY <4>3, <4>4
    <3>3. CASE k # job[w]
      BY <2>5, <3>1, <3>3 DEF MarkFailed, RetryBudget
    <3> QED BY <3>2, <3>3
  <2>6. ASSUME NEW j \in Keys, NEW r \in BOOLEAN, NEW W \in SUBSET Workers,
               Requeue(j, r, W)
        PROVE  P
    BY <2>6 DEF Requeue, RetryBudget
  <2>7. ASSUME NEW j \in Keys, Discard(j) PROVE P
    BY <2>7 DEF Discard, RetryBudget
  <2>8. ASSUME NEW o \in Operators, NEW r \in BOOLEAN, NEW t \in 0 .. Lag,
               RequeueBulkUpdate(o, r, t)
        PROVE  P
    BY <2>8 DEF RequeueBulkUpdate, RetryBudget
  <2>9. ASSUME NEW w \in Workers,
               \/ StartDrain(w) \/ (\E j \in Keys : Select(w, j)) \/ EndDrain(w)
               \/ RunHandler(w) \/ AbortAttempt(w) \/ Crash(w)
        PROVE  UNCHANGED <<status, attempts>>
    BY <2>9 DEF StartDrain, Select, EndDrain, RunHandler, AbortAttempt, Crash,
                Rollback, rows
  <2>10. Tick \/ UNCHANGED vars \/ (\E o \in Operators, S \in SUBSET Keys : RequeueBulkRead(o, S))
           => UNCHANGED <<status, attempts>>
    BY DEF Tick, vars, rows, RequeueBulkRead
  <2> QED
    BY <2>1, <2>2, <2>3, <2>4, <2>5, <2>6, <2>7, <2>8, <2>9, <2>10
       DEF Next, Worker, Operator
<1> QED BY <1>1, <1>2, TypeCorrect, PTL DEF Spec

-----------------------------------------------------------------------------
(* Row locks, and what "dispatched" means *)

\* The steps that leave the row alone that some worker holds: rows of others
\* change, held ones do not, and the observations of held rows only grow.
LEMMA DispatchInvInit == Init => DispatchInv
  BY OutboxAssumption
     DEF Init, DispatchInv, RowHeldStaysLive, DrainState, RanOnlyHandlers,
         DispatchedWasHandled, Handlers

LEMMA DispatchInvNext == TypeOK /\ DispatchInv /\ [Next]_vars => DispatchInv'
<1> SUFFICES ASSUME TypeOK, DispatchInv, [Next]_vars PROVE DispatchInv'
  OBVIOUS
<1> USE OutboxAssumption DEF TypeOK
<1> USE DEF DispatchInv, RowHeldStaysLive, DrainState, RanOnlyHandlers, DispatchedWasHandled
<1>1. CASE Tick
  BY <1>1 DEF Tick, drains, effects
<1>2. ASSUME NEW k \in Keys, NEW delay \in {0, PublishDelay},
             NEW W \in SUBSET Workers, Publish(k, delay, W)
      PROVE  DispatchInv'
  <2>1. ASSUME NEW w \in Workers, job[w] = k PROVE FALSE
    <3>1. job[w] # NoKey
      BY <2>1
    <3>2. status[k] \in {"pending", "retrying"}
      BY <2>1, <3>1
    <3> QED BY <1>2, <3>2 DEF Publish
  <2>2. RowHeldStaysLive'
    BY <1>2, <2>1 DEF Publish
  <2>3. DrainState'
    BY <1>2, <2>1 DEF Publish
  <2>4. RanOnlyHandlers' /\ DispatchedWasHandled'
    BY <1>2 DEF Publish
  <2> QED BY <2>2, <2>3, <2>4
<1>3. ASSUME NEW w \in Workers, StartDrain(w) PROVE DispatchInv'
  BY <1>3 DEF StartDrain, rows, effects
<1>4. ASSUME NEW w \in Workers, NEW k \in Keys, Select(w, k) PROVE DispatchInv'
  <2>1. status[k] \in {"pending", "retrying"} /\ \A v \in Workers : job[v] # k
    BY <1>4 DEF Select, Selectable, Live, Locked
  <2>2. RowHeldStaysLive'
    BY <1>4, <2>1 DEF Select, rows
  <2>3. DrainState'
    <3>1. ASSUME NEW v \in Workers, v # w
          PROVE  job'[v] = job[v] /\ tried'[v] = tried[v]
      BY <1>4, <3>1 DEF Select
    <3>2. job'[w] = k /\ k \in tried'[w] /\ draining[w] /\ step[w] = 1
      BY <1>4 DEF Select
    <3>3. NumHandlers[k] \in Nat
      OBVIOUS
    <3>4. UNCHANGED <<draining, processed, step, ran>>
      BY <1>4 DEF Select, effects
    <3> SUFFICES ASSUME NEW v \in Workers
                 PROVE  /\ job'[v] = NoKey => step'[v] = 1
                        /\ ~draining'[v] => job'[v] = NoKey /\ tried'[v] = {} /\ processed'[v] = 0
                        /\ job'[v] # NoKey =>
                             /\ job'[v] \in tried'[v]
                             /\ step'[v] \in 1 .. NumHandlers[job'[v]] + 1
                             /\ \A i \in Handlers(job'[v]) : i < step'[v] => i \in ran'[job'[v]]
      OBVIOUS
    <3>5. CASE v # w
      BY <3>1, <3>4, <3>5
    <3>6. CASE v = w
      BY <3>2, <3>3, <3>4, <3>6 DEF Handlers
    <3> QED BY <3>5, <3>6
  <2>4. RanOnlyHandlers' /\ DispatchedWasHandled'
    BY <1>4 DEF Select, rows, effects
  <2> QED BY <2>2, <2>3, <2>4
<1>5. ASSUME NEW w \in Workers, EndDrain(w) PROVE DispatchInv'
  BY <1>5 DEF EndDrain, LeaveDrain, rows, effects
<1>6. ASSUME NEW w \in Workers, RunHandler(w) PROVE DispatchInv'
  <2>1. RowHeldStaysLive'
    BY <1>6 DEF RunHandler, rows
  <2>2. job[w] \in Keys /\ step[w] \in Handlers(job[w])
    BY <1>6 DEF RunHandler
  <2>3. DrainState'
    <3>1. NumHandlers[job[w]] \in Nat /\ step[w] \in Nat
      BY <2>2
    <3>2. step'[w] = step[w] + 1 /\ ran'[job[w]] = ran[job[w]] \cup {step[w]}
      BY <1>6, <2>2 DEF RunHandler
    <3>3. \A k \in Keys : ran[k] \subseteq ran'[k]
      BY <1>6 DEF RunHandler
    <3>4. \A v \in Workers : v # w => step'[v] = step[v]
      BY <1>6 DEF RunHandler
    <3>5. UNCHANGED <<job, draining, tried, processed>>
      BY <1>6 DEF RunHandler
    <3> SUFFICES ASSUME NEW v \in Workers
                 PROVE  /\ job[v] = NoKey => step'[v] = 1
                        /\ job[v] # NoKey =>
                             /\ step'[v] \in 1 .. NumHandlers[job[v]] + 1
                             /\ \A i \in Handlers(job[v]) : i < step'[v] => i \in ran'[job[v]]
      BY <3>5
    <3>6. CASE v # w
      BY <3>3, <3>4, <3>6
    <3>7. CASE v = w
      <4>1. job[v] \in Keys /\ job[v] # NoKey /\ step[v] \in Handlers(job[v])
        BY <1>6, <2>2, <3>7 DEF RunHandler
      <4>2. \A i \in Handlers(job[v]) : i < step[v] => i \in ran[job[v]]
        BY <3>7, <4>1 DEF DrainState
      <4>3. NumHandlers[job[v]] \in Nat
        BY <4>1, OutboxAssumption
      <4>4. step'[v] \in 1 .. NumHandlers[job[v]] + 1
        BY <3>2, <3>7, <4>1, <4>3 DEF Handlers
      <4>5. ASSUME NEW i \in Handlers(job[v]), i < step'[v] PROVE i \in ran'[job[v]]
        <5>1. i < step[v] \/ i = step[v]
          BY <3>2, <3>7, <4>1, <4>3, <4>5 DEF Handlers
        <5> QED BY <3>2, <3>7, <4>2, <4>5, <5>1
      <4> QED BY <4>1, <4>4, <4>5
    <3> QED BY <3>6, <3>7
  <2>4. RanOnlyHandlers'
    BY <1>6, <2>2 DEF RunHandler
  <2>5. DispatchedWasHandled'
    <3>1. status[job[w]] # "dispatched"
      BY <1>6 DEF RunHandler
    <3> QED BY <1>6, <3>1 DEF RunHandler, rows
  <2> QED BY <2>1, <2>3, <2>4, <2>5
<1>7. ASSUME NEW w \in Workers, DispatchUnhandled(w) PROVE DispatchInv'
  <2>1. job[w] \in Keys
    BY <1>7 DEF DispatchUnhandled
  <2>2. RowHeldStaysLive'
    BY <1>7, <2>1 DEF DispatchUnhandled, CommitAttempt
  <2>3. DrainState'
    BY <1>7, <2>1 DEF DispatchUnhandled, CommitAttempt
  <2>4. RanOnlyHandlers'
    BY <1>7 DEF DispatchUnhandled
  <2>5. DispatchedWasHandled'
    <3>1. Handlers(job[w]) \subseteq ran[job[w]]
      <4>1. NumHandlers[job[w]] = 0
        BY <1>7 DEF DispatchUnhandled
      <4> QED BY <4>1 DEF Handlers
    <3>2. ran[job[w]] = Handlers(job[w])
      <4>1. ran[job[w]] \subseteq Handlers(job[w])
        BY <2>1
      <4> HIDE DEF DispatchInv, TypeOK
      <4> QED BY <3>1, <4>1
    <3>3. \A k \in Keys : k # job[w] => status'[k] = status[k]
      BY <1>7 DEF DispatchUnhandled
    <3>4. ran' = ran
      BY <1>7 DEF DispatchUnhandled
    <3> QED BY <3>2, <3>3, <3>4
  <2> QED BY <2>2, <2>3, <2>4, <2>5
<1>8. ASSUME NEW w \in Workers, MarkDispatched(w) PROVE DispatchInv'
  <2>1. job[w] \in Keys
    BY <1>8 DEF MarkDispatched
  <2>2. RowHeldStaysLive'
    BY <1>8, <2>1 DEF MarkDispatched, CommitAttempt
  <2>3. DrainState'
    BY <1>8, <2>1 DEF MarkDispatched, CommitAttempt
  <2>4. RanOnlyHandlers'
    BY <1>8 DEF MarkDispatched
  <2>5. DispatchedWasHandled'
    <3>1. Handlers(job[w]) \subseteq ran[job[w]]
      <4>1. step[w] = NumHandlers[job[w]] + 1 /\ job[w] # NoKey
        BY <1>8 DEF MarkDispatched, AllReturned
      <4>2. \A i \in Handlers(job[w]) : i < step[w]
        BY <2>1, <4>1 DEF Handlers
      <4> QED BY <4>1, <4>2
    <3>2. ran[job[w]] = Handlers(job[w])
      <4>1. ran[job[w]] \subseteq Handlers(job[w])
        BY <2>1
      <4> HIDE DEF DispatchInv, TypeOK
      <4> QED BY <3>1, <4>1
    <3>3. \A k \in Keys : k # job[w] => status'[k] = status[k]
      BY <1>8 DEF MarkDispatched
    <3>4. ran' = ran
      BY <1>8 DEF MarkDispatched
    <3> QED BY <3>2, <3>3, <3>4
  <2> QED BY <2>2, <2>3, <2>4, <2>5
<1>9. ASSUME NEW w \in Workers, MarkFailed(w) PROVE DispatchInv'
  BY <1>9 DEF MarkFailed, CommitAttempt
<1>10. ASSUME NEW w \in Workers, AbortAttempt(w) \/ Crash(w) PROVE DispatchInv'
  <2>1. LeaveDrain(w) /\ UNCHANGED <<status, ran>>
    BY <1>10 DEF AbortAttempt, Crash, Rollback, rows, effects
  <2>2. RowHeldStaysLive'
    BY <2>1 DEF LeaveDrain
  <2>3. DrainState'
    BY <2>1 DEF LeaveDrain
  <2> QED BY <2>1, <2>2, <2>3
<1>11. ASSUME NEW k \in Keys, NEW r \in BOOLEAN, NEW W \in SUBSET Workers,
              Requeue(k, r, W)
       PROVE  DispatchInv'
  BY <1>11 DEF Requeue, Locked, effects
<1>12. ASSUME NEW k \in Keys, Discard(k) PROVE DispatchInv'
  BY <1>12 DEF Discard, Locked, drains, effects
<1>13. ASSUME NEW o \in Operators, NEW S \in SUBSET Keys, RequeueBulkRead(o, S)
       PROVE  DispatchInv'
  BY <1>13 DEF RequeueBulkRead, rows, drains, effects
<1>14. ASSUME NEW o \in Operators, NEW r \in BOOLEAN, NEW t \in 0 .. Lag,
              RequeueBulkUpdate(o, r, t)
       PROVE  DispatchInv'
  BY <1>14 DEF RequeueBulkUpdate, Locked, effects
<1>15. CASE UNCHANGED vars
  BY <1>15 DEF vars, rows, drains, effects
<1> HIDE DEF DispatchInv, TypeOK
<1> QED
  BY <1>1, <1>2, <1>3, <1>4, <1>5, <1>6, <1>7, <1>8, <1>9, <1>10, <1>11, <1>12,
     <1>13, <1>14, <1>15 DEF Next, Worker, Operator

\* Spec implies RowHeldStaysLive: between its select and its commit a worker is
\* alone with the row, and the row stays as it was selected.
THEOREM RowLocksHold == Spec => []RowHeldStaysLive
  BY DispatchInvInit, DispatchInvNext, TypeCorrect, PTL DEF Spec, DispatchInv

\* Spec implies DispatchedWasHandled: no sequence of failures, crashes, requeues
\* and discards gets a row marked dispatched with a handler that never returned.
THEOREM DispatchedMeansHandled == Spec => []DispatchedWasHandled
  BY DispatchInvInit, DispatchInvNext, TypeCorrect, PTL DEF Spec, DispatchInv

-----------------------------------------------------------------------------
(* One attempt per row and drain() call *)

LEMMA TriedIsOverNext ==
  ASSUME Operators = {}
  PROVE  TypeOK /\ DispatchInv /\ TriedIsOver /\ [Next]_vars => TriedIsOver'
<1> SUFFICES ASSUME TypeOK, DispatchInv, TriedIsOver, [Next]_vars,
                    NEW v \in Workers, NEW j \in tried'[v]
             PROVE  /\ status'[j] # "absent"
                    /\ \/ job'[v] = j
                       \/ status'[j] \notin {"pending", "retrying"}
                       \/ j \in hidden'[v]
  BY DEF TriedIsOver
<1> USE OutboxAssumption
<1> DEFINE P == /\ status'[j] # "absent"
                /\ \/ job'[v] = j
                   \/ status'[j] \notin {"pending", "retrying"}
                   \/ j \in hidden'[v]
<1> USE DEF TypeOK, TriedIsOver
<1>a. j \in tried[v] => draining[v]
  BY DEF DispatchInv, DrainState
<1>1. CASE UNCHANGED <<status, hidden, tried, job>>
  BY <1>1
<1>2. ASSUME NEW k \in Keys, NEW delay \in {0, PublishDelay},
             NEW W \in SUBSET Workers, Publish(k, delay, W)
      PROVE  P
  BY <1>2, <1>a DEF Publish, Hide
<1>3. ASSUME NEW w \in Workers, StartDrain(w) PROVE P
  <2>1. tried[w] = {}
    BY <1>3 DEF StartDrain, DispatchInv, DrainState
  <2> QED BY <1>3, <2>1 DEF StartDrain, rows
<1>4. ASSUME NEW w \in Workers, NEW k \in Keys, Select(w, k) PROVE P
  <2>1. CASE v # w
    BY <1>4, <2>1 DEF Select, rows
  <2>2. CASE v = w /\ j # k
    <3>1. j \in tried[v] /\ job[v] = NoKey /\ j # NoKey
      BY <1>4, <2>2 DEF Select
    <3> QED BY <1>4, <2>2, <3>1 DEF Select, rows
  <2>3. CASE v = w /\ j = k
    BY <1>4, <2>3 DEF Select, Selectable, Live, rows
  <2> QED BY <2>1, <2>2, <2>3
<1>5. ASSUME NEW w \in Workers, EndDrain(w) \/ AbortAttempt(w) \/ Crash(w) PROVE P
  <2>1. LeaveDrain(w) /\ status' = status
    BY <1>5 DEF EndDrain, AbortAttempt, Crash, Rollback, rows
  <2> QED BY <2>1 DEF LeaveDrain
<1>6. ASSUME NEW w \in Workers, RunHandler(w) PROVE P
  BY <1>6, <1>1 DEF RunHandler, rows
<1>7. ASSUME NEW w \in Workers, DispatchUnhandled(w) \/ MarkDispatched(w) PROVE P
  <2>1. job[w] \in Keys /\ status' = [status EXCEPT ![job[w]] = "dispatched"]
    BY <1>7 DEF DispatchUnhandled, MarkDispatched
  <2>2. UNCHANGED <<hidden, tried>> /\ job' = [job EXCEPT ![w] = NoKey]
    BY <1>7 DEF DispatchUnhandled, MarkDispatched, CommitAttempt
  <2>3. CASE j = job[w]
    BY <2>1, <2>3
  <2>4. CASE j # job[w]
    BY <2>1, <2>2, <2>4
  <2> QED BY <2>3, <2>4
<1>8. ASSUME NEW w \in Workers, MarkFailed(w) PROVE P
  <2>1. job[w] \in Keys /\ draining[w]
    BY <1>8 DEF MarkFailed, DispatchInv, RowHeldStaysLive
  <2>2. UNCHANGED <<draining, tried>> /\ \A u \in Workers : u # w => job'[u] = job[u]
    BY <1>8 DEF MarkFailed, CommitAttempt
  <2>3. \A k \in Keys : k # job[w] => status'[k] = status[k]
    BY <1>8 DEF MarkFailed
  <2>4. \/ status'[job[w]] = "dead" /\ hidden' = hidden
        \/ Hide({job[w]}, Draining)
    <3>1. CASE Exhausted(attempts[job[w]] + 1)
      BY <1>8, <2>1, <3>1 DEF MarkFailed
    <3>2. CASE ~Exhausted(attempts[job[w]] + 1)
      BY <1>8, <3>2 DEF MarkFailed
    <3> QED BY <3>1, <3>2
  <2>5. hidden[v] \subseteq hidden'[v]
    <3>1. CASE hidden' = hidden
      BY <3>1
    <3>2. CASE Hide({job[w]}, Draining)
      <4>1. hidden'[v] = IF draining[v] THEN hidden[v] \cup {job[w]} ELSE hidden[v]
        BY <3>2 DEF Hide, Draining
      <4> QED BY <4>1
    <3> QED BY <2>4, <3>1, <3>2
  <2>6. CASE j = job[w]
    BY <2>1, <2>2, <2>4, <2>6, <1>8, <1>a DEF Hide, Draining, MarkFailed
  <2>7. CASE j # job[w]
    BY <2>2, <2>3, <2>5, <2>7
  <2> QED BY <2>6, <2>7
<1>9. ASSUME NEW k \in Keys, NEW r \in BOOLEAN, NEW W \in SUBSET Workers,
             Requeue(k, r, W)
      PROVE  P
  BY <1>9, <1>a DEF Requeue, Hide
<1>10. ASSUME NEW k \in Keys, Discard(k) PROVE P
  BY <1>10 DEF Discard, drains
<1>11. Tick \/ UNCHANGED vars => UNCHANGED <<status, hidden, tried, job>>
  BY DEF Tick, vars, rows, drains
<1> HIDE DEF TypeOK, TriedIsOver
<1> QED
  BY <1>1, <1>2, <1>3, <1>4, <1>5, <1>6, <1>7, <1>8, <1>9, <1>10, <1>11
     DEF Next, Worker, Operator

\* Without requeue_bulk, Spec implies OncePerDrain: drain() compares with the time
\* it started at, and whoever writes next_attempt_at of a row this drain() has
\* tried reads the clock later, after taking the row lock.
THEOREM OneAttemptPerDrain ==
  ASSUME Operators = {}
  PROVE  Spec => OncePerDrain
<1>1. Init => TriedIsOver
  BY DEF Init, TriedIsOver
<1>2. TypeOK /\ DispatchInv /\ TriedIsOver /\ [Next]_vars => TriedIsOver'
  BY TriedIsOverNext
<1>3. Spec => []DispatchInv
  BY DispatchInvInit, DispatchInvNext, TypeCorrect, PTL DEF Spec
<1> DEFINE Fresh == \A w \in Workers, k \in Keys :
                      job[w] = NoKey /\ job'[w] = k => k \notin tried[w]
<1>4. TypeOK /\ TriedIsOver /\ [Next]_vars => Fresh
  <2> SUFFICES ASSUME TypeOK, TriedIsOver, [Next]_vars, NEW v \in Workers, NEW j \in Keys,
                      job[v] = NoKey, job'[v] = j
               PROVE  j \notin tried[v]
    OBVIOUS
  <2>1. j # NoKey
    BY OutboxAssumption
  <2>2. PICK k \in Keys : Select(v, k)
    <3>1. job' # job
      BY <2>1
    <3>2. PICK w \in Workers : Worker(w) \/ Crash(w)
      BY <3>1 DEF Next, Operator, Tick, Publish, Requeue, Discard, vars, drains,
                  RequeueBulkRead, RequeueBulkUpdate
    <3>3. CASE v # w
      BY <2>1, <3>2, <3>3
         DEF Worker, StartDrain, Select, EndDrain, RunHandler, DispatchUnhandled,
             MarkDispatched, MarkFailed, AbortAttempt, Crash, Rollback, LeaveDrain,
             CommitAttempt, TypeOK
    <3>4. CASE v = w
      BY <2>1, <3>2, <3>4
         DEF Worker, StartDrain, EndDrain, RunHandler, DispatchUnhandled,
             MarkDispatched, MarkFailed, AbortAttempt, Crash, Rollback, LeaveDrain,
             CommitAttempt, TypeOK
    <3> QED BY <3>3, <3>4
  <2>3. j = k
    BY <2>2 DEF Select, TypeOK
  <2> QED BY <2>1, <2>2, <2>3 DEF Select, Selectable, Live, TriedIsOver
<1> QED BY <1>1, <1>2, <1>3, <1>4, TypeCorrect, PTL DEF Spec, OncePerDrain

-----------------------------------------------------------------------------
(* The writes and the mark *)

\* A row becomes dispatched when a worker marks it.
LEMMA MarkedByWorker ==
  ASSUME TypeOK, [Next]_vars, NEW k \in Keys, status[k] # "dispatched", status'[k] = "dispatched"
  PROVE  \E w \in Workers : DispatchUnhandled(w) \/ MarkDispatched(w)
<1>1. status' # status
  OBVIOUS
<1>2. ~Tick /\ ~UNCHANGED vars
  BY <1>1 DEF Tick, vars, rows
<1>3. \A o \in Operators : ~Operator(o)
  BY DEF Operator, RequeueBulkRead, RequeueBulkUpdate, rows
<1>4. \A j \in Keys : ~Discard(j)
  BY DEF Discard, TypeOK
<1>5. \A j \in Keys, r \in BOOLEAN, W \in SUBSET Workers : ~Requeue(j, r, W)
  BY DEF Requeue, TypeOK
<1>6. \A j \in Keys, delay \in {0, PublishDelay}, W \in SUBSET Workers : ~Publish(j, delay, W)
  BY DEF Publish, TypeOK
<1>7. ASSUME NEW w \in Workers,
             \/ StartDrain(w) \/ (\E j \in Keys : Select(w, j)) \/ EndDrain(w)
             \/ RunHandler(w) \/ AbortAttempt(w) \/ Crash(w)
      PROVE  FALSE
  BY <1>1, <1>7 DEF StartDrain, Select, EndDrain, RunHandler, AbortAttempt, Crash,
                    Rollback, rows
<1>8. ASSUME NEW w \in Workers, MarkFailed(w) PROVE FALSE
  BY <1>8 DEF MarkFailed, TypeOK
<1> QED BY <1>2, <1>3, <1>4, <1>5, <1>6, <1>7, <1>8 DEF Next, Worker

\* The writes of a row change with the end of an attempt at it, or when the row is
\* published anew.
LEMMA WritesChange ==
  ASSUME TypeOK, [Next]_vars, NEW k \in Keys, committed'[k] # committed[k],
         status[k] # "absent"
  PROVE  \E w \in Workers : job[w] = k /\ (MarkDispatched(w) \/ MarkFailed(w))
<1>1. PICK w \in Workers : DispatchUnhandled(w) \/ MarkDispatched(w) \/ MarkFailed(w)
  <2>1. ASSUME NEW j \in Keys, NEW delay \in {0, PublishDelay},
               NEW W \in SUBSET Workers, Publish(j, delay, W)
        PROVE  FALSE
    <3>1. j # k
      BY <2>1 DEF Publish
    <3> QED BY <2>1, <3>1 DEF Publish, TypeOK
  <2>2. ~Tick /\ ~UNCHANGED vars
    BY DEF Tick, vars, effects
  <2>3. \A o \in Operators : ~Operator(o)
    BY DEF Operator, RequeueBulkRead, RequeueBulkUpdate, effects
  <2>4. \A j \in Keys : ~Discard(j)
    BY DEF Discard, effects
  <2>5. \A j \in Keys, r \in BOOLEAN, W \in SUBSET Workers : ~Requeue(j, r, W)
    BY DEF Requeue, effects
  <2>6. ASSUME NEW w \in Workers,
               \/ StartDrain(w) \/ (\E j \in Keys : Select(w, j)) \/ EndDrain(w)
               \/ RunHandler(w) \/ AbortAttempt(w) \/ Crash(w)
        PROVE  FALSE
    BY <2>6 DEF StartDrain, Select, EndDrain, RunHandler, AbortAttempt, Crash,
                Rollback, effects
  <2> QED BY <2>1, <2>2, <2>3, <2>4, <2>5, <2>6 DEF Next, Worker
<1>2. PICK H : CommitAttempt(w, H)
  BY <1>1 DEF DispatchUnhandled, MarkDispatched, MarkFailed
<1>3. job[w] = k
  BY <1>2 DEF CommitAttempt, TypeOK
<1>4. ~DispatchUnhandled(w)
  <2> SUFFICES ASSUME DispatchUnhandled(w) PROVE FALSE
    OBVIOUS
  <2>1. committed' = [committed EXCEPT ![k] = AddWrites(k, {})]
    BY <1>3 DEF DispatchUnhandled, CommitAttempt
  <2>2. AddWrites(k, {}) = committed[k]
    <3>1. committed[k] \in [1 .. MaxHandlers -> Nat]
      BY DEF TypeOK
    <3>2. ASSUME NEW i \in 1 .. MaxHandlers
          PROVE  committed[k][i] + (IF i \in {} THEN 1 ELSE 0) = committed[k][i]
      <4>1. committed[k][i] \in Nat
        BY <3>1
      <4> QED BY <4>1
    <3> QED BY <3>1, <3>2 DEF AddWrites
  <2> QED BY <2>1, <2>2 DEF TypeOK
<1> QED BY <1>1, <1>3, <1>4

\* A commit adds one to the count of each handler whose writes it keeps.
LEMMA CommitAdds ==
  ASSUME TypeOK, NEW w \in Workers, NEW k \in Keys, job[w] = k, NEW H, CommitAttempt(w, H),
         NEW i \in Handlers(k)
  PROVE  /\ committed[k][i] \in Nat
         /\ committed'[k][i] = committed[k][i] + IF i \in H THEN 1 ELSE 0
<1>1. i \in 1 .. MaxHandlers
  BY OutboxAssumption DEF Handlers
<1>2. committed'[k] = AddWrites(k, H)
  BY DEF CommitAttempt, TypeOK
<1>3. committed[k] \in [1 .. MaxHandlers -> Nat]
  BY DEF TypeOK
<1>4. committed'[k][i] = committed[k][i] + IF i \in H THEN 1 ELSE 0
  BY <1>1, <1>2 DEF AddWrites
<1> QED BY <1>1, <1>3, <1>4

\* The end of an attempt keeps the writes of a prefix of the handlers, and counts
\* the attempt.
LEMMA WritesMarked == TypeOK /\ DispatchInv /\ [Next]_vars => WritesWithMark
<1> DEFINE More(k, i) == committed'[k][i] - committed[k][i]
<1> DEFINE Kept(k) ==
      status[k] # "absent" /\ committed'[k] # committed[k] =>
        /\ status[k] \in {"pending", "retrying"}
        /\ attempts'[k] = attempts[k] + 1
        /\ status'[k] # "dispatched" =>
             /\ status'[k] \in {"retrying", "dead"}
             /\ \A i, j \in Handlers(k) : i <= j =>
                  0 <= More(k, j) /\ More(k, j) <= More(k, i) /\ More(k, i) <= 1
<1> DEFINE Whole(k) ==
      status[k] # "dispatched" /\ status'[k] = "dispatched" =>
        \A i \in Handlers(k) : More(k, i) = 1
<1>1. TypeOK /\ DispatchInv /\ [Next]_vars => \A k \in Keys : Kept(k)
  <2> SUFFICES ASSUME TypeOK, DispatchInv, [Next]_vars, NEW k \in Keys,
                      status[k] # "absent", committed'[k] # committed[k]
               PROVE  Kept(k)
    OBVIOUS
  <2>1. PICK w \in Workers : job[w] = k /\ (MarkDispatched(w) \/ MarkFailed(w))
    BY WritesChange
  <2>2. status[k] \in {"pending", "retrying"}
    BY <2>1, OutboxAssumption DEF DispatchInv, RowHeldStaysLive
  <2>3. attempts'[k] = attempts[k] + 1
    BY <2>1 DEF MarkDispatched, MarkFailed, TypeOK
  <2>4. CASE MarkDispatched(w)
    BY <2>1, <2>2, <2>3, <2>4 DEF MarkDispatched, TypeOK
  <2>5. CASE MarkFailed(w)
    <3>1. status'[k] \in {"retrying", "dead"}
      BY <2>1, <2>5 DEF MarkFailed, TypeOK
    <3>2. PICK H \in {Returned(w), 1 .. step[w]} : CommitAttempt(w, H)
      BY <2>5 DEF MarkFailed
    <3>3. step[w] \in Nat
      BY DEF TypeOK
    <3>4. ASSUME NEW i \in Handlers(k), NEW j \in Handlers(k), i <= j
          PROVE  0 <= More(k, j) /\ More(k, j) <= More(k, i) /\ More(k, i) <= 1
      <4>1. i \in Int /\ j \in Int /\ i >= 1 /\ (j \in H => i \in H)
        BY <3>2, <3>3, <3>4, OutboxAssumption DEF Returned, Handlers
      <4>2. \A n \in Handlers(k) : /\ committed[k][n] \in Nat
                                   /\ committed'[k][n] = committed[k][n] + IF n \in H THEN 1 ELSE 0
        BY <2>1, <3>2, CommitAdds
      <4>3. More(k, i) = (IF i \in H THEN 1 ELSE 0) /\ More(k, j) = (IF j \in H THEN 1 ELSE 0)
        BY <4>2
      <4> QED BY <4>1, <4>3
    <3> QED BY <2>2, <2>3, <3>1, <3>4
  <2> QED BY <2>1, <2>4, <2>5
<1>2. TypeOK /\ DispatchInv /\ [Next]_vars => \A k \in Keys : Whole(k)
  <2> SUFFICES ASSUME TypeOK, DispatchInv, [Next]_vars, NEW k \in Keys, NEW i \in Handlers(k),
                      status[k] # "dispatched", status'[k] = "dispatched"
               PROVE  More(k, i) = 1
    OBVIOUS
  <2>1. PICK w \in Workers : DispatchUnhandled(w) \/ MarkDispatched(w)
    BY MarkedByWorker
  <2>2. job[w] = k
    BY <2>1 DEF DispatchUnhandled, MarkDispatched, TypeOK
  <2>3. i \in 1 .. NumHandlers[k] /\ NumHandlers[k] \in Nat
    BY OutboxAssumption DEF Handlers
  <2>4. MarkDispatched(w)
    BY <2>1, <2>2, <2>3 DEF DispatchUnhandled
  <2>5. CommitAttempt(w, Returned(w)) /\ i \in Returned(w)
    BY <2>2, <2>3, <2>4 DEF MarkDispatched, AllReturned, Returned
  <2>6. committed[k][i] \in Nat /\ committed'[k][i] = committed[k][i] + 1
    BY <2>2, <2>5, CommitAdds
  <2> QED BY <2>6
<1> QED BY <1>1, <1>2 DEF WritesWithMark

\* Spec implies MarkedWithWrites: only the end of an attempt keeps what handlers
\* wrote, it counts the attempt, and what it keeps is a prefix of the handlers in
\* their order, all of them if the row is marked dispatched.
THEOREM WritesCarryTheMark == Spec => MarkedWithWrites
<1>1. Spec => []DispatchInv
  BY DispatchInvInit, DispatchInvNext, TypeCorrect, PTL DEF Spec
<1> QED BY <1>1, WritesMarked, TypeCorrect, PTL DEF Spec, MarkedWithWrites

-----------------------------------------------------------------------------
(* At least once, and how often *)

\* Spec implies []DispatchedIsWritten: an event that says dispatched has the
\* database writes of every handler of its topic, after any crashes, failed
\* attempts and requeues ("dispatches at-least-once", models.py).
THEOREM DispatchedHasWrites == Spec => []DispatchedIsWritten
<1>1. Init => DispatchedIsWritten
  BY DEF Init, DispatchedIsWritten
<1>2. TypeOK /\ DispatchInv /\ DispatchedIsWritten /\ [Next]_vars => DispatchedIsWritten'
  <2> SUFFICES ASSUME TypeOK, DispatchInv, DispatchedIsWritten, [Next]_vars,
                      NEW k \in Keys, status'[k] = "dispatched", NEW i \in Handlers(k)
               PROVE  committed'[k][i] >= 1
    BY DEF DispatchedIsWritten, Handlers
  <2>1. WritesWithMark
    BY WritesMarked
  <2>2. i \in 1 .. MaxHandlers
    BY OutboxAssumption DEF Handlers
  <2>3. committed[k][i] \in Nat
    <3>1. committed \in [Keys -> [1 .. MaxHandlers -> Nat]]
      BY DEF TypeOK
    <3>2. committed[k] \in [1 .. MaxHandlers -> Nat]
      BY <3>1
    <3> QED BY <2>2, <3>2
  <2>4. CASE status[k] # "dispatched"
    <3>1. committed'[k][i] - committed[k][i] = 1
      BY <2>1, <2>4 DEF WritesWithMark
    <3>2. committed'[k][i] \in Nat
      <4>1. TypeOK'
        BY TypeNext
      <4>2. committed' \in [Keys -> [1 .. MaxHandlers -> Nat]]
        BY <4>1 DEF TypeOK
      <4>3. committed'[k] \in [1 .. MaxHandlers -> Nat]
        BY <4>2
      <4> QED BY <2>2, <4>3
    <3> QED BY <2>3, <3>1, <3>2
  <2>5. CASE status[k] = "dispatched"
    <3>1. committed'[k] = committed[k]
      BY <2>1, <2>5 DEF WritesWithMark
    <3> QED BY <2>5, <3>1 DEF DispatchedIsWritten
  <2> QED BY <2>4, <2>5
<1>3. Spec => []DispatchInv
  BY DispatchInvInit, DispatchInvNext, TypeCorrect, PTL DEF Spec
<1> QED BY <1>1, <1>2, <1>3, TypeCorrect, PTL DEF Spec

\* Nobody intervenes: no bulk requeue is under way, and only the dispatcher has
\* ever counted on a row.
Untouched ==
  /\ \A o \in Operators : ids[o] = {}
  /\ \A k \in Keys : status[k] \in Live => attempts[k] < MaxAttempts

\* Where no operator acts, Spec implies []WritesPerAttempt: crashes, SQL errors and
\* races of dispatchers repeat no writes; a failed attempt may, and there are at
\* most max_attempts of them.
THEOREM WritesAreBounded ==
  ASSUME MaxInterventions = 0
  PROVE  Spec => []WritesPerAttempt
<1> USE OutboxAssumption
<1> DEFINE Inv == Untouched /\ WritesPerAttempt
<1>1. Init => Inv
  BY DEF Init, Untouched, WritesPerAttempt, Live
<1>2. TypeOK /\ DispatchInv /\ Inv /\ [Next]_vars => Inv'
  <2> SUFFICES ASSUME TypeOK, DispatchInv, Inv, [Next]_vars PROVE Inv'
    OBVIOUS
  <2>a. \A w \in Workers, k \in Keys : \A H : job[w] = k /\ CommitAttempt(w, H) =>
          \A i \in Handlers(k) : /\ committed[k][i] \in Nat
                                 /\ committed'[k][i] = committed[k][i] + IF i \in H THEN 1 ELSE 0
    BY CommitAdds
  <2> USE DEF TypeOK
  <2>1. /\ \A k \in Keys, r \in BOOLEAN, W \in SUBSET Workers : ~Requeue(k, r, W)
        /\ \A k \in Keys : ~Discard(k)
        /\ \A o \in Operators : ~Operator(o)
    BY DEF Requeue, Discard, Operator, RequeueBulkRead, RequeueBulkUpdate, Untouched
  <2>2. ids' = ids
    <3>1. ASSUME NEW w \in Workers, Worker(w) \/ Crash(w) PROVE ids' = ids
      BY <3>1 DEF Worker, StartDrain, Select, EndDrain, RunHandler, DispatchUnhandled,
                  MarkDispatched, MarkFailed, AbortAttempt, Crash, Rollback, LeaveDrain, bulk
    <3>2. Tick \/ UNCHANGED vars => ids' = ids
      BY DEF Tick, vars, bulk
    <3>3. ASSUME NEW j \in Keys, NEW delay \in {0, PublishDelay},
                 NEW W \in SUBSET Workers, Publish(j, delay, W)
          PROVE  ids' = ids
      BY <3>3 DEF Publish, bulk
    <3> QED BY <2>1, <3>1, <3>2, <3>3 DEF Next
  <2> SUFFICES ASSUME NEW k \in Keys
               PROVE  /\ status'[k] \in Live => attempts'[k] < MaxAttempts
                      /\ status'[k] # "absent" =>
                           /\ attempts'[k] <= MaxAttempts
                           /\ \A i \in Handlers(k) : committed'[k][i] <= attempts'[k]
    BY <2>2 DEF Inv, Untouched, WritesPerAttempt, Handlers, Live
  <2> DEFINE Counted == /\ status'[k] \in Live => attempts'[k] < MaxAttempts
                        /\ status'[k] # "absent" =>
                             /\ attempts'[k] <= MaxAttempts
                             /\ \A i \in Handlers(k) : committed'[k][i] <= attempts'[k]
  <2>3. CASE UNCHANGED <<status[k], attempts[k], committed[k]>>
    BY <2>3 DEF Inv, Untouched, WritesPerAttempt
  <2>4. ASSUME NEW j \in Keys, NEW delay \in {0, PublishDelay},
               NEW W \in SUBSET Workers, Publish(j, delay, W)
        PROVE  Counted
    <3>1. CASE j = k
      BY <2>4, <3>1 DEF Publish, Handlers, Live
    <3>2. CASE j # k
      BY <2>3, <2>4, <3>2 DEF Publish
    <3> QED BY <3>1, <3>2
  <2>5. ASSUME NEW w \in Workers, NEW H, CommitAttempt(w, H),
               \/ DispatchUnhandled(w) /\ H = {}
               \/ MarkDispatched(w) \/ MarkFailed(w)
        PROVE  Counted
    <3>1. CASE job[w] # k
      <4>1. committed'[k] = committed[k]
        BY <2>5, <3>1 DEF CommitAttempt
      <4>2. status'[k] = status[k] /\ attempts'[k] = attempts[k]
        BY <2>5, <3>1 DEF DispatchUnhandled, MarkDispatched, MarkFailed
      <4> QED BY <2>3, <4>1, <4>2
    <3>2. CASE job[w] = k
      <4>1. status[k] \in {"pending", "retrying"}
        BY <3>2 DEF DispatchInv, RowHeldStaysLive
      <4>2. attempts[k] < MaxAttempts /\ \A i \in Handlers(k) : committed[k][i] <= attempts[k]
        BY <4>1 DEF Inv, Untouched, WritesPerAttempt, Live
      <4>3. \A i \in Handlers(k) : /\ committed[k][i] \in Nat
                                   /\ committed'[k][i] = committed[k][i] + IF i \in H THEN 1 ELSE 0
        BY <2>5, <3>2, <2>a
      <4>b. ASSUME NEW i \in Handlers(k) PROVE committed'[k][i] <= attempts[k] + 1
        <5>1. committed[k][i] \in Nat /\ committed[k][i] <= attempts[k] /\ attempts[k] \in Nat
          BY <4>2, <4>3
        <5>2. CASE i \in H
          <6>1. committed'[k][i] = committed[k][i] + 1
            BY <4>3, <5>2
          <6> QED BY <5>1, <6>1
        <5>3. CASE i \notin H
          <6>1. committed'[k][i] = committed[k][i] + 0
            BY <4>3, <5>3
          <6> QED BY <5>1, <6>1
        <5> QED BY <5>2, <5>3
      <4>4. CASE DispatchUnhandled(w) /\ H = {}
        <5>1. status'[k] = "dispatched" /\ attempts'[k] = attempts[k]
          BY <3>2, <4>4 DEF DispatchUnhandled
        <5>2. ASSUME NEW i \in Handlers(k) PROVE committed'[k][i] <= attempts[k]
          <6>1. committed[k][i] \in Nat /\ committed'[k][i] = committed[k][i] + 0
            BY <4>3, <4>4
          <6> QED BY <4>2, <6>1
        <5> QED BY <4>2, <5>1, <5>2 DEF Live
      <4>5. CASE MarkDispatched(w)
        <5>1. status'[k] = "dispatched" /\ attempts'[k] = attempts[k] + 1
          BY <3>2, <4>5 DEF MarkDispatched
        <5> QED BY <4>2, <4>b, <5>1 DEF Live
      <4>6. CASE MarkFailed(w)
        <5>1. attempts'[k] = attempts[k] + 1
          BY <3>2, <4>6 DEF MarkFailed
        <5>2. status'[k] \in {"dead", "retrying"} /\ (status'[k] = "retrying" => attempts'[k] < MaxAttempts)
          BY <3>2, <4>6 DEF MarkFailed, Exhausted
        <5> QED BY <4>2, <4>b, <5>1, <5>2 DEF Live
      <4> QED BY <2>5, <4>4, <4>5, <4>6
    <3> QED BY <3>1, <3>2
  <2>6. ASSUME NEW w \in Workers,
               \/ StartDrain(w) \/ (\E j \in Keys : Select(w, j)) \/ EndDrain(w)
               \/ RunHandler(w) \/ AbortAttempt(w) \/ Crash(w)
        PROVE  UNCHANGED <<status, attempts, committed>>
    BY <2>6 DEF StartDrain, Select, EndDrain, RunHandler, AbortAttempt, Crash,
                Rollback, rows, effects
  <2>7. Tick \/ UNCHANGED vars => UNCHANGED <<status, attempts, committed>>
    BY DEF Tick, vars, rows, effects
  <2>8. ASSUME NEW w \in Workers, DispatchUnhandled(w) \/ MarkDispatched(w) \/ MarkFailed(w)
        PROVE  Counted
    <3>1. CASE DispatchUnhandled(w)
      BY <2>5, <3>1 DEF DispatchUnhandled
    <3>2. CASE MarkDispatched(w)
      BY <2>5, <3>2 DEF MarkDispatched
    <3>3. CASE MarkFailed(w)
      <4>1. PICK H \in {Returned(w), 1 .. step[w]} : CommitAttempt(w, H)
        BY <3>3 DEF MarkFailed
      <4> QED BY <2>5, <3>3, <4>1
    <3> QED BY <2>8, <3>1, <3>2, <3>3
  <2> HIDE DEF Counted, Inv
  <2>9. UNCHANGED <<status, attempts, committed>> => Counted
    BY <2>3 DEF Counted
  <2>10. Counted
    BY <2>1, <2>4, <2>6, <2>7, <2>8, <2>9 DEF Next, Worker
  <2> QED BY <2>10 DEF Counted
<1>3. Spec => []DispatchInv
  BY DispatchInvInit, DispatchInvNext, TypeCorrect, PTL DEF Spec
<1>4. Inv => WritesPerAttempt
  OBVIOUS
<1> QED BY <1>1, <1>2, <1>3, <1>4, TypeCorrect, PTL DEF Spec

\* Without requeue_bulk, Spec implies DispatchedIsFinal: the row lock keeps the
\* dispatcher's commit and an operator's requeue apart, and requeue refuses a
\* dispatched row.
THEOREM DispatchedStays ==
  ASSUME Operators = {}
  PROVE  Spec => DispatchedIsFinal
<1> DEFINE Keep == \A k \in Keys : status[k] = "dispatched" => status'[k] = "dispatched"
<1>1. TypeOK /\ DispatchInv /\ [Next]_vars => Keep
  <2> SUFFICES ASSUME TypeOK, DispatchInv, [Next]_vars, NEW k \in Keys,
                      status[k] = "dispatched"
               PROVE  status'[k] = "dispatched"
    OBVIOUS
  <2>1. ASSUME NEW j \in Keys, NEW delay \in {0, PublishDelay},
               NEW W \in SUBSET Workers, Publish(j, delay, W)
        PROVE  status'[k] = "dispatched"
    BY <2>1 DEF Publish, TypeOK
  <2>2. ASSUME NEW w \in Workers, Worker(w) \/ Crash(w)
        PROVE  status'[k] = "dispatched"
    <3>1. job[w] # k
      BY OutboxAssumption DEF DispatchInv, RowHeldStaysLive
    <3>2. CASE MarkFailed(w)
      BY <3>1, <3>2 DEF MarkFailed, TypeOK
    <3> QED BY <2>2, <3>1, <3>2
            DEF Worker, StartDrain, Select, EndDrain, RunHandler, DispatchUnhandled,
                MarkDispatched, AbortAttempt, Crash, Rollback, rows, TypeOK
  <2>3. ASSUME NEW j \in Keys, (\E r \in BOOLEAN, W \in SUBSET Workers : Requeue(j, r, W)) \/ Discard(j)
        PROVE  status'[k] = "dispatched"
    BY <2>3 DEF Requeue, Requeueable, Discard, TypeOK
  <2>4. Tick \/ UNCHANGED vars => status' = status
    BY DEF Tick, vars, rows
  <2> QED BY <2>1, <2>2, <2>3, <2>4 DEF Next, Operator
<1>2. Spec => []DispatchInv
  BY DispatchInvInit, DispatchInvNext, TypeCorrect, PTL DEF Spec
<1> QED BY <1>1, <1>2, TypeCorrect, PTL DEF Spec, DispatchedIsFinal
=============================================================================
