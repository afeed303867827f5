----------------------------- MODULE SagaProofs -----------------------------
(***************************************************************************)
(* Proofs about Saga, for every number of sagas, workers and steps, and    *)
(* every choice of compensable steps.                                      *)
(***************************************************************************)
EXTENDS Saga, TLAPS

-----------------------------------------------------------------------------
(* Type correctness *)

LEMMA NoCopyType == NoCopy \in Copies
  BY SagaAssumption DEF NoCopy, Copies, Nothing, Statuses

LEMMA FetchType ==
  ASSUME TypeOK, NEW s \in Sagas, NEW st \in Statuses, NEW e \in BOOLEAN
  PROVE  Fetch(s, st, e) \in Copies
  BY SagaAssumption DEF Copies, Fetch, TypeOK

LEMMA MoveType ==
  ASSUME NEW c \in Copies, NEW step \in 0 .. NumSteps, NEW i \in Steps, NEW a \in BOOLEAN
  PROVE  /\ Move(c, step, i, a) \in Copies
         /\ Move(c, step, i, a).status = c.status
         /\ Move(c, step, i, a).step = step
         /\ Move(c, step, i, a).net = [c.net EXCEPT ![i] = a]
         /\ Move(c, step, i, a).log = c.log
         /\ Move(c, step, i, a).partial = c.partial
  BY DEF Move, Copies

LEMMA StatusType ==
  ASSUME NEW c \in Copies, NEW st \in Statuses
  PROVE  [c EXCEPT !.status = st] \in Copies
  BY DEF Copies

LEMMA CaughtType ==
  ASSUME NEW c \in Copies, NEW st \in Statuses, NEW i \in Steps,
         NEW phase \in {"waiting", "forward", "compensate"}, NEW wrote \in BOOLEAN
  PROVE  /\ Caught(c, st, i, phase, wrote) \in Copies
         /\ Caught(c, st, i, phase, wrote).status = st
         /\ Caught(c, st, i, phase, wrote).step = c.step
         /\ Caught(c, st, i, phase, wrote).net = c.net
         /\ Caught(c, st, i, phase, wrote).log = c.log \cup {<<i, phase>>}
         /\ Caught(c, st, i, phase, wrote).partial \subseteq c.partial \cup {i}
<1>1. <<i, phase>> \in Entries
  BY DEF Entries
<1>2. c.log \cup {<<i, phase>>} \in SUBSET Entries
  BY <1>1 DEF Copies
<1>3. (IF wrote THEN c.partial \cup {i} ELSE c.partial) \in SUBSET Steps
  BY DEF Copies
<1> QED BY <1>2, <1>3 DEF Caught, Copies

\* What an exception in a step or a compensation makes of a worker's copy.
CaughtBy(w, st, i, phase) ==
  \E wrote \in BOOLEAN : copy' = [copy EXCEPT ![w] = Caught(copy[w], st, i, phase, wrote)]

LEMMA CaughtFacts ==
  ASSUME TypeOK, NEW w \in Workers, NEW st \in Statuses, NEW i \in Steps,
         NEW phase \in {"waiting", "forward", "compensate"}, CaughtBy(w, st, i, phase)
  PROVE  /\ copy' \in [Workers -> Copies]
         /\ copy'[w].status = st /\ copy'[w].step = copy[w].step /\ copy'[w].net = copy[w].net
         /\ copy'[w].log = copy[w].log \cup {<<i, phase>>}
         /\ copy'[w].partial \subseteq copy[w].partial \cup {i}
         /\ \A u \in Workers : u # w => copy'[u] = copy[u]
<1>1. PICK wrote \in BOOLEAN : copy' = [copy EXCEPT ![w] = Caught(copy[w], st, i, phase, wrote)]
  BY DEF CaughtBy
<1>2. copy[w] \in Copies
  BY DEF TypeOK
<1> DEFINE c == Caught(copy[w], st, i, phase, wrote)
<1>3. /\ c \in Copies /\ c.status = st /\ c.step = copy[w].step /\ c.net = copy[w].net
      /\ c.log = copy[w].log \cup {<<i, phase>>} /\ c.partial \subseteq copy[w].partial \cup {i}
  BY <1>2, CaughtType
<1>4. copy' = [copy EXCEPT ![w] = c]
  BY <1>1
<1> HIDE DEF c
<1> QED BY <1>3, <1>4 DEF TypeOK

\* The three places where run() catches an exception.
LEMMA CaughtSteps ==
  ASSUME TypeOK, NEW w \in Workers
  PROVE  /\ StepWaits(w) => copy[w].step + 1 \in Steps /\ CaughtBy(w, "waiting", copy[w].step + 1, "waiting")
         /\ StepFails(w) => copy[w].step + 1 \in Steps /\ CaughtBy(w, "compensating", copy[w].step + 1, "forward")
         /\ CompensateFails(w) => copy[w].step \in Steps /\ CaughtBy(w, "needs_attention", copy[w].step, "compensate")
<1>1. copy[w] \in Copies
  BY DEF TypeOK
<1>2. copy[w].step \in 0 .. NumSteps /\ NumSteps \in Nat
  BY <1>1, SagaAssumption DEF Copies
<1>3. StepsLeft(w) => copy[w].step + 1 \in Steps
  BY <1>2 DEF StepsLeft, Steps
<1>4. copy[w].step > 0 => copy[w].step \in Steps
  BY <1>2 DEF Steps
<1>5. ASSUME StepWaits(w) PROVE CaughtBy(w, "waiting", copy[w].step + 1, "waiting")
  BY <1>5 DEF StepWaits, CaughtBy
<1>6. ASSUME StepFails(w) PROVE CaughtBy(w, "compensating", copy[w].step + 1, "forward")
  BY <1>6 DEF StepFails, CaughtBy
<1>7. ASSUME CompensateFails(w) PROVE CaughtBy(w, "needs_attention", copy[w].step, "compensate")
  BY <1>7 DEF CompensateFails, CaughtBy, Undone
<1> QED BY <1>3, <1>4, <1>5, <1>6, <1>7 DEF StepWaits, StepFails, CompensateFails

\* A worker inside a call has a saga in hand.
Busy == \A w \in Workers : pc[w] # "idle" => saga[w] \in Sagas

\* The type invariant: every step of the engine, of the sweepers and of a crash
\* keeps the saga rows and the workers' copies of them well typed.
THEOREM TypeCorrect == Spec => [](TypeOK /\ Busy)
<1>1. Init => TypeOK /\ Busy
  BY SagaAssumption, NoCopyType
     DEF Init, TypeOK, Busy, Statuses, Phases, Nothing
<1>2. TypeOK /\ Busy /\ [Next]_vars => TypeOK' /\ Busy'
  <2> SUFFICES ASSUME TypeOK, Busy, [Next]_vars PROVE TypeOK' /\ Busy'
    OBVIOUS
  <2> USE SagaAssumption DEF Busy
  <2>1. ASSUME NEW w \in Workers, NEW s \in Sagas, Start(w, s) \/ Resume(w, s)
        PROVE  TypeOK' /\ Busy'
    <3>1. PICK st \in Statuses : status' = [status EXCEPT ![s] = st]
      BY <2>1 DEF Start, Resume, Statuses
    <3>2. pc' = [pc EXCEPT ![w] = "called"] /\ saga' = [saga EXCEPT ![w] = s]
      BY <2>1 DEF Start, Resume
    <3>3. UNCHANGED <<current_step, log, net, partial, outside, counted, copy, waits, crashes>>
      BY <2>1 DEF Start, Resume, bounds
    <3> QED BY <3>1, <3>2, <3>3 DEF TypeOK, Phases
  <2>2. ASSUME NEW w \in Workers, NEW s \in Sagas, Abandon(w, s)
        PROVE  TypeOK' /\ Busy'
    <3>1. saga' = [saga EXCEPT ![w] = s] /\ UNCHANGED <<table, outside, counted, bounds>>
      BY <2>2 DEF Abandon
    <3>2. PICK p \in Phases : pc' = [pc EXCEPT ![w] = p]
      BY <2>2 DEF Abandon, Phases
    <3>3. "compensating" \in Statuses /\ "abandoned" \in Statuses
      BY DEF Statuses, Terminal
    <3>4. Fetch(s, "compensating", FALSE) \in Copies /\ Fetch(s, "abandoned", FALSE) \in Copies
      BY <3>3, FetchType
    <3>5. PICK c \in Copies : copy' = [copy EXCEPT ![w] = c]
      BY <2>2, <3>4 DEF Abandon
    <3> QED BY <3>1, <3>2, <3>5 DEF TypeOK, table, bounds
  <2>3. ASSUME NEW w \in Workers, SkipRun(w) \/ Crash(w)
        PROVE  TypeOK' /\ Busy'
    <3>1. Leave(w) /\ UNCHANGED <<table, outside, counted, waits>> /\ crashes' \in Nat
      BY <2>3 DEF SkipRun, Crash, TypeOK, bounds
    <3> QED BY <3>1, NoCopyType DEF Leave, TypeOK, Phases, table
  <2>4. ASSUME NEW w \in Workers, BeginRun(w)
        PROVE  TypeOK' /\ Busy'
    <3>1. UNCHANGED <<table, outside, counted, saga, bounds>> /\ pc[w] = "called"
      BY <2>4 DEF BeginRun
    <3>2. PICK p \in Phases : pc' = [pc EXCEPT ![w] = p]
      BY <2>4 DEF BeginRun, Phases
    <3>3. Fetch(saga[w], "compensating", TRUE) \in Copies /\ Fetch(saga[w], "running", TRUE) \in Copies
      <4>1. "compensating" \in Statuses /\ "running" \in Statuses /\ saga[w] \in Sagas
        BY <3>1 DEF Statuses
      <4> QED BY <4>1, FetchType
    <3>4. PICK c \in Copies : copy' = [copy EXCEPT ![w] = c]
      BY <2>4, <3>3 DEF BeginRun
    <3> QED BY <3>1, <3>2, <3>4 DEF TypeOK, table, bounds
  <2>5. ASSUME NEW w \in Workers, StepOk(w)
        PROVE  TypeOK' /\ Busy'
    <3> DEFINE i == copy[w].step + 1
    <3>1. saga[w] \in Sagas /\ i \in Steps
      BY <2>5 DEF StepOk, StepsLeft, TypeOK, Copies, Steps
    <3>2. copy' \in [Workers -> Copies]
      <4>1. i \in 0 .. NumSteps /\ copy[w] \in Copies
        BY <3>1 DEF Steps, TypeOK
      <4>2. Move(copy[w], i, i, TRUE) \in Copies
        BY <3>1, <4>1, MoveType
      <4> QED BY <2>5, <4>2 DEF StepOk, StepsLeft, TypeOK
    <3>3. outside' \in [Sagas -> [Steps -> BOOLEAN]]
      BY <2>5, <3>1 DEF StepOk, StepsLeft, TypeOK
    <3> QED BY <2>5, <3>2, <3>3 DEF StepOk, StepsLeft, TypeOK, table, bounds
  <2>6. ASSUME NEW w \in Workers, StepWaits(w)
        PROVE  TypeOK' /\ Busy'
    <3>1. copy' \in [Workers -> Copies]
      <4>1. "waiting" \in Statuses
        BY DEF Statuses
      <4> QED BY <2>6, <4>1, CaughtSteps, CaughtFacts
    <3> QED BY <2>6, <3>1 DEF StepWaits, TypeOK, Phases, table
  <2>7. ASSUME NEW w \in Workers,
               StepFails(w) \/ Complete(w) \/ CompensateFails(w) \/ CompensateDone(w)
        PROVE  TypeOK' /\ Busy'
    <3>2. PICK p \in Phases : pc' = [pc EXCEPT ![w] = p]
      BY <2>7 DEF StepFails, Complete, CompensateFails, CompensateDone, Phases
    <3>3. /\ UNCHANGED <<table, outside, counted, saga, bounds>>
          /\ pc[w] # "idle"
      BY <2>7 DEF StepFails, Complete, CompensateFails, CompensateDone
    <3>4. copy' \in [Workers -> Copies]
      <4>1. {"completed", "failed", "compensating", "needs_attention"} \subseteq Statuses
        BY DEF Statuses, Terminal
      <4>2. CASE StepFails(w)
        BY <4>1, <4>2, CaughtSteps, CaughtFacts
      <4>3. CASE CompensateFails(w)
        BY <4>1, <4>3, CaughtSteps, CaughtFacts
      <4>4. ASSUME NEW st \in Statuses, copy' = [copy EXCEPT ![w].status = st]
            PROVE  copy' \in [Workers -> Copies]
        <5>1. [copy[w] EXCEPT !.status = st] \in Copies
          BY StatusType DEF TypeOK
        <5> QED BY <4>4, <5>1 DEF TypeOK
      <4>5. CASE Complete(w)
        BY <4>1, <4>4, <4>5 DEF Complete
      <4>6. CASE CompensateDone(w)
        BY <4>1, <4>4, <4>6 DEF CompensateDone
      <4> QED BY <2>7, <4>2, <4>3, <4>5, <4>6
    <3> QED BY <3>2, <3>3, <3>4 DEF TypeOK, table, bounds
  <2>8. ASSUME NEW w \in Workers, CompensateOk(w)
        PROVE  TypeOK' /\ Busy'
    <3> DEFINE i == copy[w].step
    <3>1. saga[w] \in Sagas /\ i \in Steps
      BY <2>8 DEF CompensateOk, TypeOK, Copies, Steps
    <3> DEFINE c == Move(copy[w], i - 1, i, copy[w].net[i] /\ i \notin Compensable)
    <3>2. copy' \in [Workers -> Copies]
      <4>1. i - 1 \in 0 .. NumSteps /\ copy[w] \in Copies
        BY <3>1 DEF Steps, TypeOK
      <4>2. c \in Copies
        BY <3>1, <4>1, MoveType
      <4>3. copy' = [copy EXCEPT ![w] = c]
        BY <2>8 DEF CompensateOk, Undone
      <4> HIDE DEF c
      <4> QED BY <4>2, <4>3 DEF TypeOK
    <3>3. outside' \in [Sagas -> [Steps -> BOOLEAN]]
      BY <2>8, <3>1 DEF CompensateOk, Undone, TypeOK
    <3> HIDE DEF c
    <3> QED BY <2>8, <3>2, <3>3 DEF CompensateOk, TypeOK, table, bounds
  <2>9. ASSUME NEW w \in Workers, Emit(w)
        PROVE  TypeOK' /\ Busy'
    BY <2>9 DEF Emit, TypeOK, Phases, table, bounds
  <2>10. ASSUME NEW w \in Workers, Commit(w)
         PROVE  TypeOK' /\ Busy'
    BY <2>10, NoCopyType DEF Commit, Leave, TypeOK, Copies, Phases, bounds
  <2>11. CASE UNCHANGED vars
    BY <2>11 DEF vars, table, procs, bounds, TypeOK
  <2> QED
    BY <2>1, <2>2, <2>3, <2>4, <2>5, <2>6, <2>7, <2>8, <2>9, <2>10, <2>11
       DEF Next, Proceed, Overdue
<1> QED BY <1>1, <1>2, PTL DEF Spec

-----------------------------------------------------------------------------
(* What the rows and the copies say about the effects *)

\* What SagaInv says of one worker, given the table.
WorkerInv(w) ==
  InTransaction(w) =>
    /\ status[saga[w]] \notin Terminal
    /\ CopyInv(w)
    /\ \A v \in Workers : InTransaction(v) /\ saga[v] = saga[w] => v = w

LEMMA SagaInvParts ==
  SagaInv <=> (\A s \in Sagas : RowInv(s)) /\ (\A w \in Workers : WorkerInv(w)) /\ Busy
  BY DEF SagaInv, WorkerInv, Busy

\* A saga that can still go forward may be handed on, completed, abandoned or
\* walked back without touching its log.
LEMMA LogCarries ==
  ASSUME NEW st \in {"none", "pending", "running", "waiting"}, NEW st2 \in Statuses,
         st2 # "needs_attention", NEW step, NEW e, NEW left, LogInv(st, step, e, left)
  PROVE  LogInv(st2, step, e, left)
  BY DEF LogInv, LogFits

\* The walk back moves the cursor, and ends, without touching the log.
LEMMA LogWalksBack ==
  ASSUME NEW st \in {"compensating", "failed"}, NEW step, NEW step2, NEW e, NEW left,
         LogInv("compensating", step, e, left)
  PROVE  LogInv(st, step2, e, left)
  BY DEF LogInv, LogFits

LEMMA AccountedAdds ==
  ASSUME NEW e, NEW i \in Steps, NEW p \in {"waiting", "forward", "compensate"},
         NEW left, NEW left2, left2 \subseteq left \cup {i}, Accounted(left, e)
  PROVE  Accounted(left2, e \cup {<<i, p>>})
  BY DEF Accounted

\* An exception is logged in the way its phase asks for: SagaWait, a step's own
\* exception, and a compensation's.
LEMMA LogWaits ==
  ASSUME NEW e, NEW i \in Steps, NEW left, NEW left2, left2 \subseteq left \cup {i}, NEW step,
         NEW e2, e2 = e \cup {<<i, "waiting">>}, LogInv("running", step, e, left)
  PROVE  LogInv("waiting", step, e2, left2)
<1>1. Raised(e2, "forward") = Raised(e, "forward") /\ Raised(e2, "compensate") = Raised(e, "compensate")
  BY DEF Raised
<1>2. Accounted(left2, e2)
  BY AccountedAdds DEF LogInv
<1> QED BY <1>1, <1>2 DEF LogInv, LogFits

LEMMA LogFails ==
  ASSUME NEW e, NEW i \in Steps, NEW left, NEW left2, left2 \subseteq left \cup {i}, NEW step,
         NEW e2, e2 = e \cup {<<i, "forward">>}, LogInv("running", step, e, left)
  PROVE  LogInv("compensating", step, e2, left2)
<1>1. Raised(e2, "forward") = Raised(e, "forward") \cup {i} /\ Raised(e2, "compensate") = Raised(e, "compensate")
  BY DEF Raised
<1>2. Accounted(left2, e2)
  BY AccountedAdds DEF LogInv
<1> QED BY <1>1, <1>2 DEF LogInv, LogFits

LEMMA LogGivesUp ==
  ASSUME NEW e, NEW i \in Steps, NEW left, NEW left2, left2 \subseteq left \cup {i},
         NEW e2, e2 = e \cup {<<i, "compensate">>}, LogInv("compensating", i, e, left)
  PROVE  LogInv("needs_attention", i, e2, left2)
<1>1. Raised(e2, "forward") = Raised(e, "forward") /\ Raised(e2, "compensate") = Raised(e, "compensate") \cup {i}
  BY DEF Raised
<1>2. Accounted(left2, e2)
  BY AccountedAdds DEF LogInv
<1> QED BY <1>1, <1>2 DEF LogInv, LogFits

LEMMA SagaInvInit == Init => SagaInv
<1> SUFFICES ASSUME Init PROVE SagaInv
  OBVIOUS
<1>1. ASSUME NEW s \in Sagas PROVE RowInv(s)
  BY SagaAssumption
     DEF Init, RowInv, EffectsUpTo, StatusFitsCursor, Nothing, Steps, LogInv, LogFits, Raised,
         Accounted
<1> QED BY <1>1 DEF Init, SagaInv, InTransaction

LEMMA SagaInvNext == TypeOK /\ SagaInv /\ TypeOK' /\ Busy' /\ [Next]_vars => SagaInv'
<1> SUFFICES ASSUME TypeOK, SagaInv, TypeOK', Busy', [Next]_vars
             PROVE  (\A s \in Sagas : RowInv(s)') /\ (\A u \in Workers : WorkerInv(u)')
  BY SagaInvParts DEF SagaInv, WorkerInv, Busy
<1> DEFINE Goal == (\A s \in Sagas : RowInv(s)') /\ (\A u \in Workers : WorkerInv(u)')
<1>r. \A s \in Sagas : RowInv(s)
  BY SagaInvParts
<1>w. (\A u \in Workers : WorkerInv(u)) /\ Busy
  BY SagaInvParts
<1> USE SagaAssumption
<1>a. ASSUME UNCHANGED table, NEW w \in Workers,
             \A u \in Workers : u # w => pc'[u] = pc[u] /\ saga'[u] = saga[u] /\ copy'[u] = copy[u],
             WorkerInv(w)',
             InTransaction(w)' => \A u \in Workers : u # w /\ InTransaction(u) => saga[u] # saga'[w]
      PROVE  Goal
  <2>1. \A s \in Sagas : RowInv(s)'
    BY <1>a, <1>r DEF RowInv, table
  <2>2. ASSUME NEW u \in Workers, u # w PROVE WorkerInv(u)'
    BY <1>a, <1>w, <2>2 DEF WorkerInv, CopyInv, InTransaction, table
  <2> QED BY <1>a, <2>1, <2>2
<1>1. ASSUME NEW w \in Workers, NEW s \in Sagas, Start(w, s) \/ Resume(w, s) PROVE Goal
  <2>1. /\ pc' = [pc EXCEPT ![w] = "called"] /\ saga' = [saga EXCEPT ![w] = s]
        /\ UNCHANGED <<current_step, log, net, partial, copy>>
        /\ status[s] \in {"none", "waiting"}
    BY <1>1 DEF Start, Resume
  <2>0. PICK st \in {"pending", "running"} : status' = [status EXCEPT ![s] = st]
    BY <1>1 DEF Start, Resume
  <2>2. ASSUME NEW r \in Sagas PROVE RowInv(r)'
    <3>1. CASE r = s
      <4>1. LogInv(st, current_step[s], log[s], partial[s])
        BY <2>1, <1>r, LogCarries DEF RowInv, Statuses
      <4> QED BY <2>0, <2>1, <3>1, <4>1, <1>r DEF RowInv, StatusFitsCursor, TypeOK
    <3>2. CASE r # s
      BY <2>0, <2>1, <3>2, <1>r DEF RowInv, TypeOK
    <3> QED BY <3>1, <3>2
  <2>3. ASSUME NEW u \in Workers PROVE WorkerInv(u)'
    <3>1. CASE u = w
      BY <2>1, <3>1 DEF WorkerInv, InTransaction, TypeOK
    <3>2. CASE u # w
      BY <2>0, <2>1, <3>2, <1>w DEF WorkerInv, CopyInv, InTransaction, TypeOK, Terminal, Busy
    <3> QED BY <3>1, <3>2
  <2> QED BY <2>2, <2>3
<1>2. ASSUME NEW w \in Workers, SkipRun(w) \/ Crash(w) PROVE Goal
  <2>1. Leave(w) /\ UNCHANGED table
    BY <1>2 DEF SkipRun, Crash
  <2>2. ~InTransaction(w)'
    BY <2>1 DEF Leave, InTransaction, TypeOK
  <2> QED BY <1>a, <2>1, <2>2 DEF Leave, WorkerInv, TypeOK
<1>3. ASSUME NEW w \in Workers, BeginRun(w) PROVE Goal
  <2>1. saga[w] \in Sagas /\ saga' = saga /\ UNCHANGED table
    BY <1>3, <1>w DEF BeginRun, Busy
  <2>2. status[saga[w]] \in {"none", "pending", "running", "waiting"} /\ RowInv(saga[w])
    BY <1>3, <2>1, <1>r DEF BeginRun, TypeOK, RowInv, Statuses, Terminal
  <2>3. pc'[w] = "forward" /\ copy'[w] = Fetch(saga[w], "running", TRUE)
    BY <1>3, <2>2 DEF BeginRun, TypeOK
  <2>4. \A u \in Workers : InTransaction(u) => saga[u] # saga[w]
    BY <1>3 DEF BeginRun, Locked
  <2>5. \A u \in Workers : u # w => pc'[u] = pc[u] /\ saga'[u] = saga[u] /\ copy'[u] = copy[u]
    BY <1>3 DEF BeginRun, TypeOK
  <2>6. WorkerInv(w)'
    <3>1. LogInv("running", current_step[saga[w]], log[saga[w]], partial[saga[w]])
      BY <2>2, LogCarries DEF RowInv, Statuses
    <3>2. CopyInv(w)'
      BY <2>2, <2>3, <3>1 DEF CopyInv, RowInv, Fetch, StatusFitsPhase
    <3>3. status'[saga'[w]] \notin Terminal
      BY <1>3, <2>1 DEF BeginRun, table
    <3> QED BY <2>1, <2>4, <2>5, <3>2, <3>3 DEF WorkerInv, InTransaction
  <2> QED BY <1>a, <2>1, <2>4, <2>5, <2>6
<1>4. ASSUME NEW w \in Workers, NEW s \in Sagas, Abandon(w, s) PROVE Goal
  <2>1. saga'[w] = s /\ UNCHANGED table /\ status[s] \notin Terminal
    BY <1>4 DEF Abandon, TypeOK
  <2>2. \/ pc'[w] = "compensate" /\ copy'[w] = Fetch(s, "compensating", FALSE)
        \/ pc'[w] = "finished" /\ copy'[w] = Fetch(s, "abandoned", FALSE) /\ current_step[s] = 0
    <3>1. current_step[s] \in Nat
      BY SagaAssumption DEF TypeOK
    <3>2. CASE current_step[s] > 0
      BY <1>4, <3>2 DEF Abandon, UndoesBeforeAbandon, TypeOK
    <3>3. CASE current_step[s] = 0
      BY <1>4, <3>3 DEF Abandon, UndoesBeforeAbandon, TypeOK
    <3>4. current_step[s] > 0 \/ current_step[s] = 0
      BY <3>1
    <3> QED BY <3>2, <3>3, <3>4
  <2>3. status[s] \in {"none", "pending", "running", "waiting"} /\ RowInv(s)
    BY <1>4, <1>r DEF Abandon, TypeOK, RowInv, Statuses, Terminal
  <2>4. \A u \in Workers : InTransaction(u) => saga[u] # s
    BY <1>4 DEF Abandon, Locked
  <2>5. \A u \in Workers : u # w => pc'[u] = pc[u] /\ saga'[u] = saga[u] /\ copy'[u] = copy[u]
    <3>1. saga' = [saga EXCEPT ![w] = s]
      BY <1>4 DEF Abandon
    <3>2. pc' = [pc EXCEPT ![w] = IF UndoesBeforeAbandon(s) THEN "compensate" ELSE "finished"]
      BY <1>4 DEF Abandon
    <3>3. copy' = [copy EXCEPT ![w] = Fetch(s, IF UndoesBeforeAbandon(s)
                                                 THEN "compensating" ELSE "abandoned", FALSE)]
      BY <1>4 DEF Abandon
    <3> QED BY <3>1, <3>2, <3>3 DEF TypeOK
  <2>6. WorkerInv(w)'
    <3>1. \A st \in {"compensating", "abandoned"} :
            LogInv(st, current_step[s], log[s], partial[s])
      BY <2>3, LogCarries DEF RowInv, Statuses, Terminal
    <3>2. CopyInv(w)'
      BY <2>2, <2>3, <3>1 DEF CopyInv, RowInv, Fetch, StatusFitsPhase, StatusFitsCursor
    <3>3. status'[saga'[w]] \notin Terminal
      BY <2>1 DEF table
    <3> QED BY <2>1, <2>4, <2>5, <3>2, <3>3 DEF WorkerInv, InTransaction
  <2> QED BY <1>a, <2>1, <2>4, <2>5, <2>6
\* From here on the worker is in its transaction and stays alone with its saga.
<1>b. ASSUME NEW w \in Workers, InTransaction(w), InTransaction(w)', UNCHANGED <<table, saga>>,
             \A u \in Workers : u # w => pc'[u] = pc[u] /\ copy'[u] = copy[u],
             CopyInv(w)'
      PROVE  Goal
  <2>1. \A u \in Workers : u # w /\ InTransaction(u) => saga[u] # saga[w]
    BY <1>b, <1>w DEF WorkerInv
  <2>2. WorkerInv(w)'
    BY <1>b, <1>w, <2>1 DEF WorkerInv, InTransaction, table
  <2> QED BY <1>a, <1>b, <2>1, <2>2
<1>5. ASSUME NEW w \in Workers, StepOk(w) PROVE Goal
  <2> DEFINE i == copy[w].step + 1
  <2>1. i \in Steps /\ i \in 0 .. NumSteps /\ copy[w] \in Copies /\ pc[w] = "forward"
    BY <1>5 DEF StepOk, StepsLeft, TypeOK, Copies, Steps
  <2>2. copy'[w] = Move(copy[w], i, i, TRUE)
    BY <1>5 DEF StepOk, StepsLeft, TypeOK
  <2>3. /\ copy'[w].step = i /\ copy'[w].net = [copy[w].net EXCEPT ![i] = TRUE]
        /\ copy'[w].status = copy[w].status /\ copy'[w].log = copy[w].log
        /\ copy'[w].partial = copy[w].partial
    <3> HIDE DEF i
    <3>1. \A a \in BOOLEAN : /\ Move(copy[w], i, i, a).step = i
                            /\ Move(copy[w], i, i, a).net = [copy[w].net EXCEPT ![i] = a]
                            /\ Move(copy[w], i, i, a).status = copy[w].status
                            /\ Move(copy[w], i, i, a).log = copy[w].log
                            /\ Move(copy[w], i, i, a).partial = copy[w].partial
      BY <2>1, MoveType
    <3>2. TRUE \in BOOLEAN
      OBVIOUS
    <3> QED BY <2>2, <3>1, <3>2, Zenon
  <2>4. CopyInv(w) /\ InTransaction(w) /\ pc' = pc
    BY <1>5, <2>1, <1>w DEF WorkerInv, InTransaction, StepOk
  <2>5. EffectsUpTo(copy'[w].step, copy'[w].net)
    BY <2>1, <2>3, <2>4 DEF CopyInv, EffectsUpTo, Copies, Steps
  <2>6. copy[w].status = "running" /\ LogInv("running", copy[w].step, copy[w].log, copy[w].partial)
    BY <2>1, <2>4 DEF CopyInv, StatusFitsPhase
  <2>7. LogInv("running", i, copy[w].log, copy[w].partial)
    BY <2>6 DEF LogInv, LogFits
  <2>8. CopyInv(w)'
    BY <2>1, <2>3, <2>4, <2>5, <2>6, <2>7 DEF CopyInv, StatusFitsPhase
  <2> QED BY <1>5, <1>b, <2>1, <2>4, <2>8 DEF StepOk, StepsLeft, InTransaction, TypeOK
<1>6. ASSUME NEW w \in Workers, CompensateOk(w) PROVE Goal
  <2> DEFINE i == copy[w].step
             kept == copy[w].net[i] /\ i \notin Compensable
  <2>1. i \in Steps /\ i - 1 \in 0 .. NumSteps /\ copy[w] \in Copies /\ pc[w] = "compensate"
    BY <1>6 DEF CompensateOk, TypeOK, Copies, Steps
  <2>2. copy'[w] = Move(copy[w], i - 1, i, kept)
    BY <1>6 DEF CompensateOk, Undone, TypeOK
  <2>3. /\ copy'[w].step = i - 1 /\ copy'[w].net = [copy[w].net EXCEPT ![i] = kept]
        /\ copy'[w].status = copy[w].status /\ copy'[w].log = copy[w].log
        /\ copy'[w].partial = copy[w].partial
    <3>1. kept \in BOOLEAN
      OBVIOUS
    <3> HIDE DEF i, kept
    <3>2. /\ Move(copy[w], i - 1, i, kept).step = i - 1
          /\ Move(copy[w], i - 1, i, kept).net = [copy[w].net EXCEPT ![i] = kept]
          /\ Move(copy[w], i - 1, i, kept).status = copy[w].status
          /\ Move(copy[w], i - 1, i, kept).log = copy[w].log
          /\ Move(copy[w], i - 1, i, kept).partial = copy[w].partial
      BY <2>1, <3>1, MoveType
    <3> QED BY <2>2, <3>2
  <2>4. CopyInv(w) /\ InTransaction(w) /\ pc' = pc
    BY <1>6, <2>1, <1>w DEF WorkerInv, InTransaction, CompensateOk
  <2>5. EffectsUpTo(copy'[w].step, copy'[w].net)
    <3> SUFFICES ASSUME NEW j \in Steps
                 PROVE  /\ j <= i - 1 => copy'[w].net[j]
                        /\ j > i - 1 /\ j \in Compensable => ~copy'[w].net[j]
      BY <2>3 DEF EffectsUpTo
    <3>1. CASE j = i
      <4>1. i \in Compensable => ~kept
        OBVIOUS
      <4>2. i \in Int /\ copy[w].net \in [Steps -> BOOLEAN]
        BY <2>1 DEF Copies, Steps
      <4> HIDE DEF i, kept
      <4>3. copy'[w].net[i] = kept
        BY <2>1, <2>3, <4>2
      <4> QED BY <3>1, <4>1, <4>2, <4>3
    <3>2. CASE j # i
      <4>1. copy'[w].net[j] = copy[w].net[j]
        BY <2>1, <2>3, <3>2 DEF Copies
      <4>2. (j <= i - 1 => j <= i) /\ (j > i - 1 => j > i)
        BY <2>1, <3>2 DEF Steps
      <4> QED BY <2>4, <4>1, <4>2 DEF CopyInv, EffectsUpTo
    <3> QED BY <3>1, <3>2
  <2>6. copy[w].status = "compensating"
    BY <2>1, <2>4 DEF CopyInv, StatusFitsPhase
  <2>7. LogInv("compensating", i - 1, copy[w].log, copy[w].partial)
    BY <2>4, <2>6, LogWalksBack DEF CopyInv
  <2>8. CopyInv(w)'
    BY <2>1, <2>3, <2>4, <2>5, <2>6, <2>7 DEF CopyInv, StatusFitsPhase
  <2> QED BY <1>6, <1>b, <2>1, <2>4, <2>8 DEF CompensateOk, InTransaction, TypeOK
<1>7. ASSUME NEW w \in Workers,
             \/ StepWaits(w) \/ StepFails(w) \/ Complete(w)
             \/ CompensateFails(w) \/ CompensateDone(w)
      PROVE  Goal
  <2>1. InTransaction(w) /\ UNCHANGED <<table, saga>>
    BY <1>7 DEF StepWaits, StepFails, Complete, CompensateFails, CompensateDone, InTransaction
  <2>2. CopyInv(w) /\ copy[w] \in Copies
    BY <1>w, <2>1 DEF WorkerInv, TypeOK
  <2>3. InTransaction(w)' /\ \A u \in Workers : u # w => pc'[u] = pc[u]
    BY <1>7 DEF StepWaits, StepFails, Complete, CompensateFails, CompensateDone,
                InTransaction, TypeOK
  <2>4. ASSUME NEW st \in Statuses, copy' = [copy EXCEPT ![w].status = st]
        PROVE  /\ copy'[w].status = st /\ copy'[w].step = copy[w].step
               /\ copy'[w].net = copy[w].net /\ copy'[w].log = copy[w].log
               /\ copy'[w].partial = copy[w].partial
               /\ \A u \in Workers : u # w => copy'[u] = copy[u]
    BY <2>4 DEF TypeOK, Copies
  <2>5. {"completed", "failed", "compensating", "needs_attention", "waiting"} \subseteq Statuses
    BY DEF Statuses, Terminal
  <2>6. CASE StepWaits(w)
    <3> DEFINE i == copy[w].step + 1
    <3>1. i \in Steps /\ CaughtBy(w, "waiting", i, "waiting") /\ pc[w] = "forward" /\ pc'[w] = "finished"
      BY <2>6, CaughtSteps DEF StepWaits, TypeOK
    <3>2. /\ copy'[w].status = "waiting" /\ copy'[w].step = copy[w].step /\ copy'[w].net = copy[w].net
          /\ copy'[w].log = copy[w].log \cup {<<i, "waiting">>}
          /\ copy'[w].partial \subseteq copy[w].partial \cup {i}
          /\ \A u \in Workers : u # w => copy'[u] = copy[u]
      BY <3>1, <2>5, CaughtFacts
    <3> HIDE DEF i
    <3>3. LogInv("running", copy[w].step, copy[w].log, copy[w].partial)
      BY <2>2, <3>1 DEF CopyInv, StatusFitsPhase
    <3>4. LogInv("waiting", copy[w].step, copy'[w].log, copy'[w].partial)
      BY <3>1, <3>2, <3>3, LogWaits
    <3>5. CopyInv(w)'
      BY <2>2, <3>1, <3>2, <3>4 DEF CopyInv, StatusFitsPhase, StatusFitsCursor
    <3> QED BY <1>b, <2>1, <2>3, <3>2, <3>5
  <2>7. CASE StepFails(w)
    <3> DEFINE i == copy[w].step + 1
    <3>1. i \in Steps /\ CaughtBy(w, "compensating", i, "forward") /\ pc[w] = "forward" /\ pc'[w] = "compensate"
      BY <2>7, CaughtSteps DEF StepFails, TypeOK
    <3>2. /\ copy'[w].status = "compensating" /\ copy'[w].step = copy[w].step /\ copy'[w].net = copy[w].net
          /\ copy'[w].log = copy[w].log \cup {<<i, "forward">>}
          /\ copy'[w].partial \subseteq copy[w].partial \cup {i}
          /\ \A u \in Workers : u # w => copy'[u] = copy[u]
      BY <3>1, <2>5, CaughtFacts
    <3> HIDE DEF i
    <3>3. LogInv("running", copy[w].step, copy[w].log, copy[w].partial)
      BY <2>2, <3>1 DEF CopyInv, StatusFitsPhase
    <3>4. LogInv("compensating", copy[w].step, copy'[w].log, copy'[w].partial)
      BY <3>1, <3>2, <3>3, LogFails
    <3>5. CopyInv(w)'
      BY <2>2, <3>1, <3>2, <3>4 DEF CopyInv, StatusFitsPhase
    <3> QED BY <1>b, <2>1, <2>3, <3>2, <3>5
  <2>8. CASE CompensateFails(w)
    <3> DEFINE i == copy[w].step
    <3>1. /\ i \in Steps /\ i \in Compensable /\ CaughtBy(w, "needs_attention", i, "compensate")
          /\ pc[w] = "compensate" /\ pc'[w] = "finished"
      BY <2>8, CaughtSteps DEF CompensateFails, Undone, TypeOK
    <3>2. /\ copy'[w].status = "needs_attention" /\ copy'[w].step = i /\ copy'[w].net = copy[w].net
          /\ copy'[w].log = copy[w].log \cup {<<i, "compensate">>}
          /\ copy'[w].partial \subseteq copy[w].partial \cup {i}
          /\ \A u \in Workers : u # w => copy'[u] = copy[u]
      BY <3>1, <2>5, CaughtFacts
    <3>3. LogInv("compensating", i, copy[w].log, copy[w].partial)
      BY <2>2, <3>1 DEF CopyInv, StatusFitsPhase
    <3>4. EffectsUpTo(i, copy[w].net)
      BY <2>2 DEF CopyInv
    <3> HIDE DEF i
    <3>5. LogInv("needs_attention", i, copy'[w].log, copy'[w].partial)
      BY <3>1, <3>2, <3>3, LogGivesUp
    <3>6. CopyInv(w)'
      BY <3>1, <3>2, <3>4, <3>5 DEF CopyInv, StatusFitsPhase, StatusFitsCursor
    <3> QED BY <1>b, <2>1, <2>3, <3>2, <3>6
  <2>9. CASE Complete(w)
    <3>1. pc[w] = "forward" /\ pc'[w] = "finished" /\ copy[w].step = NumSteps
      BY <2>9 DEF Complete, TypeOK
    <3>2. /\ copy'[w].status = "completed" /\ copy'[w].step = copy[w].step
          /\ copy'[w].net = copy[w].net /\ copy'[w].log = copy[w].log
          /\ copy'[w].partial = copy[w].partial
          /\ \A u \in Workers : u # w => copy'[u] = copy[u]
      BY <2>4, <2>5, <2>9 DEF Complete
    <3>3. LogInv("completed", copy[w].step, copy[w].log, copy[w].partial)
      BY <2>2, <2>5, <3>1, LogCarries DEF CopyInv, StatusFitsPhase
    <3>4. CopyInv(w)'
      BY <2>2, <3>1, <3>2, <3>3 DEF CopyInv, StatusFitsPhase, StatusFitsCursor
    <3> QED BY <1>b, <2>1, <2>3, <3>2, <3>4
  <2>10. CASE CompensateDone(w)
    <3>1. pc[w] = "compensate" /\ pc'[w] = "finished" /\ copy[w].step = 0
      BY <2>10 DEF CompensateDone, TypeOK
    <3>2. /\ copy'[w].status = "failed" /\ copy'[w].step = copy[w].step
          /\ copy'[w].net = copy[w].net /\ copy'[w].log = copy[w].log
          /\ copy'[w].partial = copy[w].partial
          /\ \A u \in Workers : u # w => copy'[u] = copy[u]
      BY <2>4, <2>5, <2>10 DEF CompensateDone
    <3>3. LogInv("failed", copy[w].step, copy[w].log, copy[w].partial)
      BY <2>2, <3>1, LogWalksBack DEF CopyInv, StatusFitsPhase
    <3>4. CopyInv(w)'
      BY <2>2, <3>1, <3>2, <3>3 DEF CopyInv, StatusFitsPhase, StatusFitsCursor
    <3> QED BY <1>b, <2>1, <2>3, <3>2, <3>4
  <2> QED BY <1>7, <2>6, <2>7, <2>8, <2>9, <2>10
<1>8. ASSUME NEW w \in Workers, Emit(w) PROVE Goal
  <2>1. pc[w] = "finished" /\ pc' = [pc EXCEPT ![w] = "emitted"] /\ UNCHANGED <<table, saga, copy>>
    BY <1>8 DEF Emit
  <2>2. InTransaction(w) /\ InTransaction(w)'
    BY <2>1 DEF InTransaction, TypeOK
  <2>3. CopyInv(w)
    BY <1>w, <2>1, <2>2 DEF WorkerInv
  <2>4. CopyInv(w)'
    BY <2>1, <2>3 DEF CopyInv, StatusFitsPhase, TypeOK
  <2> QED BY <1>b, <2>1, <2>2, <2>4 DEF TypeOK
<1>9. ASSUME NEW w \in Workers, Commit(w) PROVE Goal
  <2>1. pc[w] = "emitted" /\ Leave(w) /\ InTransaction(w) /\ saga[w] \in Sagas
    BY <1>9, <1>w DEF Commit, InTransaction, Busy
  <2>2. /\ EffectsUpTo(copy[w].step, copy[w].net)
        /\ StatusFitsCursor(copy[w].status, copy[w].step)
        /\ LogInv(copy[w].status, copy[w].step, copy[w].log, copy[w].partial)
        /\ copy[w].status # "compensating"
        /\ \A u \in Workers : u # w /\ InTransaction(u) => saga[u] # saga[w]
    BY <1>w, <2>1 DEF WorkerInv, CopyInv, StatusFitsPhase
  <2>3. ASSUME NEW s \in Sagas PROVE RowInv(s)'
    <3>1. CASE s = saga[w]
      BY <1>9, <2>2, <3>1 DEF Commit, RowInv, TypeOK
    <3>2. CASE s # saga[w]
      BY <1>9, <1>r, <3>2 DEF Commit, RowInv, TypeOK
    <3> QED BY <3>1, <3>2
  <2>4. ASSUME NEW u \in Workers PROVE WorkerInv(u)'
    <3>1. CASE u = w
      BY <2>1, <3>1 DEF Leave, WorkerInv, InTransaction, TypeOK
    <3>2. CASE u # w
      <4>1. pc'[u] = pc[u] /\ saga'[u] = saga[u] /\ copy'[u] = copy[u]
        BY <2>1, <3>2 DEF Leave, TypeOK
      <4>2. InTransaction(u) => status'[saga[u]] = status[saga[u]]
        BY <1>9, <2>2, <3>2 DEF Commit, TypeOK
      <4>3. \A v \in Workers : InTransaction(v)' => InTransaction(v) /\ saga'[v] = saga[v]
        BY <2>1 DEF Leave, InTransaction, TypeOK
      <4> QED BY <1>w, <4>1, <4>2, <4>3 DEF WorkerInv, CopyInv, InTransaction
    <3> QED BY <3>1, <3>2
  <2> QED BY <2>3, <2>4
<1>10. CASE UNCHANGED vars
  <2>1. UNCHANGED <<status, current_step, log, net, partial, pc, saga, copy>>
    BY <1>10 DEF vars, table, procs
  <2>2. \A s \in Sagas : RowInv(s)'
    BY <1>r, <2>1 DEF RowInv
  <2>3. \A u \in Workers : WorkerInv(u)'
    BY <1>w, <2>1 DEF WorkerInv, CopyInv, InTransaction
  <2> QED BY <2>2, <2>3
<1> HIDE DEF Goal
<1>11. ASSUME NEW w \in Workers, Proceed(w) \/ Crash(w) PROVE Goal
  BY <1>11, <1>2, <1>3, <1>5, <1>6, <1>7, <1>8, <1>9 DEF Proceed
<1>12. ASSUME NEW w \in Workers, NEW s \in Sagas, Start(w, s) \/ Resume(w, s) \/ Abandon(w, s)
       PROVE  Goal
  BY <1>12, <1>1, <1>4
<1>13. Next => Goal
  BY <1>11, <1>12 DEF Next, Overdue
<1> QED BY <1>10, <1>13 DEF Goal

LEMMA SagaInvAlways == Spec => []SagaInv
  <1>1. TypeOK /\ Busy /\ TypeOK' /\ Busy' /\ SagaInv /\ [Next]_vars => SagaInv'
    BY SagaInvNext
  <1> QED BY <1>1, SagaInvInit, TypeCorrect, PTL DEF Spec

\* Spec implies CursorMatchesEffects: because the cursor is saved in the
\* transaction that contains the steps' writes, it tells after any crash or race
\* which steps are applied.
THEOREM CursorIsRight == Spec => []CursorMatchesEffects
<1>1. SagaInv => CursorMatchesEffects
  BY DEF SagaInv, RowInv, EffectsUpTo, CursorMatchesEffects
<1> QED BY <1>1, SagaInvAlways, PTL

\* Spec implies OutcomeIsHonest: the terminal statuses mean what they say about
\* the database.
THEOREM OutcomesAreHonest == Spec => []OutcomeIsHonest
<1>1. SagaInv /\ TypeOK => OutcomeIsHonest
  <2> SUFFICES ASSUME SagaInv, TypeOK, NEW s \in Sagas
               PROVE  /\ status[s] = "completed" => \A i \in Steps : net[s][i]
                      /\ status[s] \in {"failed", "abandoned"} => \A i \in Compensable : ~net[s][i]
                      /\ status[s] = "needs_attention" => \E i \in Compensable : net[s][i]
    BY DEF OutcomeIsHonest, SagaInv, RowInv, LogInv
  <2>1. EffectsUpTo(current_step[s], net[s]) /\ StatusFitsCursor(status[s], current_step[s])
    BY DEF SagaInv, RowInv
  <2>2. Compensable \subseteq Steps /\ \A i \in Steps : i \in Int /\ i <= NumSteps /\ i > 0
    BY SagaAssumption DEF Steps
  <2>3. status[s] = "completed" => \A i \in Steps : net[s][i]
    BY <2>1, <2>2 DEF EffectsUpTo, StatusFitsCursor
  <2>4. status[s] \in {"failed", "abandoned"} => \A i \in Compensable : ~net[s][i]
    BY <2>1, <2>2 DEF EffectsUpTo, StatusFitsCursor
  <2>5. status[s] = "needs_attention" => \E i \in Compensable : net[s][i]
    <3> SUFFICES ASSUME status[s] = "needs_attention" PROVE net[s][current_step[s]]
      BY <2>1 DEF StatusFitsCursor
    <3>1. current_step[s] \in Steps
      BY <2>1, <2>2 DEF StatusFitsCursor
    <3> QED BY <2>1, <2>2, <3>1 DEF EffectsUpTo
  <2> QED BY <2>3, <2>4, <2>5
<1> QED BY <1>1, SagaInvAlways, TypeCorrect, PTL

\* Spec implies TerminalIsFinal: the row lock and the status check under it keep
\* late run() calls and stale sweeps away from a terminal saga.
THEOREM TerminalStays == Spec => TerminalIsFinal
<1>1. TypeOK /\ SagaInv /\ [Next]_vars => TerminalKept
  <2> SUFFICES ASSUME TypeOK, SagaInv, [Next]_vars, NEW s \in Sagas, status[s] \in Terminal
               PROVE  /\ status'[s] = status[s] /\ net'[s] = net[s]
                      /\ partial'[s] = partial[s] /\ outside'[s] = outside[s]
    BY DEF TerminalKept
  <2> DEFINE P == /\ status'[s] = status[s] /\ net'[s] = net[s]
                  /\ partial'[s] = partial[s] /\ outside'[s] = outside[s]
  <2>1. \A w \in Workers : InTransaction(w) => saga[w] # s /\ saga[w] \in Sagas
    BY DEF SagaInv, InTransaction
  <2>2. ASSUME NEW w \in Workers, NEW r \in Sagas, Start(w, r) \/ Resume(w, r) PROVE P
    BY <2>2 DEF Start, Resume, Terminal, TypeOK
  <2>3. ASSUME NEW w \in Workers, NEW r \in Sagas, Abandon(w, r) PROVE P
    BY <2>3 DEF Abandon, table
  <2>4. ASSUME NEW w \in Workers,
               \/ SkipRun(w) \/ BeginRun(w) \/ StepWaits(w) \/ StepFails(w) \/ Complete(w)
               \/ CompensateFails(w) \/ CompensateDone(w) \/ Emit(w) \/ Crash(w)
        PROVE  P
    BY <2>4 DEF SkipRun, BeginRun, StepWaits, StepFails, Complete, CompensateFails,
                CompensateDone, Emit, Crash, table
  <2>5. ASSUME NEW w \in Workers, StepOk(w) \/ CompensateOk(w) PROVE P
    <3>1. saga[w] # s
      BY <2>1, <2>5 DEF StepOk, StepsLeft, CompensateOk, InTransaction
    <3>2. outside'[s] = outside[s]
      BY <2>5, <3>1 DEF StepOk, StepsLeft, CompensateOk, TypeOK
    <3> QED BY <2>5, <3>2 DEF StepOk, StepsLeft, CompensateOk, table
  <2>6. ASSUME NEW w \in Workers, Commit(w) PROVE P
    <3>1. saga[w] # s
      BY <2>1, <2>6 DEF Commit, InTransaction
    <3> QED BY <2>6, <3>1 DEF Commit, TypeOK
  <2>7. UNCHANGED vars => P
    BY DEF vars, table
  <2> HIDE DEF P
  <2>8. Next => P
    BY <2>2, <2>3, <2>4, <2>5, <2>6 DEF Next, Proceed, Overdue
  <2> QED BY <2>7, <2>8 DEF P
<1> QED BY <1>1, SagaInvAlways, TypeCorrect, PTL DEF Spec, TerminalIsFinal
=============================================================================
