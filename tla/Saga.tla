-------------------------------- MODULE Saga --------------------------------
(***************************************************************************)
(* The saga engine of apps/sagas: start(), run(), resume(), abandon() and  *)
(* the beat tasks that call them.                                          *)
(*                                                                         *)
(* run() is one database transaction around all the steps it executes: it  *)
(* locks the saga row, works on a copy of it, and saves the copy at the    *)
(* end.  A step's database writes are part of that transaction; what a     *)
(* step does outside the database is not.  run() catches what a step or a  *)
(* compensation raises inside the transaction, with no savepoint around    *)
(* it, so that what it wrote before it raised is committed with the row.   *)
(* The definition (the step list) is a parameter.                          *)
(*                                                                         *)
(* Steps are numbered from 1, so current_step (the index of the next step) *)
(* is the number of steps that are done.                                   *)
(***************************************************************************)
EXTENDS Integers

CONSTANTS Sagas,        \* saga rows
          NumSteps,     \* len(saga_def.steps)
          Compensable,  \* the steps that have a compensate function
          Workers,      \* processes: request threads and Celery workers
          NoSaga,       \* "no saga in hand"
          MaxWaits,     \* bound on how often a saga is parked
          MaxCrashes    \* bound on crashes

Steps == 1 .. NumSteps

ASSUME SagaAssumption ==
  /\ NoSaga \notin Sagas
  /\ NumSteps \in Nat \ {0}
  /\ Compensable \subseteq Steps
  /\ MaxWaits \in Nat /\ MaxCrashes \in Nat

VARIABLES
  (* The Saga table. *)
  status,        \* SagaStatus, or "none" before start()
  current_step,  \* the number of steps done
  log,           \* the entries of steps_log about a step that raised
  net,           \* committed database effect of each step: applied or not
  partial,       \* steps that left database writes when they, or their
                 \* compensation, raised
  (* What survives a rollback. *)
  outside,       \* effect of each step outside the database: applied or not
  counted,       \* saga_terminal_total increments for the saga
  (* By worker. *)
  pc,            \* where the worker is in run() or abandon()
  saga,          \* the saga it works on
  copy,          \* its copy of the row, and what it wrote so far
  (* Bounds. *)
  waits, crashes

table  == <<status, current_step, log, net, partial>>
procs  == <<pc, saga, copy>>
bounds == <<waits, crashes>>
vars   == <<table, outside, counted, procs, bounds>>

Terminal == {"completed", "failed", "abandoned", "needs_attention"}
Statuses == Terminal \cup {"none", "pending", "running", "waiting", "compensating"}
Phases   == {"idle", "called", "forward", "compensate", "finished", "emitted"}
Nothing  == [i \in Steps |-> FALSE]
\* A step raised SagaWait, or anything else; a compensation raised.
Entries  == Steps \X {"waiting", "forward", "compensate"}
NoCopy   == [status |-> "none", step |-> 0, log |-> {}, net |-> Nothing, partial |-> {},
             emit |-> FALSE]
Copies   == [status : Statuses, step : 0 .. NumSteps, log : SUBSET Entries,
             net : [Steps -> BOOLEAN], partial : SUBSET Steps, emit : BOOLEAN]

-----------------------------------------------------------------------------
(* Helpers. *)

\* The worker is inside the transaction of run() or abandon().
InTransaction(w) == pc[w] \in {"forward", "compensate", "finished", "emitted"}

\* Mutant: the select takes no row lock.
LockedNever(s) == FALSE

\* Another transaction holds the row lock, so select_for_update(skip_locked)
\* finds nothing.
Locked(s) == \E w \in Workers : InTransaction(w) /\ saga[w] = s

\* The copy select_for_update returns; `emit` tells run() from abandon().
Fetch(s, new_status, emit) ==
  [status |-> new_status, step |-> current_step[s], log |-> log[s], net |-> net[s],
   partial |-> partial[s], emit |-> emit]

\* A copy whose cursor moved over step i, which is now applied or not.
Move(c, step, i, applied) ==
  [c EXCEPT !.step = step, !.net = [@ EXCEPT ![i] = applied]]

\* A copy that takes the status on account of an exception in step i, which had
\* written something before it raised or had not.
Caught(c, new_status, i, phase, wrote) ==
  [c EXCEPT !.status = new_status, !.log = @ \cup {<<i, phase>>},
            !.partial = IF wrote THEN @ \cup {i} ELSE @]

\* The worker returns from whatever it was doing.
Leave(w) ==
  /\ pc'   = [pc EXCEPT ![w] = "idle"]
  /\ saga' = [saga EXCEPT ![w] = NoSaga]
  /\ copy' = [copy EXCEPT ![w] = NoCopy]

-----------------------------------------------------------------------------
Init ==
  /\ status       = [s \in Sagas |-> "none"]
  /\ current_step = [s \in Sagas |-> 0]
  /\ log          = [s \in Sagas |-> {}]
  /\ net          = [s \in Sagas |-> Nothing]
  /\ partial      = [s \in Sagas |-> {}]
  /\ outside      = [s \in Sagas |-> Nothing]
  /\ counted      = [s \in Sagas |-> 0]
  /\ pc           = [w \in Workers |-> "idle"]
  /\ saga         = [w \in Workers |-> NoSaga]
  /\ copy         = [w \in Workers |-> NoCopy]
  /\ waits        = [s \in Sagas |-> 0]
  /\ crashes      = 0

-----------------------------------------------------------------------------
(* Entry points *)

\* start() commits the row; every caller goes on to call run().
Start(w, s) ==
  /\ pc[w] = "idle"
  /\ status[s] = "none"
  /\ status' = [status EXCEPT ![s] = "pending"]
  /\ pc'     = [pc EXCEPT ![w] = "called"]
  /\ saga'   = [saga EXCEPT ![w] = s]
  /\ UNCHANGED <<current_step, log, net, partial, outside, counted, copy, bounds>>

\* resume(), from advance_waiting_sagas or an external signal: the flip to
\* RUNNING is a transaction of its own, run() comes after it.
Resume(w, s) ==
  /\ pc[w] = "idle"
  /\ status[s] = "waiting"
  /\ ~Locked(s)
  /\ status' = [status EXCEPT ![s] = "running"]
  /\ pc'     = [pc EXCEPT ![w] = "called"]
  /\ saga'   = [saga EXCEPT ![w] = s]
  /\ UNCHANGED <<current_step, log, net, partial, outside, counted, copy, bounds>>

\* run() finds the row locked, or terminal.
SkipRun(w) ==
  /\ pc[w] = "called"
  /\ Locked(saga[w]) \/ status[saga[w]] \in Terminal
  /\ Leave(w)
  /\ UNCHANGED <<table, outside, counted, bounds>>

\* run() locks the row and goes forward from current_step.
BeginRun(w) ==
  /\ pc[w] = "called"
  /\ ~Locked(saga[w])
  /\ status[saga[w]] \notin Terminal
  /\ LET compensating == status[saga[w]] = "compensating"
     IN /\ pc'   = [pc EXCEPT ![w] = IF compensating THEN "compensate" ELSE "forward"]
        /\ copy' = [copy EXCEPT ![w] =
                      Fetch(saga[w], IF compensating THEN "compensating" ELSE "running", TRUE)]
  /\ UNCHANGED <<table, outside, counted, saga, bounds>>

\* Mutant: only sagas that never ran a step are abandoned.
UndoesBeforeAbandonNever(s) == FALSE

\* abandon() unwinds a saga that has completed steps.
UndoesBeforeAbandon(s) == current_step[s] > 0

\* abandon(), from abandon_overdue_sagas once max_lifetime_seconds have passed.
\* It re-checks nothing but the terminal states, and unlike run() it does not
\* call _emit_terminal.
Abandon(w, s) ==
  /\ pc[w] = "idle"
  /\ status[s] \notin Terminal \cup {"none"}
  /\ ~Locked(s)
  /\ saga' = [saga EXCEPT ![w] = s]
  /\ IF UndoesBeforeAbandon(s)
       THEN /\ pc'   = [pc EXCEPT ![w] = "compensate"]
            /\ copy' = [copy EXCEPT ![w] = Fetch(s, "compensating", FALSE)]
       ELSE /\ pc'   = [pc EXCEPT ![w] = "finished"]
            /\ copy' = [copy EXCEPT ![w] = Fetch(s, "abandoned", FALSE)]
  /\ UNCHANGED <<table, outside, counted, bounds>>

-----------------------------------------------------------------------------
(* _advance_forward *)

\* The condition of the loop over the steps.
StepsLeft(w) == copy[w].step < NumSteps

\* The next step's action returns.
StepOk(w) ==
  /\ pc[w] = "forward"
  /\ StepsLeft(w)
  /\ LET i == copy[w].step + 1
     IN /\ copy' = [copy EXCEPT ![w] = Move(@, i, i, TRUE)]
        /\ outside' = [outside EXCEPT ![saga[w]][i] = TRUE]
  /\ UNCHANGED <<table, counted, pc, saga, bounds>>

\* It raises SagaWait.
StepWaits(w) ==
  /\ pc[w] = "forward"
  /\ StepsLeft(w)
  /\ waits[saga[w]] < MaxWaits
  /\ waits' = [waits EXCEPT ![saga[w]] = @ + 1]
  /\ \E wrote \in BOOLEAN :
       copy' = [copy EXCEPT ![w] = Caught(@, "waiting", @.step + 1, "waiting", wrote)]
  /\ pc'    = [pc EXCEPT ![w] = "finished"]
  /\ UNCHANGED <<table, outside, counted, saga, crashes>>

\* It raises SagaAbort or anything else.  The walk back starts at the step before
\* it, so what it had written is not undone.
StepFails(w) ==
  /\ pc[w] = "forward"
  /\ StepsLeft(w)
  /\ \E wrote \in BOOLEAN :
       copy' = [copy EXCEPT ![w] = Caught(@, "compensating", @.step + 1, "forward", wrote)]
  /\ pc'   = [pc EXCEPT ![w] = "compensate"]
  /\ UNCHANGED <<table, outside, counted, saga, bounds>>

\* No step is left.
Complete(w) ==
  /\ pc[w] = "forward"
  /\ copy[w].step = NumSteps
  /\ copy' = [copy EXCEPT ![w].status = "completed"]
  /\ pc'   = [pc EXCEPT ![w] = "finished"]
  /\ UNCHANGED <<table, outside, counted, saga, bounds>>

-----------------------------------------------------------------------------
(* _compensate *)

\* Mutant: the walk starts at the step that failed.
UndoneTooFar(w) == IF copy[w].step < NumSteps THEN copy[w].step + 1 ELSE copy[w].step

\* The step to undo next is the last one that is done.
Undone(w) == copy[w].step

\* The compensation returns; a step without one is skipped.
CompensateOk(w) ==
  /\ pc[w] = "compensate"
  /\ copy[w].step > 0
  /\ LET i == Undone(w)
         kept(applied) == applied /\ i \notin Compensable
     IN /\ copy' = [copy EXCEPT ![w] = Move(@, copy[w].step - 1, i, kept(copy[w].net[i]))]
        /\ outside' = [outside EXCEPT ![saga[w]][i] = kept(@)]
  /\ UNCHANGED <<table, counted, pc, saga, bounds>>

\* The compensation raises.
CompensateFails(w) ==
  /\ pc[w] = "compensate"
  /\ copy[w].step > 0
  /\ Undone(w) \in Compensable
  /\ \E wrote \in BOOLEAN :
       copy' = [copy EXCEPT ![w] =
                  Caught(@, "needs_attention", Undone(w), "compensate", wrote)]
  /\ pc'   = [pc EXCEPT ![w] = "finished"]
  /\ UNCHANGED <<table, outside, counted, saga, bounds>>

\* Everything is undone.
CompensateDone(w) ==
  /\ pc[w] = "compensate"
  /\ copy[w].step = 0
  /\ copy' = [copy EXCEPT ![w].status = "failed"]
  /\ pc'   = [pc EXCEPT ![w] = "finished"]
  /\ UNCHANGED <<table, outside, counted, saga, bounds>>

-----------------------------------------------------------------------------
(* The end of run() and abandon() *)

\* _emit_terminal counts the outcome before the row is saved.
Emit(w) ==
  /\ pc[w] = "finished"
  /\ counted' = [counted EXCEPT ![saga[w]] =
                   @ + IF copy[w].emit /\ copy[w].status \in Terminal THEN 1 ELSE 0]
  /\ pc' = [pc EXCEPT ![w] = "emitted"]
  /\ UNCHANGED <<table, outside, saga, copy, bounds>>

\* save(), and the transaction commits with the steps' writes.
Commit(w) ==
  /\ pc[w] = "emitted"
  /\ status'       = [status EXCEPT ![saga[w]] = copy[w].status]
  /\ current_step' = [current_step EXCEPT ![saga[w]] = copy[w].step]
  /\ log'          = [log EXCEPT ![saga[w]] = copy[w].log]
  /\ net'          = [net EXCEPT ![saga[w]] = copy[w].net]
  /\ partial'      = [partial EXCEPT ![saga[w]] = copy[w].partial]
  /\ Leave(w)
  /\ UNCHANGED <<outside, counted, bounds>>

\* The process dies, or a SQL error in a step makes the transaction unusable and
\* the exception leaves run(): nothing is saved.
Crash(w) ==
  /\ pc[w] # "idle"
  /\ crashes < MaxCrashes
  /\ crashes' = crashes + 1
  /\ Leave(w)
  /\ UNCHANGED <<table, outside, counted, waits>>

-----------------------------------------------------------------------------
\* The steps of a worker that is inside run(), resume() or abandon().
Proceed(w) ==
  \/ SkipRun(w) \/ BeginRun(w)
  \/ StepOk(w) \/ StepWaits(w) \/ StepFails(w) \/ Complete(w)
  \/ CompensateOk(w) \/ CompensateFails(w) \/ CompensateDone(w)
  \/ Emit(w) \/ Commit(w)

\* Mutant: the sweep only looks for parked sagas.
OverdueParkedOnly(s) == status[s] = "waiting" /\ \E w \in Workers : Abandon(w, s)

\* abandon_overdue_sagas reaches the saga, on whatever worker.
Overdue(s) == \E w \in Workers : Abandon(w, s)

Next ==
  \/ \E w \in Workers, s \in Sagas : Start(w, s) \/ Resume(w, s)
  \/ \E s \in Sagas : Overdue(s)
  \/ \E w \in Workers : Proceed(w) \/ Crash(w)

Spec == Init /\ [][Next]_vars

\* A worker inside a call goes on, and every saga outlives its max_lifetime one
\* day and is then swept by the beat task.  Nothing is assumed of resume().
Fairness ==
  /\ \A w \in Workers : WF_vars(Proceed(w))
  /\ \A s \in Sagas : WF_vars(Overdue(s))

FairSpec == Spec /\ Fairness

-----------------------------------------------------------------------------
(* Properties *)

TypeOK ==
  /\ status \in [Sagas -> Statuses]
  /\ current_step \in [Sagas -> 0 .. NumSteps]
  /\ log \in [Sagas -> SUBSET Entries]
  /\ net \in [Sagas -> [Steps -> BOOLEAN]]
  /\ partial \in [Sagas -> SUBSET Steps]
  /\ outside \in [Sagas -> [Steps -> BOOLEAN]]
  /\ counted \in [Sagas -> Nat]
  /\ pc \in [Workers -> Phases]
  /\ saga \in [Workers -> Sagas \cup {NoSaga}]
  /\ copy \in [Workers -> Copies]
  /\ waits \in [Sagas -> Nat]
  /\ crashes \in Nat

\* The cursor tells which steps have their whole effect in the database, whatever
\* mixture of runs, resumes, crashes and abandons led here: those before it have,
\* and no compensable one from it on has.  Compensation relies on this.  (Part of
\* the effect of a step that raised may be there as well: `partial`.)
CursorMatchesEffects ==
  \A s \in Sagas : \A i \in Steps :
    /\ i <= current_step[s] => net[s][i]
    /\ i > current_step[s] /\ i \in Compensable => ~net[s][i]

Raised(entries, phase) == {i \in Steps : <<i, phase>> \in entries}

\* How the entries of the log agree with a status and a cursor.
LogFits(st, step, entries) ==
  /\ \A i, j \in Raised(entries, "forward") : i = j
  /\ st \in {"completed", "abandoned"} => Raised(entries, "forward") = {}
  /\ Raised(entries, "compensate") = IF st = "needs_attention" THEN {step} ELSE {}

\* What raising steps left is accounted for.
Accounted(steps, entries) ==
  \A i \in steps : \E phase \in {"waiting", "forward", "compensate"} : <<i, phase>> \in entries

\* A terminal status and the log together tell the truth about the database.
\* Completed means every step is applied; failed and abandoned mean every
\* compensable step that had completed is undone; needs_attention means some
\* compensable step is not, and the log names it with the cursor.  Of the steps
\* that raised, which the log names, writes may be left under any status: of one
\* that stopped the walk forward, of one whose compensation raised, and of those
\* that parked the saga.
OutcomeIsHonest ==
  \A s \in Sagas :
    /\ status[s] = "completed" => \A i \in Steps : net[s][i]
    /\ status[s] \in {"failed", "abandoned"} => \A i \in Compensable : ~net[s][i]
    /\ status[s] = "needs_attention" => \E i \in Compensable : net[s][i]
    /\ LogFits(status[s], current_step[s], log[s])
    /\ Accounted(partial[s], log[s])

\* The strengthening that makes the two properties above inductive.  A worker in
\* a transaction is alone with its saga, which is not terminal; its copy obeys
\* the same law as the row; and once it is finished, the status it will save
\* agrees with its cursor and its log.
EffectsUpTo(step, effects) ==
  \A i \in Steps :
    /\ i <= step => effects[i]
    /\ i > step /\ i \in Compensable => ~effects[i]

StatusFitsCursor(st, step) ==
  /\ st = "completed" => step = NumSteps
  /\ st \in {"failed", "abandoned"} => step = 0
  /\ st = "needs_attention" => step \in Compensable

\* What else holds of the log: a saga that can still go forward has stopped at no
\* step, and what raising steps left is accounted for.
LogInv(st, step, entries, left) ==
  /\ LogFits(st, step, entries)
  /\ st \in {"none", "pending", "running", "waiting"} => Raised(entries, "forward") = {}
  /\ Accounted(left, entries)

\* The statuses a copy can have while the worker is at a point of run().
StatusFitsPhase(st, phase) ==
  /\ phase = "forward" => st = "running"
  /\ phase = "compensate" => st = "compensating"
  /\ phase \in {"finished", "emitted"} => st # "compensating"

RowInv(s) ==
  /\ EffectsUpTo(current_step[s], net[s]) /\ StatusFitsCursor(status[s], current_step[s])
  /\ LogInv(status[s], current_step[s], log[s], partial[s])
  /\ status[s] # "compensating"

CopyInv(w) ==
  /\ EffectsUpTo(copy[w].step, copy[w].net)
  /\ pc[w] \in {"finished", "emitted"} => StatusFitsCursor(copy[w].status, copy[w].step)
  /\ LogInv(copy[w].status, copy[w].step, copy[w].log, copy[w].partial)
  /\ StatusFitsPhase(copy[w].status, pc[w])

SagaInv ==
  /\ \A s \in Sagas : RowInv(s)
  /\ \A w \in Workers :
       /\ pc[w] # "idle" => saga[w] \in Sagas
       /\ InTransaction(w) =>
            /\ status[saga[w]] \notin Terminal
            /\ CopyInv(w)
            /\ \A v \in Workers : InTransaction(v) /\ saga[v] = saga[w] => v = w

\* A terminal saga stays as it is: neither a run() that was already called nor a
\* sweep with a stale list of ids revives it or touches its effects.
TerminalKept ==
  \A s \in Sagas : status[s] \in Terminal =>
    UNCHANGED <<status[s], net[s], partial[s], outside[s]>>

TerminalIsFinal == [][TerminalKept]_vars

\* Every saga reaches a terminal status, through crashes of its runner too.
EventuallyTerminal ==
  \A s \in Sagas : status[s] = "pending" ~> status[s] \in Terminal
=============================================================================
