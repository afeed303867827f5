---------------------------- MODULE Idempotency ----------------------------
(***************************************************************************)
(* The Idempotency-Key layer of apps/idempotency: the @idempotent wrapper  *)
(* around a write endpoint, IdempotencyKey.claim(), complete() and         *)
(* abandon(), and the sweep of expired rows.                               *)
(*                                                                         *)
(* A request is one HTTP POST: it carries a key and a body, and a client   *)
(* retries by sending another one with the same key.  A view either        *)
(* commits its effect and answers 2xx, or leaves nothing behind and        *)
(* answers something else or raises.  Keys are per user, so a key here is  *)
(* a (user, key) pair; requests without a key or a user are passed through *)
(* and are left out.                                                       *)
(***************************************************************************)
EXTENDS Integers

CONSTANTS Requests,
          Keys,
          KeyOf,     \* the Idempotency-Key of a request
          BodyOf,    \* the hash of its body
          NoRow,     \* "no row"
          MaxFaults  \* bound on crashes and database errors

ASSUME IdempotencyAssumption ==
  /\ KeyOf \in [Requests -> Keys]
  /\ NoRow \notin Requests
  /\ MaxFaults \in Nat

VARIABLES
  (* The IdempotencyKey table, by key. *)
  row,       \* the request whose claim inserted the row, or NoRow
  completed, \* the row is COMPLETED (otherwise IN_PROGRESS)
  expired,   \* its expires_at has passed
  (* The wrapper, by request. *)
  pc,
  claimed,   \* claim() returned a row to it
  answer,    \* what the client got
  replayed,  \* for a replay, the request whose response it is
  (* Observation. *)
  executed,  \* requests whose view committed its effect
  swept,     \* keys that had a row swept
  (* Bound. *)
  faults

table == <<row, completed, expired>>
seen  == <<executed, swept>>
vars  == <<table, pc, claimed, answer, replayed, seen, faults>>

Phases  == {"new", "insert", "view", "complete", "abandon", "done"}
Answers == {"none", "success", "failure", "replay", "mismatch", "in_progress", "lost"}

-----------------------------------------------------------------------------
Init ==
  /\ row       = [k \in Keys |-> NoRow]
  /\ completed = [k \in Keys |-> FALSE]
  /\ expired   = [k \in Keys |-> FALSE]
  /\ pc        = [r \in Requests |-> "new"]
  /\ claimed   = [r \in Requests |-> FALSE]
  /\ answer    = [r \in Requests |-> "none"]
  /\ replayed  = [r \in Requests |-> NoRow]
  /\ executed = {} /\ swept = {}
  /\ faults = 0

-----------------------------------------------------------------------------
(* Helpers. *)

\* The request goes on at another point of the wrapper.
Goto(r, phase) ==
  /\ pc' = [pc EXCEPT ![r] = phase]
  /\ UNCHANGED <<answer, replayed>>

\* The client gets its answer.
Reply(r, what) ==
  /\ pc'     = [pc EXCEPT ![r] = "done"]
  /\ answer' = [answer EXCEPT ![r] = what]

\* The row of the key is gone.
Delete(k) ==
  /\ row'       = [row EXCEPT ![k] = NoRow]
  /\ completed' = [completed EXCEPT ![k] = FALSE]
  /\ expired'   = [expired EXCEPT ![k] = FALSE]

\* Mutant: the hash of the body is not compared.
SameBodyAlways(r) == TRUE

\* The row of the request's key was claimed with the same body.
SameBody(r) == BodyOf[row[KeyOf[r]]] = BodyOf[r]

-----------------------------------------------------------------------------
(* claim() *)

\* The select finds no row, so there is nothing to lock.
ClaimMisses(r) ==
  /\ pc[r] = "new"
  /\ row[KeyOf[r]] = NoRow
  /\ Goto(r, "insert")
  /\ UNCHANGED <<table, claimed, seen, faults>>

\* The row has another body's hash: 422.
ClaimMismatch(r) ==
  /\ pc[r] = "new"
  /\ row[KeyOf[r]] # NoRow
  /\ ~SameBody(r)
  /\ Reply(r, "mismatch")
  /\ UNCHANGED <<table, claimed, replayed, seen, faults>>

\* The row is COMPLETED: its response is replayed, whatever its expires_at.
ClaimReplays(r) ==
  /\ pc[r] = "new"
  /\ row[KeyOf[r]] # NoRow
  /\ SameBody(r)
  /\ completed[KeyOf[r]]
  /\ Reply(r, "replay")
  /\ replayed' = [replayed EXCEPT ![r] = row[KeyOf[r]]]
  /\ UNCHANGED <<table, claimed, seen, faults>>

\* The row is IN_PROGRESS: 409.
ClaimConflicts(r) ==
  /\ pc[r] = "new"
  /\ row[KeyOf[r]] # NoRow
  /\ SameBody(r)
  /\ ~completed[KeyOf[r]]
  /\ Reply(r, "in_progress")
  /\ UNCHANGED <<table, claimed, replayed, seen, faults>>

\* The insert of a first claim.
Insert(r) ==
  /\ pc[r] = "insert"
  /\ row[KeyOf[r]] = NoRow
  /\ row'     = [row EXCEPT ![KeyOf[r]] = r]
  /\ claimed' = [claimed EXCEPT ![r] = TRUE]
  /\ Goto(r, "view")
  /\ UNCHANGED <<completed, expired, seen, faults>>

\* Another request inserted the row meanwhile.  The unique constraint raises an
\* IntegrityError, and the wrapper, which treats every exception of claim() as
\* "the dedupe table is unavailable", runs the view without a claim.
InsertCollides(r) ==
  /\ pc[r] = "insert"
  /\ row[KeyOf[r]] # NoRow
  /\ Goto(r, "view")
  /\ UNCHANGED <<table, claimed, seen, faults>>

\* Any other database error of claim() ends the same way.
ClaimFails(r) ==
  /\ pc[r] \in {"new", "insert"}
  /\ faults < MaxFaults
  /\ faults' = faults + 1
  /\ Goto(r, "view")
  /\ UNCHANGED <<table, claimed, seen>>

-----------------------------------------------------------------------------
(* The view, complete() and abandon() *)

\* The view answers 2xx.
ViewSucceeds(r) ==
  /\ pc[r] = "view"
  /\ executed' = executed \cup {r}
  /\ IF claimed[r] THEN Goto(r, "complete")
                   ELSE Reply(r, "success") /\ UNCHANGED replayed
  /\ UNCHANGED <<table, claimed, swept, faults>>

\* The view answers something else or raises.
ViewFails(r) ==
  /\ pc[r] = "view"
  /\ IF claimed[r] THEN Goto(r, "abandon")
                   ELSE Reply(r, "failure") /\ UNCHANGED replayed
  /\ UNCHANGED <<table, claimed, seen, faults>>

\* complete() stores the response in the row; if the row is gone the error is
\* swallowed.
Complete(r) ==
  /\ pc[r] = "complete"
  /\ completed' = [completed EXCEPT ![KeyOf[r]] = @ \/ row[KeyOf[r]] = r]
  /\ Reply(r, "success")
  /\ UNCHANGED <<row, expired, claimed, replayed, seen, faults>>

\* abandon() deletes the row, so that the client can retry with the same key.
Abandon(r) ==
  /\ pc[r] = "abandon"
  /\ IF row[KeyOf[r]] = r THEN Delete(KeyOf[r]) ELSE UNCHANGED table
  /\ Reply(r, "failure")
  /\ UNCHANGED <<claimed, replayed, seen, faults>>

\* complete() or abandon() fails; the wrapper swallows that as well.
SettleFails(r) ==
  /\ pc[r] \in {"complete", "abandon"}
  /\ faults < MaxFaults
  /\ faults' = faults + 1
  /\ Reply(r, IF pc[r] = "complete" THEN "success" ELSE "failure")
  /\ UNCHANGED <<table, claimed, replayed, seen>>

\* Mutant: a cleanup on the way out releases the claim of a dying request.
CrashReleases(r) ==
  /\ pc[r] \in {"insert", "view", "complete", "abandon"}
  /\ faults < MaxFaults
  /\ faults' = faults + 1
  /\ IF row[KeyOf[r]] = r THEN Delete(KeyOf[r]) ELSE UNCHANGED table
  /\ Reply(r, "lost")
  /\ UNCHANGED <<claimed, replayed, seen>>

\* The process dies; the client gets no answer.
Crash(r) ==
  /\ pc[r] \in {"insert", "view", "complete", "abandon"}
  /\ faults < MaxFaults
  /\ faults' = faults + 1
  /\ Reply(r, "lost")
  /\ UNCHANGED <<table, claimed, replayed, seen>>

-----------------------------------------------------------------------------
(* Time *)

\* The TTL of a row passes.  It is 24 hours, and no request takes that long.
Expire(k) ==
  /\ row[k] # NoRow
  /\ ~expired[k]
  /\ pc[row[k]] = "done"
  /\ expired' = [expired EXCEPT ![k] = TRUE]
  /\ UNCHANGED <<row, completed, pc, claimed, answer, replayed, seen, faults>>

\* Mutant: the sweep only deletes completed rows.
SweepCompleted(k) ==
  /\ expired[k] /\ completed[k]
  /\ Delete(k)
  /\ swept' = swept \cup {k}
  /\ UNCHANGED <<pc, claimed, answer, replayed, executed, faults>>

\* sweep_expired reaches the row, COMPLETED or not.
Sweep(k) ==
  /\ expired[k]
  /\ Delete(k)
  /\ swept' = swept \cup {k}
  /\ UNCHANGED <<pc, claimed, answer, replayed, executed, faults>>

-----------------------------------------------------------------------------
\* The wrapper's own steps.
Wrapper(r) ==
  \/ ClaimMisses(r) \/ ClaimMismatch(r) \/ ClaimReplays(r) \/ ClaimConflicts(r)
  \/ Insert(r) \/ InsertCollides(r)
  \/ ViewSucceeds(r) \/ ViewFails(r)
  \/ Complete(r) \/ Abandon(r)

Fault(r) == ClaimFails(r) \/ SettleFails(r) \/ Crash(r)

Next ==
  \/ \E r \in Requests : Wrapper(r) \/ Fault(r)
  \/ \E k \in Keys : Expire(k) \/ Sweep(k)

Spec == Init /\ [][Next]_vars

\* A request that has started goes on, time passes, and beat fires the sweep.
Fairness ==
  /\ \A r \in Requests : WF_vars(pc[r] # "new" /\ Wrapper(r))
  /\ \A k \in Keys : WF_vars(Expire(k)) /\ WF_vars(Sweep(k))

FairSpec == Spec /\ Fairness

-----------------------------------------------------------------------------
(* Properties *)

TypeOK ==
  /\ row \in [Keys -> Requests \cup {NoRow}]
  /\ completed \in [Keys -> BOOLEAN]
  /\ expired \in [Keys -> BOOLEAN]
  /\ pc \in [Requests -> Phases]
  /\ claimed \in [Requests -> BOOLEAN]
  /\ answer \in [Requests -> Answers]
  /\ replayed \in [Requests -> Requests \cup {NoRow}]
  /\ executed \subseteq Requests /\ swept \subseteq Keys
  /\ faults \in Nat
  /\ \A k \in Keys : row[k] = NoRow => ~completed[k] /\ ~expired[k]

\* Two requests never hold the same key at the same time, although the select of
\* a first claim locks nothing.
Holds(r) == claimed[r] /\ pc[r] \in {"view", "complete", "abandon"}

ClaimIsExclusive ==
  \A r, s \in Requests : Holds(r) /\ Holds(s) /\ KeyOf[r] = KeyOf[s] => r = s

\* A claimed key has at most one effect until its row is swept, whatever requests
\* fail, die or lose their answer ("instead of executing the side-effect a second
\* time", models.py).
ClaimedEffectOnce ==
  \A r, s \in executed :
    claimed[r] /\ claimed[s] /\ KeyOf[r] = KeyOf[s] /\ r # s => KeyOf[r] \in swept

\* What is replayed is the response of an execution for the same key and body.
ReplayIsFaithful ==
  \A r \in Requests : answer[r] = "replay" =>
    /\ replayed[r] \in executed \ {r}
    /\ KeyOf[replayed[r]] = KeyOf[r]
    /\ BodyOf[replayed[r]] = BodyOf[r]

\* The strengthening that makes the properties above inductive: the holder of a
\* claim is the inserter of the row, which nobody settles or sweeps meanwhile.
ClaimInv ==
  /\ \A r \in Requests :
       /\ Holds(r) => row[KeyOf[r]] = r /\ ~completed[KeyOf[r]] /\ ~expired[KeyOf[r]]
       /\ pc[r] \in {"new", "insert", "view", "abandon"} => r \notin executed
       /\ pc[r] = "complete" => r \in executed
       /\ pc[r] \in {"complete", "abandon"} => claimed[r]
       /\ pc[r] \in {"new", "insert"} => ~claimed[r] /\ answer[r] = "none"
       /\ r \in executed /\ claimed[r] => KeyOf[r] \in swept \/ row[KeyOf[r]] = r
  /\ \A k \in Keys :
       /\ row[k] # NoRow => KeyOf[row[k]] = k /\ claimed[row[k]]
       /\ completed[k] => row[k] \in executed

\* A key that a dead request left IN_PROGRESS is usable again some day.
EventuallyUnlocked ==
  \A k \in Keys : (row[k] # NoRow /\ ~completed[k]) ~> (row[k] = NoRow \/ completed[k])

(* What the repository says, and the code does not do. *)

\* "[A] retry that sends the same Idempotency-Key replays the original response
\* byte-for-byte instead of executing the side-effect a second time" (models.py).
EffectOnce ==
  \A r, s \in executed : KeyOf[r] = KeyOf[s] /\ r # s => KeyOf[r] \in swept
=============================================================================
