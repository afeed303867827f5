------------------------- MODULE IdempotencyProofs -------------------------
(***************************************************************************)
(* Proofs about Idempotency, for every number of requests, keys and faults *)
(***************************************************************************)
EXTENDS Idempotency, TLAPS

-----------------------------------------------------------------------------
(* Type correctness *)

\* The type invariant: every step of the wrapper, the clock and the sweep keeps
\* the table, the requests and the observations well typed, and a key without a
\* row has no status.
THEOREM TypeCorrect == Spec => []TypeOK
<1>1. Init => TypeOK
  BY IdempotencyAssumption DEF Init, TypeOK, Phases, Answers
<1>2. TypeOK /\ [Next]_vars => TypeOK'
  <2> SUFFICES ASSUME TypeOK, [Next]_vars PROVE TypeOK'
    OBVIOUS
  <2> USE IdempotencyAssumption DEF TypeOK, table, seen
  <2>1. ASSUME NEW r \in Requests, ClaimMisses(r) PROVE TypeOK'
    BY <2>1 DEF ClaimMisses, Goto, Phases
  <2>2. ASSUME NEW r \in Requests,
               ClaimMismatch(r) \/ ClaimReplays(r) \/ ClaimConflicts(r)
        PROVE  TypeOK'
    <3>1. CASE ClaimMismatch(r)
      BY <3>1 DEF ClaimMismatch, Reply, Phases, Answers
    <3>2. CASE ClaimReplays(r)
      BY <3>2 DEF ClaimReplays, Reply, Phases, Answers
    <3>3. CASE ClaimConflicts(r)
      BY <3>3 DEF ClaimConflicts, Reply, Phases, Answers
    <3> QED BY <2>2, <3>1, <3>2, <3>3
  <2>3. ASSUME NEW r \in Requests, Insert(r) PROVE TypeOK'
    BY <2>3 DEF Insert, Goto, Phases
  <2>4. ASSUME NEW r \in Requests, InsertCollides(r) \/ ClaimFails(r) PROVE TypeOK'
    <3>1. CASE InsertCollides(r)
      BY <3>1 DEF InsertCollides, Goto, Phases
    <3>2. CASE ClaimFails(r)
      BY <3>2 DEF ClaimFails, Goto, Phases
    <3> QED BY <2>4, <3>1, <3>2
  <2>5. ASSUME NEW r \in Requests, ViewSucceeds(r) \/ ViewFails(r) PROVE TypeOK'
    BY <2>5 DEF ViewSucceeds, ViewFails, Goto, Reply, Phases, Answers
  <2>6. ASSUME NEW r \in Requests, Complete(r) PROVE TypeOK'
    BY <2>6 DEF Complete, Reply, Phases, Answers
  <2>7. ASSUME NEW r \in Requests, Abandon(r) PROVE TypeOK'
    BY <2>7 DEF Abandon, Delete, Reply, Phases, Answers
  <2>8. ASSUME NEW r \in Requests, SettleFails(r) \/ Crash(r) PROVE TypeOK'
    <3>1. CASE SettleFails(r)
      BY <3>1 DEF SettleFails, Reply, Phases, Answers
    <3>2. CASE Crash(r)
      BY <3>2 DEF Crash, Reply, Phases, Answers
    <3> QED BY <2>8, <3>1, <3>2
  <2>9. ASSUME NEW k \in Keys, Expire(k) \/ Sweep(k) PROVE TypeOK'
    <3>1. CASE Expire(k)
      BY <3>1 DEF Expire
    <3>2. CASE Sweep(k)
      BY <3>2 DEF Sweep, Delete
    <3> QED BY <2>9, <3>1, <3>2
  <2>10. CASE UNCHANGED vars
    BY <2>10 DEF vars
  <2> QED
    BY <2>1, <2>2, <2>3, <2>4, <2>5, <2>6, <2>7, <2>8, <2>9, <2>10
       DEF Next, Wrapper, Fault
<1> QED BY <1>1, <1>2, PTL DEF Spec

-----------------------------------------------------------------------------
(* Who holds a claim *)

LEMMA ClaimInvInit == Init => ClaimInv
  BY IdempotencyAssumption DEF Init, ClaimInv, Holds

LEMMA ClaimInvNext == TypeOK /\ ClaimInv /\ [Next]_vars => ClaimInv'
<1> SUFFICES ASSUME TypeOK, ClaimInv, [Next]_vars PROVE ClaimInv'
  OBVIOUS
<1> USE IdempotencyAssumption DEF TypeOK, ClaimInv, Holds, table, seen
<1>1. ASSUME NEW r \in Requests, ClaimMisses(r) PROVE ClaimInv'
  BY <1>1 DEF ClaimMisses, Goto
<1>2. ASSUME NEW r \in Requests,
             ClaimMismatch(r) \/ ClaimReplays(r) \/ ClaimConflicts(r)
      PROVE  ClaimInv'
  BY <1>2 DEF ClaimMismatch, ClaimReplays, ClaimConflicts, Reply
<1>3. ASSUME NEW r \in Requests, Insert(r) PROVE ClaimInv'
  BY <1>3 DEF Insert, Goto
<1>4. ASSUME NEW r \in Requests, InsertCollides(r) \/ ClaimFails(r) PROVE ClaimInv'
  BY <1>4 DEF InsertCollides, ClaimFails, Goto
<1>5. ASSUME NEW r \in Requests, ViewSucceeds(r) \/ ViewFails(r) PROVE ClaimInv'
  BY <1>5 DEF ViewSucceeds, ViewFails, Goto, Reply
<1>6. ASSUME NEW r \in Requests, Complete(r) PROVE ClaimInv'
  BY <1>6 DEF Complete, Reply
<1>7. ASSUME NEW r \in Requests, Abandon(r) PROVE ClaimInv'
  BY <1>7 DEF Abandon, Delete, Reply
<1>8. ASSUME NEW r \in Requests, SettleFails(r) \/ Crash(r) PROVE ClaimInv'
  BY <1>8 DEF SettleFails, Crash, Reply
<1>9. ASSUME NEW k \in Keys, Expire(k) PROVE ClaimInv'
  BY <1>9 DEF Expire
<1>10. ASSUME NEW k \in Keys, Sweep(k) PROVE ClaimInv'
  BY <1>10 DEF Sweep, Delete
<1>11. CASE UNCHANGED vars
  BY <1>11 DEF vars
<1> HIDE DEF TypeOK, ClaimInv
<1> QED
  BY <1>1, <1>2, <1>3, <1>4, <1>5, <1>6, <1>7, <1>8, <1>9, <1>10, <1>11
     DEF Next, Wrapper, Fault

LEMMA ClaimInvAlways == Spec => [](TypeOK /\ ClaimInv)
  BY ClaimInvInit, ClaimInvNext, TypeCorrect, PTL DEF Spec

\* Spec implies ClaimIsExclusive: the unique constraint lets one insert through,
\* and the row stays the holder's until the holder settles it.
THEOREM ClaimsAreExclusive == Spec => []ClaimIsExclusive
<1>1. ClaimInv => ClaimIsExclusive
  BY DEF ClaimInv, ClaimIsExclusive
<1> QED BY <1>1, ClaimInvAlways, PTL

\* Spec implies ClaimedEffectOnce: a request with an effect keeps its row, which
\* only the sweep deletes, so no other request can claim the key before.
THEOREM OneEffectPerClaim == Spec => []ClaimedEffectOnce
<1>1. TypeOK /\ ClaimInv => ClaimedEffectOnce
  BY DEF TypeOK, ClaimInv, ClaimedEffectOnce
<1> QED BY <1>1, ClaimInvAlways, PTL

\* Spec implies ReplayIsFaithful: a completed row was inserted by a request with
\* an effect, the select finds it by the key, and the hashes were compared.
THEOREM ReplaysAreFaithful == Spec => []ReplayIsFaithful
<1>1. Init => ReplayIsFaithful
  BY DEF Init, ReplayIsFaithful
<1>2. TypeOK /\ ClaimInv /\ ReplayIsFaithful /\ [Next]_vars => ReplayIsFaithful'
  <2> SUFFICES ASSUME TypeOK, ClaimInv, ReplayIsFaithful, [Next]_vars,
                      NEW q \in Requests, answer'[q] = "replay"
               PROVE  /\ replayed'[q] \in executed' \ {q}
                      /\ KeyOf[replayed'[q]] = KeyOf[q]
                      /\ BodyOf[replayed'[q]] = BodyOf[q]
    BY DEF ReplayIsFaithful
  <2> DEFINE P == /\ replayed'[q] \in executed' \ {q}
                  /\ KeyOf[replayed'[q]] = KeyOf[q]
                  /\ BodyOf[replayed'[q]] = BodyOf[q]
  <2> USE DEF TypeOK
  <2>1. CASE /\ answer'[q] = answer[q] /\ replayed'[q] = replayed[q]
             /\ executed \subseteq executed'
    BY <2>1 DEF ReplayIsFaithful
  <2>2. ASSUME NEW r \in Requests, ClaimReplays(r) PROVE P
    <3>1. CASE q = r
      <4>1. replayed'[q] = row[KeyOf[q]] /\ row[KeyOf[q]] # NoRow /\ completed[KeyOf[q]]
        BY <2>2, <3>1 DEF ClaimReplays
      <4>2. KeyOf[q] \in Keys /\ executed' = executed /\ q \notin executed
        <5>1. pc[q] = "new" /\ executed' = executed
          BY <2>2, <3>1 DEF ClaimReplays, seen
        <5>2. q \notin executed
          BY <5>1 DEF ClaimInv
        <5> QED BY <5>1, <5>2, IdempotencyAssumption
      <4>3. row[KeyOf[q]] \in executed /\ KeyOf[row[KeyOf[q]]] = KeyOf[q]
        BY <4>1, <4>2 DEF ClaimInv
      <4>4. BodyOf[row[KeyOf[q]]] = BodyOf[q]
        BY <2>2, <3>1 DEF ClaimReplays, SameBody
      <4> QED BY <4>1, <4>2, <4>3, <4>4
    <3>2. CASE q # r
      BY <2>1, <2>2, <3>2 DEF ClaimReplays, Reply, seen
    <3> QED BY <3>1, <3>2
  <2>3. ASSUME NEW r \in Requests,
               \/ ClaimMismatch(r) \/ ClaimConflicts(r) \/ Complete(r) \/ Abandon(r)
               \/ ViewSucceeds(r) \/ ViewFails(r) \/ SettleFails(r) \/ Crash(r)
        PROVE  P
    <3>1. CASE q = r /\ answer'[r] # answer[r]
      <4>1. CASE ClaimMismatch(r) \/ ClaimConflicts(r) \/ Complete(r) \/ Abandon(r)
        BY <3>1, <4>1 DEF ClaimMismatch, ClaimConflicts, Complete, Abandon, Reply
      <4>2. CASE ViewSucceeds(r) \/ ViewFails(r)
        BY <3>1, <4>2 DEF ViewSucceeds, ViewFails, Reply, Goto
      <4>3. CASE SettleFails(r) \/ Crash(r)
        BY <3>1, <4>3 DEF SettleFails, Crash, Reply
      <4> QED BY <2>3, <4>1, <4>2, <4>3
    <3>2. CASE q # r \/ answer'[r] = answer[r]
      <4>1. answer'[q] = answer[q] /\ replayed'[q] = replayed[q]
        BY <2>3, <3>2
           DEF ClaimMismatch, ClaimConflicts, Complete, Abandon, ViewSucceeds, ViewFails,
               SettleFails, Crash, Reply, Goto
      <4>2. executed \subseteq executed'
        BY <2>3 DEF ClaimMismatch, ClaimConflicts, Complete, Abandon, ViewSucceeds,
                    ViewFails, SettleFails, Crash, seen
      <4> QED BY <2>1, <4>1, <4>2
    <3> QED BY <3>1, <3>2
  <2>4. ASSUME NEW r \in Requests,
               ClaimMisses(r) \/ Insert(r) \/ InsertCollides(r) \/ ClaimFails(r)
        PROVE  P
    BY <2>1, <2>4 DEF ClaimMisses, Insert, InsertCollides, ClaimFails, Goto, seen
  <2>5. ASSUME NEW k \in Keys, Expire(k) \/ Sweep(k) PROVE P
    BY <2>1, <2>5 DEF Expire, Sweep, seen
  <2>6. ASSUME UNCHANGED vars PROVE P
    BY <2>1, <2>6 DEF vars, seen
  <2> HIDE DEF P, TypeOK
  <2>7. P
    BY <2>2, <2>3, <2>4, <2>5, <2>6 DEF Next, Wrapper, Fault
  <2> QED BY <2>7 DEF P
<1> QED BY <1>1, <1>2, ClaimInvAlways, PTL DEF Spec
=============================================================================
