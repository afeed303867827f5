---------------------------- MODULE WalletProofs ----------------------------
(***************************************************************************)
(* Proofs about Wallet, for any users, operations and calls.               *)
(***************************************************************************)
EXTENDS Wallet, WellFoundedInduction, TLAPS

(* What the helpers give. *)

\* An operation has a party, and moves nothing for anybody else.
LEMMA PartyFacts ==
  ASSUME NEW o \in Ops
  PROVE  /\ Parties(o) # {}
         /\ Parties(o) \subseteq Users
         /\ \A u \in Users : Effect[o][u] \in Int
         /\ \A u \in Users \ Parties(o) : Effect[o][u] = 0
         /\ \A u \in Users : Effect[o][u] < 0 => u = Payer[o]
  <1>1. Payer[o] \in Users \cup {NoUser} /\ Payee[o] \in Users \cup {NoUser} /\ Payer[o] # Payee[o]
        /\ Amount[o] \in Nat \ {0} /\ NoUser \notin Users
    BY WalletAssumption
  <1>2. \A u \in Users : Effect[o][u] = IF u = Payee[o] THEN Amount[o]
                                        ELSE IF u = Payer[o] THEN -Amount[o] ELSE 0
    BY DEF Effect
  <1> QED BY <1>1, <1>2 DEF Parties

\* A call that finishes leaves the rows of the others locked.
LEMMA FinishKeeps ==
  ASSUME TypeOK, NEW t \in Calls, Finish(t)
  PROVE  /\ holder' \in [Users -> Calls \cup {NoCall}]
         /\ pc' \in [Calls -> Phases]
         /\ seen' \in [Calls -> [Users -> Int]]
         /\ pc'[t] = "done"
         /\ \A s \in Calls \ {t} : /\ pc'[s] = pc[s] /\ seen'[s] = seen[s]
                                   /\ \A u \in Users : holder[u] = s => holder'[u] = s
         /\ frozen' = frozen /\ audited' = audited
  <1> USE WalletAssumption DEF TypeOK, Finish, Phases
  <1>1. Zero \in [Users -> Int] BY DEF Zero
  <1>2. holder' \in [Users -> Calls \cup {NoCall}] OBVIOUS
  <1>3. pc' \in [Calls -> Phases] OBVIOUS
  <1>4. seen' \in [Calls -> [Users -> Int]] BY <1>1
  <1> QED BY <1>2, <1>3, <1>4

-----------------------------------------------------------------------------
(* The inductive invariant *)

IInv == TypeOK /\ LockInv /\ NonNegative /\ RunningSnapshot /\ CachedFollowsLedger

LEMMA InitIInv == Init => IInv
  <1> SUFFICES ASSUME Init PROVE IInv OBVIOUS
  <1> USE WalletAssumption
  <1>1. TypeOK BY DEF Init, Zero, TypeOK, Phases
  <1>2. LockInv BY DEF Init, LockInv
  <1>3. NonNegative
    <2> SUFFICES ASSUME NEW u \in Users PROVE posted[u] >= 0 /\ cached[u] >= 0
      BY DEF NonNegative
    <2> QED BY DEF Init, Zero
  <1>4. RunningSnapshot BY DEF Init, Zero, RunningSnapshot
  <1>5. CachedFollowsLedger
    <2> SUFFICES ASSUME NEW u \in Users PROVE cached[u] = posted[u] + drift[u]
      BY DEF CachedFollowsLedger
    <2> QED BY DEF Init, Zero
  <1> QED BY <1>1, <1>2, <1>3, <1>4, <1>5 DEF IInv

\* A call that ends without writing the books.
LEMMA EndsStep == ASSUME IInv, NEW t \in Calls, Finish(t), UNCHANGED books PROVE IInv'
  <1> USE DEF IInv
  <1>1. TypeOK' BY FinishKeeps DEF TypeOK, books
  <1>2. LockInv'
    <2> SUFFICES ASSUME NEW s \in Calls, pc'[s] = "write", NEW u \in Parties(OpOf[s])
                 PROVE  holder'[u] = s /\ seen'[s][u] = Balances(OpOf[s])[u]'
      BY DEF LockInv, Parties, Balances
    <2>1. s # t /\ pc[s] = "write" /\ seen'[s] = seen[s] BY FinishKeeps DEF IInv
    <2>2. holder[u] = s /\ seen[s][u] = Balances(OpOf[s])[u] BY <2>1 DEF LockInv
    <2>3. holder'[u] = s BY <2>1, <2>2, FinishKeeps DEF Parties
    <2> QED BY <2>1, <2>2, <2>3 DEF Balances, books
  <1>3. NonNegative' BY DEF NonNegative, books
  <1>4. RunningSnapshot' BY DEF RunningSnapshot, books
  <1>5. CachedFollowsLedger' BY DEF CachedFollowsLedger, books
  <1> QED BY <1>1, <1>2, <1>3, <1>4, <1>5

LEMMA BeginStep == ASSUME IInv, NEW t \in Calls, Begin(t) PROVE IInv'
  <1> USE DEF IInv, Begin, books
  <1>1. TypeOK' BY DEF TypeOK, Phases
  <1>2. LockInv'
    <2> SUFFICES ASSUME NEW s \in Calls, pc'[s] = "write", NEW u \in Parties(OpOf[s])
                 PROVE  holder'[u] = s /\ seen'[s][u] = Balances(OpOf[s])[u]'
      BY DEF LockInv, Parties, Balances
    <2>1. pc[s] = "write" BY DEF TypeOK
    <2> QED BY <2>1 DEF LockInv, Balances
  <1>3. NonNegative' BY DEF NonNegative
  <1>4. RunningSnapshot' BY DEF RunningSnapshot
  <1>5. CachedFollowsLedger' BY DEF CachedFollowsLedger
  <1> QED BY <1>1, <1>2, <1>3, <1>4, <1>5

LEMMA LockStep == ASSUME IInv, NEW t \in Calls, Lock(t) PROVE IInv'
  <1> USE DEF IInv
  <1>1. PICK w \in Users : NextRow(t, w) /\ TakeRow(t, w) BY DEF Lock
  <1> USE <1>1
  <1>2. pc[t] = "lock" BY DEF Lock
  <1>3. w \in Parties(OpOf[t]) /\ holder[w] = NoCall BY DEF NextRow, Waiting, TakeRow
  <1>4. Balances(OpOf[t]) \in [Users -> Int] BY DEF Balances, TypeOK
  <1>5. TypeOK' BY <1>4, <1>3 DEF TypeOK, TakeRow, Phases, books
  <1>6. LockInv'
    <2> SUFFICES ASSUME NEW s \in Calls, pc'[s] = "write", NEW u \in Parties(OpOf[s])
                 PROVE  holder'[u] = s /\ seen'[s][u] = Balances(OpOf[s])[u]'
      BY DEF LockInv, Parties, Balances
    <2>1. UNCHANGED <<cached, posted>> BY DEF TakeRow, books
    <2>2. holder' = [holder EXCEPT ![w] = t] /\ u \in Users BY DEF TakeRow, Parties
    <2>3. CASE s = t
      <3>1. Waiting(t) = {w} /\ pc' = [pc EXCEPT ![t] = "write"]
            /\ seen' = [seen EXCEPT ![t] = Balances(OpOf[t])]
        BY <2>3, <1>2 DEF TakeRow
      <3>2. u = w \/ holder[u] = t BY <3>1, <2>3, <2>2 DEF Waiting
      <3>3. holder'[u] = t BY <3>2, <2>2 DEF TypeOK
      <3>4. seen'[t] = Balances(OpOf[t]) BY <3>1 DEF TypeOK
      <3> QED BY <3>3, <3>4, <2>3, <2>1 DEF Balances
    <2>4. CASE s # t
      <3>1. pc[s] = "write" /\ seen'[s] = seen[s] BY <2>4 DEF TakeRow, TypeOK
      <3>2. holder[u] = s /\ seen[s][u] = Balances(OpOf[s])[u] BY <3>1 DEF LockInv
      <3>3. u # w BY <3>2, <1>3, WalletAssumption
      <3> QED BY <3>1, <3>2, <3>3, <2>1, <2>2 DEF Balances, TypeOK
    <2> QED BY <2>3, <2>4
  <1>7. NonNegative' BY DEF NonNegative, TakeRow, books
  <1>8. RunningSnapshot' BY DEF RunningSnapshot, TakeRow, books
  <1>9. CachedFollowsLedger' BY DEF CachedFollowsLedger, TakeRow, books
  <1> QED BY <1>5, <1>6, <1>7, <1>8, <1>9

\* What a posting of a call that holds its rows writes.
LEMMA PostFacts ==
  ASSUME IInv, NEW t \in Calls, Post(t)
  PROVE  /\ OpOf[t] \in Ops /\ Finish(t) /\ pc[t] = "write"
         /\ \A u \in Parties(OpOf[t]) :
              holder[u] = t /\ posted'[u] = After(t, u)
                            /\ snapshot'[u] = After(t, u) /\ After(t, u) \in Nat
         /\ \A u \in Users \ Parties(OpOf[t]) :
              posted'[u] = posted[u] /\ cached'[u] = cached[u] /\ snapshot'[u] = snapshot[u]
         /\ cached' \in [Users -> Int] /\ drift' \in [Users -> Int]
         /\ \A u \in Users : cached'[u] >= 0 /\ cached'[u] = posted'[u] + drift'[u]
  <1> DEFINE o == OpOf[t]
  <1>1. o \in Ops /\ o \notin Cached BY WalletAssumption DEF Post, Ledgered
  <1>2. Finish(t) /\ pc[t] = "write" /\ Enough(t) BY DEF Post
  <1>3. /\ posted' = [u \in Users |-> posted[u] + Effect[o][u]]
        /\ snapshot' = [u \in Users |-> IF u \in Parties(o) THEN After(t, u) ELSE snapshot[u]]
    BY DEF Post
  <1>c. PICK synced \in SUBSET Parties(o) :
          /\ cached' = [u \in Users |-> IF u \in synced THEN After(t, u) ELSE cached[u]]
          /\ drift' = [u \in Users |-> IF u \in synced THEN 0 ELSE drift[u] - Effect[o][u]]
    BY DEF Post, Sync
  <1>4. posted \in [Users -> Int] BY DEF IInv, TypeOK
  <1>5. ASSUME NEW u \in Parties(o)
        PROVE  holder[u] = t /\ posted'[u] = After(t, u)
                             /\ snapshot'[u] = After(t, u) /\ After(t, u) \in Nat
    <2>1. u \in Users BY DEF Parties
    <2>2. holder[u] = t /\ seen[t][u] = posted[u] BY <1>1, <1>2 DEF IInv, LockInv, Balances
    <2>3. Effect[o][u] \in Int BY <1>1, <2>1, PartyFacts
    <2>4. After(t, u) = posted[u] + Effect[o][u] BY <2>2 DEF After
    <2>5. After(t, u) \in Nat BY <1>2, <1>4, <2>1, <2>3, <2>4 DEF Enough
    <2> QED BY <1>3, <2>1, <2>2, <2>4, <2>5
  <1>6. ASSUME NEW u \in Users \ Parties(o)
        PROVE  posted'[u] = posted[u] /\ cached'[u] = cached[u] /\ snapshot'[u] = snapshot[u]
    <2>1. Effect[o][u] = 0 BY <1>1, PartyFacts
    <2> QED BY <2>1, <1>3, <1>4, <1>c
  <1>7. ASSUME NEW u \in Users
        PROVE  /\ cached'[u] \in Int /\ drift'[u] \in Int
               /\ cached'[u] >= 0 /\ cached'[u] = posted'[u] + drift'[u]
    <2>1. /\ Effect[o][u] \in Int /\ posted[u] \in Int /\ cached[u] \in Int /\ drift[u] \in Int
          /\ cached[u] >= 0 /\ cached[u] = posted[u] + drift[u]
      BY <1>1, PartyFacts DEF IInv, TypeOK, NonNegative, CachedFollowsLedger
    <2>2. posted'[u] = posted[u] + Effect[o][u]
      BY <1>3
    <2>3. CASE u \in synced
      <3>1. cached'[u] = After(t, u) /\ drift'[u] = 0
        BY <1>c, <2>3
      <3>2. posted'[u] = After(t, u) /\ After(t, u) \in Nat
        BY <1>5, <2>3
      <3> QED BY <3>1, <3>2
    <2>4. CASE u \notin synced
      <3>1. cached'[u] = cached[u] /\ drift'[u] = drift[u] - Effect[o][u]
        BY <1>c, <2>4
      <3> QED BY <2>1, <2>2, <3>1
    <2> QED BY <2>3, <2>4
  <1>8. cached' \in [Users -> Int] /\ drift' \in [Users -> Int]
    BY <1>c, <1>7
  <1> QED BY <1>1, <1>2, <1>3, <1>5, <1>6, <1>7, <1>8

LEMMA PostStep == ASSUME IInv, NEW t \in Calls, Post(t) PROVE IInv'
  <1> DEFINE o == OpOf[t]
  <1>1. o \in Ops /\ Finish(t) BY PostFacts
  <1>2. Parties(o) \subseteq Users BY DEF Parties
  <1>3. TypeOK'
    <2>1. /\ rows' \subseteq Ops \X Users
          /\ confirmed' = confirmed /\ spent' = spent
      BY <1>1, <1>2 DEF Post, IInv, TypeOK
    <2>2. posted' \in [Users -> Int]
      <3>1. \A u \in Users : posted[u] + Effect[o][u] \in Int
        BY <1>1, PartyFacts DEF IInv, TypeOK
      <3> QED BY <3>1 DEF Post
    <2>3. \A u \in Users : seen[t][u] + Effect[o][u] \in Int
      BY <1>1, PartyFacts DEF IInv, TypeOK
    <2>4. snapshot' \in [Users -> Int]
      BY <2>3 DEF Post, IInv, TypeOK, After
    <2>6. cached' \in [Users -> Int] /\ drift' \in [Users -> Int]
      BY PostFacts
    <2>5. sent' \in [Users -> Nat]
      BY <1>1, WalletAssumption DEF Post, IInv, TypeOK
    <2> QED BY <2>1, <2>2, <2>4, <2>5, <2>6, <1>1, FinishKeeps DEF TypeOK, IInv
  <1>4. LockInv'
    <2> SUFFICES ASSUME NEW s \in Calls, pc'[s] = "write", NEW u \in Parties(OpOf[s])
                 PROVE  holder'[u] = s /\ seen'[s][u] = Balances(OpOf[s])[u]'
      BY DEF LockInv, Parties, Balances
    <2>1. s # t /\ pc[s] = "write" /\ seen'[s] = seen[s] BY <1>1, FinishKeeps DEF IInv
    <2>2. holder[u] = s /\ seen[s][u] = Balances(OpOf[s])[u] BY <2>1 DEF LockInv, IInv
    <2>3. u \in Users /\ holder'[u] = s BY <1>1, <2>1, <2>2, FinishKeeps DEF Parties, IInv
    <2>4. u \notin Parties(o) BY <2>1, <2>2, PostFacts
    <2>5. cached'[u] = cached[u] /\ posted'[u] = posted[u] BY <2>3, <2>4, PostFacts
    <2> QED BY <2>1, <2>2, <2>3, <2>5 DEF Balances
  <1>5. NonNegative'
    <2> SUFFICES ASSUME NEW u \in Users PROVE posted'[u] >= 0 /\ cached'[u] >= 0
      BY DEF NonNegative
    <2>1. CASE u \in Parties(o) BY <2>1, PostFacts
    <2>2. CASE u \notin Parties(o) BY <2>2, PostFacts DEF IInv, NonNegative
    <2> QED BY <2>1, <2>2
  <1>6. RunningSnapshot'
    <2>1. \A u \in Users : snapshot'[u] = posted'[u]
      BY <1>2, PostFacts DEF IInv, RunningSnapshot
    <2> QED BY <2>1, <1>3 DEF TypeOK, RunningSnapshot
  <1>7. CachedFollowsLedger' BY PostFacts DEF CachedFollowsLedger
  <1> QED BY <1>3, <1>4, <1>5, <1>6, <1>7 DEF IInv

LEMMA WriteCachedStep == ASSUME IInv, NEW t \in Calls, WriteCached(t) PROVE IInv'
  <1> DEFINE o == OpOf[t]
  <1>1. o \in Ops /\ o \in Cached /\ Finish(t) /\ pc[t] = "write" /\ Spendable(t)
    BY WalletAssumption DEF WriteCached
  <1>2. /\ cached' = [u \in Users |-> IF u \in Parties(o) THEN After(t, u) ELSE cached[u]]
        /\ drift' = [u \in Users |-> drift[u] + Effect[o][u]]
        /\ UNCHANGED <<rows, posted, snapshot, sent>>
    BY DEF WriteCached
  <1>3. \A u \in Parties(o) : u \in Users /\ holder[u] = t /\ After(t, u) = cached[u] + Effect[o][u]
    BY <1>1 DEF IInv, LockInv, Balances, After, Parties
  <1>4. \A u \in Users : cached[u] \in Nat /\ Effect[o][u] \in Int
    <2> SUFFICES ASSUME NEW u \in Users PROVE cached[u] \in Nat /\ Effect[o][u] \in Int
      OBVIOUS
    <2>1. cached[u] \in Int /\ cached[u] >= 0 BY DEF IInv, TypeOK, NonNegative
    <2> QED BY <2>1, <1>1, PartyFacts
  <1>5. TypeOK'
    <2>1. cached' \in [Users -> Int] BY <1>2, <1>3, <1>4
    <2>2. drift' \in [Users -> Int]
      BY <1>2, <1>4 DEF IInv, TypeOK
    <2>4. confirmed' \subseteq Cached
      BY <1>1 DEF WriteCached, IInv, TypeOK, Parties
    <2>3. spent' \in [Users -> Nat] BY <1>1, WalletAssumption DEF WriteCached, IInv, TypeOK
    <2> QED BY <2>1, <2>2, <2>3, <2>4, <1>1, <1>2, FinishKeeps DEF TypeOK, IInv
  <1>6. LockInv'
    <2> SUFFICES ASSUME NEW s \in Calls, pc'[s] = "write", NEW u \in Parties(OpOf[s])
                 PROVE  holder'[u] = s /\ seen'[s][u] = Balances(OpOf[s])[u]'
      BY DEF LockInv, Parties, Balances
    <2>1. s # t /\ pc[s] = "write" /\ seen'[s] = seen[s] BY <1>1, FinishKeeps DEF IInv
    <2>2. holder[u] = s /\ seen[s][u] = Balances(OpOf[s])[u] BY <2>1 DEF LockInv, IInv
    <2>3. u \in Users /\ holder'[u] = s BY <1>1, <2>1, <2>2, FinishKeeps DEF Parties, IInv
    <2>4. cached'[u] = cached[u] BY <1>2, <1>3, <2>1, <2>2, <2>3
    <2> QED BY <1>2, <2>1, <2>2, <2>3, <2>4 DEF Balances
  <1>7. NonNegative'
    <2> SUFFICES ASSUME NEW u \in Parties(o) PROVE After(t, u) >= 0
      BY <1>2, <1>3 DEF NonNegative, IInv
    <2>1. CASE Payer[o] = NoUser
      <3>1. u \in Users /\ u # Payer[o] BY <2>1, <1>3, WalletAssumption
      <3>2. Effect[o][u] >= 0 BY <3>1, <1>1, <1>4, PartyFacts
      <3> QED BY <3>1, <3>2, <1>3, <1>4
    <2>2. CASE Payer[o] # NoUser BY <2>2, <1>1 DEF Spendable, Enough
    <2> QED BY <2>1, <2>2
  <1>8. RunningSnapshot' BY <1>2 DEF RunningSnapshot, IInv
  <1>9. CachedFollowsLedger'
    <2> SUFFICES ASSUME NEW u \in Users PROVE cached'[u] = posted'[u] + drift'[u]
      BY DEF CachedFollowsLedger
    <2>1. cached[u] = posted[u] + drift[u] /\ posted[u] \in Int /\ drift[u] \in Int
      BY DEF IInv, CachedFollowsLedger, TypeOK
    <2>2. cached'[u] = cached[u] + Effect[o][u]
      <3>1. CASE u \in Parties(o) BY <1>2, <1>3, <3>1
      <3>2. CASE u \notin Parties(o) BY <1>1, <1>2, <1>4, <3>2, PartyFacts
      <3> QED BY <3>1, <3>2
    <2>3. posted'[u] = posted[u] /\ drift'[u] = drift[u] + Effect[o][u] /\ Effect[o][u] \in Int
      BY <1>2, <1>4
    <2> QED BY <2>1, <2>2, <2>3
  <1> QED BY <1>5, <1>6, <1>7, <1>8, <1>9 DEF IInv

LEMMA AuditStep == ASSUME IInv, Audit PROVE IInv'
  <1> USE DEF IInv
  <1>1. UNCHANGED <<books, calls>> /\ frozen' \subseteq Users /\ audited' \in [Users -> Int]
    BY DEF Audit, AuditRead, AuditCompare, TypeOK
  <1>2. TypeOK' BY <1>1 DEF TypeOK, books, calls
  <1>3. LockInv' BY <1>1 DEF LockInv, Balances, books, calls
  <1>4. NonNegative' BY <1>1 DEF NonNegative, books
  <1>5. RunningSnapshot' BY <1>1 DEF RunningSnapshot, books
  <1>6. CachedFollowsLedger' BY <1>1 DEF CachedFollowsLedger, books
  <1> QED BY <1>2, <1>3, <1>4, <1>5, <1>6

LEMMA StepIInv == IInv /\ [Next]_vars => IInv'
  <1> SUFFICES ASSUME IInv, [Next]_vars PROVE IInv' OBVIOUS
  <1>1. CASE UNCHANGED vars
    BY <1>1 DEF vars, books, calls, IInv, TypeOK, LockInv, Balances, NonNegative,
                RunningSnapshot, CachedFollowsLedger
  <1>2. CASE \E t \in Calls : Work(t) \/ Abort(t)
    <2>1. PICK t \in Calls : Work(t) \/ Abort(t) BY <1>2
    <2>2. CASE FindsDone(t) \/ Held(t) \/ PostDuplicate(t) \/ Refuse(t) \/ Abort(t)
      BY <2>2, EndsStep DEF FindsDone, Held, PostDuplicate, Refuse, Abort
    <2>3. CASE Begin(t) BY <2>3, BeginStep
    <2>4. CASE Lock(t) BY <2>4, LockStep
    <2>5. CASE Post(t) BY <2>5, PostStep
    <2>6. CASE WriteCached(t) BY <2>6, WriteCachedStep
    <2> QED BY <2>1, <2>2, <2>3, <2>4, <2>5, <2>6 DEF Work
  <1>3. CASE Audit BY <1>3, AuditStep
  <1> QED BY <1>1, <1>2, <1>3 DEF Next

THEOREM Inductive == Spec => []IInv
  <1> QED BY InitIInv, StepIInv, PTL DEF Spec

-----------------------------------------------------------------------------
(* The properties *)

\* Every variable keeps its type.
THEOREM TypeCorrect == Spec => []TypeOK
  <1>1. IInv => TypeOK BY DEF IInv
  <1> QED BY Inductive, <1>1, PTL

\* Whatever debits, transfers and spends race, neither book goes below zero.
THEOREM NeverNegative == Spec => []NonNegative
  <1>1. IInv => NonNegative BY DEF IInv
  <1> QED BY Inductive, <1>1, PTL

\* Each entry's balance_after was computed from the entries before it.
THEOREM SnapshotRuns == Spec => []RunningSnapshot
  <1>1. IInv => RunningSnapshot BY DEF IInv
  <1> QED BY Inductive, <1>1, PTL

\* The cached balance differs from the ledger's by the drift and by nothing else,
\* whatever postings, failing syncs, top-ups and spends race.
THEOREM CachedKeepsUp == Spec => []CachedFollowsLedger
  <1>1. IInv => CachedFollowsLedger BY DEF IInv
  <1> QED BY Inductive, <1>1, PTL

-----------------------------------------------------------------------------
(* The refinement *)

LEMMA IdealInit == Init => Ideal!Init
  BY DEF Init, Ideal!Init, Applied, Zero

\* A posting applies its operation; every other step leaves the ledger alone.
LEMMA IdealStep == IInv /\ [Next]_vars => [Ideal!Next]_<<Applied, posted>>
  <1> SUFFICES ASSUME IInv, [Next]_vars PROVE [Ideal!Next]_<<Applied, posted>> OBVIOUS
  <1>1. ASSUME NEW t \in Calls, Post(t) PROVE Ideal!Next
    <2> DEFINE o == OpOf[t]
    <2>1. o \in Ledgered /\ o \in Ops /\ o \notin Applied
      BY <1>1, PostFacts DEF Post, KeyFree
    <2>2. Applied' = Applied \cup {o}
      <3>1. rows' = rows \cup {<<o, u>> : u \in Parties(o)} BY <1>1 DEF Post
      <3>2. Parties(o) # {} /\ Parties(o) \subseteq Users BY <2>1, PartyFacts
      <3> QED BY <3>1, <3>2, <2>1 DEF Applied
    <2>3. posted' = [a \in Users |-> posted[a] + Effect[o][a]] BY <1>1 DEF Post
    <2>4. \A a \in Users : posted'[a] >= 0
      BY <1>1, PostStep DEF IInv, NonNegative
    <2> QED BY <2>1, <2>2, <2>3, <2>4 DEF Ideal!Next, Ideal!Apply
  <1>2. ASSUME UNCHANGED <<rows, posted>> PROVE UNCHANGED <<Applied, posted>>
    BY <1>2 DEF Applied
  <1>3. CASE UNCHANGED vars BY <1>3, <1>2 DEF vars, books
  <1>4. CASE \E t \in Calls : Work(t) \/ Abort(t)
    <2>1. PICK t \in Calls : Work(t) \/ Abort(t) BY <1>4
    <2>2. CASE Post(t) BY <2>2, <1>1
    <2>3. CASE ~Post(t)
      <3>1. UNCHANGED <<rows, posted>>
        BY <2>1, <2>3 DEF Work, FindsDone, Held, Begin, Lock, TakeRow, PostDuplicate,
                          WriteCached, Refuse, Abort, books
      <3> QED BY <3>1, <1>2
    <2> QED BY <2>2, <2>3
  <1>5. CASE Audit BY <1>5, <1>2 DEF Audit, AuditRead, AuditCompare, books
  <1> QED BY <1>3, <1>4, <1>5 DEF Next

\* The entries of the wallets implement a keyed ledger: each operation is posted at
\* most once, to all its wallets at once, and only if no balance falls below zero.
THEOREM Refines == Spec => LedgerIsIdeal
  <1>1. LedgerIsIdeal <=> Ideal!Init /\ [][Ideal!Next]_<<Applied, posted>>
    BY DEF LedgerIsIdeal, Ideal!Spec
  <1> QED BY <1>1, IdealInit, IdealStep, Inductive, PTL DEF Spec

-----------------------------------------------------------------------------
(* No deadlock.  Rows are locked in the order of their ids, so the call that holds   *)
(* the highest locked row waits for a free one.                                       *)

LEMMA SmallestNumber ==
  ASSUME NEW S \in SUBSET Nat, S # {}
  PROVE  \E n \in S : \A m \in S : n <= m
  <1>1. PICK n \in S : \A m \in S : <<m, n>> \notin OpToRel(<, Nat)
    BY NatLessThanWellFounded, WFMin
  <1>2. ASSUME NEW m \in S PROVE n <= m
    <2>1. m \in Nat /\ n \in Nat OBVIOUS
    <2>2. ~(m < n) BY <1>1, <2>1 DEF OpToRel
    <2> QED BY <2>1, <2>2
  <1> QED BY <1>2

\* There are always finitely many locked rows, hence a highest one.
HeldBounded == \E n \in Nat : \A u \in Users : holder[u] # NoCall => u <= n

QInv == TypeOK /\ LockOrder /\ HeldBounded

LEMMA InitQInv == Init => LockOrder /\ HeldBounded
  <1> SUFFICES ASSUME Init PROVE LockOrder /\ HeldBounded OBVIOUS
  <1>1. LockOrder BY WalletAssumption DEF Init, LockOrder
  <1>2. \A u \in Users : holder[u] # NoCall => u <= 0 BY DEF Init
  <1> QED BY <1>1, <1>2 DEF HeldBounded

\* A call that ends gives its rows back.
LEMMA EndsQueues ==
  ASSUME QInv, NEW t \in Calls, Finish(t) PROVE LockOrder' /\ HeldBounded'
  <1> USE WalletAssumption DEF QInv, TypeOK
  <1>1. /\ holder' = [u \in Users |-> IF holder[u] = t THEN NoCall ELSE holder[u]]
        /\ pc' = [pc EXCEPT ![t] = "done"]
    BY DEF Finish
  <1>2. \A s \in Calls \ {t} : Waiting(s)' = Waiting(s)
    BY <1>1 DEF Waiting, Parties
  <1>3. HeldBounded' BY <1>1 DEF HeldBounded
  <1>4. ASSUME NEW s \in Calls, pc'[s] = "lock" PROVE Waiting(s)' # {}
    BY <1>1, <1>2, <1>4 DEF LockOrder
  <1>5. ASSUME NEW s \in Calls, NEW u \in Users, holder'[u] = s
        PROVE  UnderWay(s)' /\ u \in Parties(OpOf[s]) /\ \A v \in Waiting(s)' : u < v
    <2>1. holder[u] = s /\ s # t BY <1>1, <1>5
    <2>2. UnderWay(s) /\ u \in Parties(OpOf[s]) /\ \A v \in Waiting(s) : u < v
      BY <2>1 DEF LockOrder
    <2>3. pc'[s] = pc[s] BY <1>1, <2>1
    <2> QED BY <1>2, <2>1, <2>2, <2>3 DEF UnderWay
  <1> QED BY <1>3, <1>4, <1>5 DEF LockOrder

\* A call begins with no row.
LEMMA BeginQueues ==
  ASSUME QInv, NEW t \in Calls, Begin(t) PROVE LockOrder' /\ HeldBounded'
  <1> USE WalletAssumption DEF QInv, TypeOK
  <1>1. pc[t] = "start" /\ pc' = [pc EXCEPT ![t] = "lock"] /\ UNCHANGED holder BY DEF Begin
  <1>2. \A u \in Users : holder[u] # t BY <1>1 DEF LockOrder, UnderWay
  <1>3. \A s \in Calls : Waiting(s)' = Waiting(s) BY <1>1 DEF Waiting
  <1>4. Waiting(t) # {}
    <2> HIDE DEF QInv, TypeOK
    <2>1. OpOf[t] \in Ops OBVIOUS
    <2>2. Parties(OpOf[t]) # {} /\ Parties(OpOf[t]) \subseteq Users BY <2>1, PartyFacts
    <2>3. PICK u \in Parties(OpOf[t]) : u \in Users BY <2>2
    <2> QED BY <1>2, <2>3 DEF Waiting
  <1>5. HeldBounded' BY <1>1 DEF HeldBounded
  <1> QED BY <1>1, <1>3, <1>4, <1>5 DEF LockOrder, UnderWay

\* The next row a call takes is the lowest it waits for.
LEMMA LockQueues ==
  ASSUME QInv, NEW t \in Calls, Lock(t) PROVE LockOrder' /\ HeldBounded'
  <1> USE WalletAssumption DEF QInv, TypeOK
  <1>1. PICK w \in Users : NextRow(t, w) /\ TakeRow(t, w) BY DEF Lock
  <1>2. /\ holder[w] = NoCall /\ holder' = [holder EXCEPT ![w] = t]
        /\ w \in Waiting(t) /\ \A v \in Waiting(t) : w <= v
        /\ Waiting(t) = {w} => pc' = [pc EXCEPT ![t] = "write"]
        /\ Waiting(t) # {w} => pc' = pc
        /\ pc[t] = "lock"
    BY <1>1 DEF NextRow, TakeRow, Lock
  <1>3. /\ \A s \in Calls : Waiting(s) \subseteq Users
        /\ Waiting(t)' = Waiting(t) \ {w}
        /\ \A s \in Calls \ {t} : Waiting(s)' = Waiting(s)
    BY <1>2 DEF Waiting, Parties
  <1>4. ASSUME NEW s \in Calls, pc'[s] = "lock" PROVE Waiting(s)' # {}
    <2>1. CASE s = t BY <1>2, <1>3, <1>4, <2>1
    <2>2. CASE s # t BY <1>2, <1>3, <1>4, <2>2 DEF LockOrder
    <2> QED BY <2>1, <2>2
  <1>5. ASSUME NEW s \in Calls, NEW u \in Users, holder'[u] = s
        PROVE  UnderWay(s)' /\ u \in Parties(OpOf[s]) /\ \A v \in Waiting(s)' : u < v
    <2>1. CASE u = w
      <3>1. s = t BY <1>2, <1>5, <2>1
      <3>2. UnderWay(t)' BY <1>2 DEF UnderWay
      <3>3. u \in Parties(OpOf[t]) BY <1>2, <2>1 DEF Waiting
      <3>4. ASSUME NEW v \in Waiting(t)' PROVE u < v
        <4>1. v \in Waiting(t) /\ v # w /\ v \in Nat /\ w \in Nat BY <1>3
        <4>2. w <= v BY <1>2, <4>1
        <4> QED BY <2>1, <4>1, <4>2
      <3> QED BY <3>1, <3>2, <3>3, <3>4
    <2>2. CASE u # w
      <3>1. holder[u] = s BY <1>2, <1>5, <2>2
      <3>2. UnderWay(s) /\ u \in Parties(OpOf[s]) /\ \A v \in Waiting(s) : u < v
        BY <1>5, <3>1 DEF LockOrder
      <3>3. UnderWay(s)' BY <1>2, <3>1, <3>2 DEF UnderWay
      <3>4. \A v \in Waiting(s)' : u < v BY <1>3, <3>1, <3>2
      <3> QED BY <3>1, <3>2, <3>3, <3>4
    <2> QED BY <2>1, <2>2
  <1>6. HeldBounded'
    <2>1. PICK n \in Nat : \A u \in Users : holder[u] # NoCall => u <= n BY DEF HeldBounded
    <2>2. PICK m \in Nat : n <= m /\ w <= m
      <3>1. w \in Nat OBVIOUS
      <3>2. n + w \in Nat /\ n <= n + w /\ w <= n + w BY <3>1
      <3> QED BY <3>2
    <2>3. \A u \in Users : holder'[u] # NoCall => u <= m BY <1>2, <2>1, <2>2
    <2> QED BY <2>3 DEF HeldBounded
  <1> QED BY <1>4, <1>5, <1>6 DEF LockOrder

LEMMA StepQInv == QInv /\ [Next]_vars => LockOrder' /\ HeldBounded'
  <1> SUFFICES ASSUME QInv, [Next]_vars PROVE LockOrder' /\ HeldBounded' OBVIOUS
  <1>1. ASSUME UNCHANGED <<holder, pc>> PROVE LockOrder' /\ HeldBounded'
    BY <1>1 DEF QInv, LockOrder, HeldBounded, Waiting, UnderWay
  <1>2. CASE UNCHANGED vars BY <1>1, <1>2 DEF vars, calls
  <1>3. CASE Audit BY <1>1, <1>3 DEF Audit, AuditRead, AuditCompare, calls
  <1>4. ASSUME NEW t \in Calls, Work(t) \/ Abort(t) PROVE LockOrder' /\ HeldBounded'
    <2>1. CASE Begin(t) BY <2>1, BeginQueues
    <2>2. CASE Lock(t) BY <2>2, LockQueues
    <2>3. CASE ~Begin(t) /\ ~Lock(t)
      <3>1. Finish(t)
        BY <1>4, <2>3 DEF Work, FindsDone, Held, Post, PostDuplicate, WriteCached, Refuse, Abort
      <3> QED BY <3>1, EndsQueues
    <2> QED BY <2>1, <2>2, <2>3
  <1> QED BY <1>2, <1>3, <1>4 DEF Next

LEMMA NextRowExists ==
  ASSUME QInv, NEW t \in Calls, pc[t] = "lock"
  PROVE  \E u \in Users : NextRow(t, u)
  <1>1. Waiting(t) # {} /\ Waiting(t) \subseteq Users /\ Users \subseteq Nat
    BY WalletAssumption DEF QInv, LockOrder, Waiting, Parties
  <1>2. PICK u \in Waiting(t) : \A v \in Waiting(t) : u <= v BY <1>1, SmallestNumber
  <1> QED BY <1>1, <1>2 DEF NextRow

LEMMA QueuesDrain == QInv => NoDeadlock
  <1> SUFFICES ASSUME QInv, NEW t \in Calls, UnderWay(t)
               PROVE  \E s \in Calls : UnderWay(s) /\ CanGoOn(s)
    BY DEF NoDeadlock
  <1> USE WalletAssumption DEF QInv, TypeOK
  <1>1. CASE \A u \in Users : holder[u] = NoCall
    BY <1>1, NextRowExists DEF UnderWay, CanGoOn
  <1>2. CASE \E u \in Users : holder[u] # NoCall
    <2>1. PICK n \in Nat : \A u \in Users : holder[u] # NoCall => u <= n BY DEF HeldBounded
    <2> DEFINE Room == {n - u : u \in {v \in Users : holder[v] # NoCall}}
    <2>2. Room \in SUBSET Nat
      <3> SUFFICES ASSUME NEW v \in Users, holder[v] # NoCall PROVE n - v \in Nat OBVIOUS
      <3>1. v \in Nat /\ v <= n BY <2>1
      <3> QED BY <3>1
    <2>3. Room # {} BY <1>2
    <2>4. PICK r \in Room : \A q \in Room : r <= q BY <2>2, <2>3, SmallestNumber
    <2>5. PICK u \in Users : holder[u] # NoCall /\ r = n - u BY <2>4
    <2>6. ASSUME NEW v \in Users, holder[v] # NoCall PROVE v <= u
      <3>1. n - u <= n - v
        <4>1. n - v \in Room BY <2>6
        <4> HIDE DEF Room
        <4> QED BY <2>4, <2>5, <4>1
      <3>2. u \in Nat /\ v \in Nat OBVIOUS
      <3> QED BY <3>1, <3>2
    <2> DEFINE s == holder[u]
    <2>7. s \in Calls /\ UnderWay(s) /\ \A v \in Waiting(s) : u < v
      BY <2>5 DEF LockOrder
    <2>8. CASE pc[s] = "write" BY <2>7, <2>8 DEF CanGoOn
    <2>9. CASE pc[s] = "lock"
      <3>1. PICK v \in Users : NextRow(s, v) BY <2>7, <2>9, NextRowExists
      <3>2. u < v BY <2>7, <3>1 DEF NextRow
      <3>3. holder[v] = NoCall BY <2>6, <3>2
      <3> QED BY <2>7, <3>1, <3>3 DEF CanGoOn
    <2> QED BY <2>7, <2>8, <2>9 DEF UnderWay
  <1> QED BY <1>1, <1>2

\* However many transfers go back and forth between the same wallets, they never wait for
\* each other in a circle.
THEOREM NeverDeadlocks == Spec => []NoDeadlock
  <1>1. TypeOK /\ LockOrder /\ HeldBounded /\ [Next]_vars => LockOrder' /\ HeldBounded'
    BY StepQInv DEF QInv
  <1>2. TypeOK /\ LockOrder /\ HeldBounded => NoDeadlock BY QueuesDrain DEF QInv
  <1> QED BY <1>1, <1>2, InitQInv, TypeCorrect, PTL DEF Spec
=============================================================================
