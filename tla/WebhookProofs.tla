--------------------------- MODULE WebhookProofs ---------------------------
(***************************************************************************)
(* Proofs about Webhook and the payment flows in it, for any flows, calls, *)
(* notifications and deliveries.                                           *)
(***************************************************************************)
EXTENDS Webhook, TLAPS

\* Steps that refund nothing.
RefundsUnchanged == UNCHANGED <<refunded, keys, credited, queued>>

LEMMA EventType == \A d \in Deliveries : Event(d) \in Events
  BY WebhookAssumption DEF Event, Events

-----------------------------------------------------------------------------
(* Refunds *)

RefundType ==
  /\ refunded \in [Flows -> Nat] /\ credited \in [Flows -> Nat] /\ queued \in [Flows -> Nat]
  /\ keys \in [Flows -> SUBSET Nat]
  /\ \A c \in Calls : copy[c].refunded \in Nat
  /\ DOMAIN copy = Calls

RInv == RefundType /\ RefundInv

LEMMA RefundInit == Init => RInv
  <1> SUFFICES ASSUME Init PROVE RInv OBVIOUS
  <1> USE DEF Init, FlowInit, NoCopy
  <1>1. RefundType BY DEF RefundType
  <1>2. RefundInv BY FlowAssumption DEF RefundInv, Covered
  <1> QED BY <1>1, <1>2 DEF RInv

\* Steps that leave the refunds and every copy alone.
LEMMA RefundIdle == ASSUME RInv, RefundsUnchanged, UNCHANGED copy PROVE RInv'
  BY DEF RInv, RefundType, RefundInv, Covered, RefundsUnchanged

\* A call that returns without a refund forgets its copy.
LEMMA RefundReturns ==
  ASSUME RInv, RefundsUnchanged, NEW c \in Calls, copy' = [copy EXCEPT ![c] = NoCopy(c)]
  PROVE  RInv'
  <1> USE DEF RInv
  <1>1. \A x \in Calls : copy'[x].refunded \in {copy[x].refunded, 0}
    BY DEF RefundType, NoCopy
  <1>2. RefundType' BY <1>1 DEF RefundType, RefundsUnchanged
  <1>3. RefundInv'
    <2>1. \A f \in Flows : credited'[f] + queued'[f] = credited[f] + queued[f]
                           /\ 0 <= credited[f] + queued[f]
      BY DEF RefundType, RefundsUnchanged
    <2>2. \A x \in Calls : copy'[x].refunded <= credited'[Target[x]] + queued'[Target[x]]
      <3> TAKE x \in Calls
      <3>1. Target[x] \in Flows BY FlowAssumption
      <3>2. copy[x].refunded <= credited[Target[x]] + queued[Target[x]]
        BY DEF RefundInv, Covered
      <3> QED BY <1>1, <2>1, <3>1, <3>2
    <2>3. \A f \in Flows : /\ refunded'[f] <= credited'[f] + queued'[f]
                           /\ \A k \in keys'[f] : k <= credited'[f] + queued'[f]
      BY DEF RefundInv, Covered, RefundsUnchanged
    <2> QED BY <2>2, <2>3 DEF RefundInv, Covered
  <1> QED BY <1>2, <1>3

LEMMA RefundLoads == ASSUME RInv, NEW c \in Calls, Load(c) PROVE RInv'
  <1> USE FlowAssumption DEF RInv, Load, rows, purse
  <1>1. \A x \in Calls : copy'[x].refunded = IF x = c THEN refunded[Target[c]] ELSE copy[x].refunded
    BY DEF RefundType
  <1>2. RefundType' BY <1>1 DEF RefundType
  <1>3. RefundInv' BY <1>1 DEF RefundInv, Covered
  <1> QED BY <1>2, <1>3

\* A refund returns money, or its key was there and covered already: either way the total
\* it saves, and its key, are covered.
LEMMA RefundPays ==
  ASSUME RInv, NEW c \in Calls, Refund(c), NEW f \in Flows, f = Target[c],
         NEW total \in Nat, total = copy[c].refunded + RefundCents[c]
  PROVE  /\ credited' \in [Flows -> Nat] /\ queued' \in [Flows -> Nat]
         /\ keys' \in [Flows -> SUBSET Nat]
         /\ \A g \in Flows : /\ credited[g] + queued[g] <= credited'[g] + queued'[g]
                            /\ keys'[g] \subseteq IF g = f THEN keys[g] \cup {total} ELSE keys[g]
         /\ total <= credited'[f] + queued'[f]
  <1>1. RefundCents[c] \in Nat BY FlowAssumption
  <1>2. /\ keys \in [Flows -> SUBSET Nat]
        /\ credited \in [Flows -> Nat] /\ queued \in [Flows -> Nat]
    BY DEF RInv, RefundType
  <1>3. copy[c].refunded \in Nat /\ copy[c].refunded <= credited[f] + queued[f]
    BY DEF RInv, RefundType, RefundInv, Covered
  <1>4. Credit(f, total, RefundCents[c]) \/ Queue(f, RefundCents[c])
    BY DEF Refund, Total
  <1>5. CASE Credit(f, total, RefundCents[c]) /\ total \in keys[f]
    <2>1. total <= credited[f] + queued[f] BY <1>5 DEF RInv, RefundInv, Covered
    <2>2. keys' = keys /\ credited' = credited /\ queued' = queued BY <1>2, <1>5 DEF Credit
    <2> QED BY <1>2, <2>1, <2>2
  <1>6. CASE Credit(f, total, RefundCents[c]) /\ total \notin keys[f]
    <2>1. /\ keys' = [keys EXCEPT ![f] = @ \cup {total}] /\ queued' = queued
          /\ credited' = [credited EXCEPT ![f] = @ + RefundCents[c]]
      BY <1>6 DEF Credit
    <2> QED BY <1>1, <1>2, <1>3, <2>1
  <1>7. CASE Queue(f, RefundCents[c])
    <2>1. /\ queued' = [queued EXCEPT ![f] = @ + RefundCents[c]]
          /\ keys' = keys /\ credited' = credited
      BY <1>7 DEF Queue
    <2> QED BY <1>1, <1>2, <1>3, <2>1
  <1> QED BY <1>4, <1>5, <1>6, <1>7

LEMMA RefundStep == ASSUME RInv, NEW c \in Calls, Refund(c) PROVE RInv'
  <1>1. PICK f \in Flows : f = Target[c] BY FlowAssumption
  <1>2. PICK total \in Nat : total = copy[c].refunded + RefundCents[c]
    BY FlowAssumption DEF RInv, RefundType
  <1>3. /\ credited' \in [Flows -> Nat] /\ queued' \in [Flows -> Nat]
        /\ keys' \in [Flows -> SUBSET Nat]
        /\ \A g \in Flows : /\ credited[g] + queued[g] <= credited'[g] + queued'[g]
                           /\ keys'[g] \subseteq IF g = f THEN keys[g] \cup {total} ELSE keys[g]
        /\ total <= credited'[f] + queued'[f]
    BY <1>1, <1>2, RefundPays
  <1>4. /\ refunded' = [refunded EXCEPT ![f] = total]
        /\ copy' = [copy EXCEPT ![c] = NoCopy(c)]
    BY <1>1, <1>2 DEF Refund, Return
  <1>5. \A x \in Calls : copy'[x].refunded \in {copy[x].refunded, 0}
    BY <1>4 DEF RInv, RefundType, NoCopy
  <1>6. /\ refunded \in [Flows -> Nat] /\ credited \in [Flows -> Nat] /\ queued \in [Flows -> Nat]
        /\ keys \in [Flows -> SUBSET Nat]
    BY DEF RInv, RefundType
  <1>7. RefundType'
    <2>1. refunded' \in [Flows -> Nat] BY <1>4, <1>6
    <2>2. DOMAIN copy' = Calls /\ \A x \in Calls : copy'[x].refunded \in Nat
      BY <1>4, <1>5 DEF RInv, RefundType
    <2> QED BY <1>3, <2>1, <2>2 DEF RefundType
  <1>8. ASSUME NEW g \in Flows, NEW cents \in Nat, Covered(g, cents)
        PROVE  cents <= credited'[g] + queued'[g]
    <2>1. cents <= credited[g] + queued[g] BY <1>8 DEF Covered
    <2>2. credited[g] + queued[g] <= credited'[g] + queued'[g] BY <1>3
    <2>3. /\ credited[g] \in Nat /\ queued[g] \in Nat
          /\ credited'[g] \in Nat /\ queued'[g] \in Nat
      BY <1>3, <1>6
    <2> QED BY <2>1, <2>2, <2>3
  <1>9. \A g \in Flows : refunded'[g] <= credited'[g] + queued'[g]
    BY <1>3, <1>4, <1>6, <1>8 DEF RInv, RefundInv
  <1>10. \A g \in Flows : \A k \in keys'[g] : k <= credited'[g] + queued'[g]
    <2> TAKE g \in Flows
    <2> TAKE k \in keys'[g]
    <2>1. CASE k \in keys[g] BY <1>6, <1>8, <2>1 DEF RInv, RefundInv
    <2>2. CASE k \notin keys[g] BY <1>3, <2>2
    <2> QED BY <2>1, <2>2
  <1>11. \A x \in Calls : copy'[x].refunded <= credited'[Target[x]] + queued'[Target[x]]
    <2> TAKE x \in Calls
    <2>1. Target[x] \in Flows BY FlowAssumption
    <2>2. CASE copy'[x].refunded = copy[x].refunded
      BY <1>8, <2>1, <2>2 DEF RInv, RefundType, RefundInv
    <2>3. CASE copy'[x].refunded = 0 BY <1>3, <2>1, <2>3
    <2> QED BY <1>5, <2>2, <2>3
  <1> QED BY <1>7, <1>9, <1>10, <1>11 DEF RInv, RefundInv, Covered

LEMMA RefundNext == RInv /\ [Next]_vars => RInv'
  <1> SUFFICES ASSUME RInv, [Next]_vars PROVE RInv' OBVIOUS
  <1> USE DEF RefundsUnchanged, rows, purse, work, bank
  <1>1. CASE UNCHANGED vars BY <1>1, RefundIdle DEF vars, flowVars
  <1>2. CASE \E f \in Flows : Elapse(f) BY <1>2, RefundIdle DEF Elapse
  <1>3. CASE \E s \in Sweeps : SweepLists(s) \/ SweepDies(s) \/ \E f \in Flows : SweepExpires(s, f)
    BY <1>3, RefundIdle DEF SweepLists, SweepDies, SweepExpires
  <1>4. CASE \E c \in Calls : Load(c) \/ Upload(c) \/ Verify(c) \/ Refund(c) \/ RefundRefused(c)
    <2>1. PICK c \in Calls : Load(c) \/ Upload(c) \/ Verify(c) \/ Refund(c) \/ RefundRefused(c)
      BY <1>4
    <2>2. CASE Load(c) BY <2>2, RefundLoads
    <2>3. CASE Upload(c) BY <2>3, RefundReturns DEF Upload, Return
    <2>4. CASE Verify(c) BY <2>4, RefundReturns DEF Verify, Return
    <2>5. CASE Refund(c) BY <2>5, RefundStep
    <2>6. CASE RefundRefused(c) BY <2>6, RefundReturns DEF RefundRefused, Return
    <2> QED BY <2>1, <2>2, <2>3, <2>4, <2>5, <2>6
  <1>5. CASE \E d \in Deliveries : Pipeline(d) \/ Crash(d)
    <2>1. PICK d \in Deliveries : Pipeline(d) \/ Crash(d) BY <1>5
    <2>2. RefundsUnchanged /\ UNCHANGED copy
      BY <2>1 DEF Pipeline, Crash, LookUp, Insert, Claim, Handle, HandleRaises, Release, Finalise,
                  Confirm, PushFailed, flowVars
    <2> QED BY <2>2, RefundIdle
  <1> QED BY <1>1, <1>2, <1>3, <1>4, <1>5 DEF Next, FlowNext

\* What a flow says it refunded was credited to the buyer or queued for a payout, for any
\* refunds that race on stale copies of the flow, to any targets.
THEOREM RefundsAreCredited == Spec => []RefundedIsCredited
  <1>1. RInv => RefundedIsCredited BY DEF RInv, RefundInv, Covered, RefundedIsCredited
  <1> QED BY <1>1, RefundInit, RefundNext, PTL DEF Spec

-----------------------------------------------------------------------------
(* Receipts *)

HookType ==
  /\ receipts \subseteq Events
  /\ DOMAIN step = Deliveries
  /\ handled \in [Events -> Nat]

HInv == HookType /\ ReceiptInv

LEMMA ReceiptInit == Init => HInv
  BY EventType DEF Init, HInv, HookType, ReceiptInv, Holds

\* Steps that move no delivery into or out of its handler.
LEMMA ReceiptIdle ==
  ASSUME HInv, UNCHANGED <<receipts, handled>>, DOMAIN step' = Deliveries,
         \A d \in Deliveries : Holds(d)' => Holds(d)
  PROVE  HInv'
  BY DEF HInv, HookType, ReceiptInv, Event

\* A claim: nobody else holds the event, because the receipt was not there.
LEMMA ClaimStep == ASSUME HInv, NEW d \in Deliveries, Claim(d) PROVE HInv'
  <1>1. \A c \in Deliveries \ {d} : step'[c] = step[c]
    BY DEF Claim, Goto, HInv, HookType
  <1>2. DOMAIN step' = Deliveries /\ handled' = handled BY DEF Claim, Goto, HInv, HookType
  <1>3. CASE Event(d) \in receipts
    <2>1. receipts' = receipts /\ step'[d] = "finalise"
      BY <1>3 DEF Claim, Goto, HInv, HookType
    <2> QED BY <1>1, <1>2, <2>1, ReceiptIdle DEF Holds
  <1>4. CASE Event(d) \notin receipts
    <2>1. receipts' = receipts \cup {Event(d)} /\ step'[d] = "handle"
      BY <1>4 DEF Claim, Goto, HInv, HookType
    <2>2. \A c \in Deliveries \ {d} : Holds(c)' = Holds(c) BY <1>1 DEF Holds
    <2>3. \A c \in Deliveries : Holds(c) => Event(c) # Event(d) BY <1>4 DEF HInv, ReceiptInv
    <2>4. handled[Event(d)] = 0
      BY <1>4, EventType DEF HInv, HookType, ReceiptInv
    <2>5. HookType' BY <1>2, <2>1, EventType DEF HInv, HookType
    <2>6. ReceiptInv'
      <3>1. \A a, b \in Deliveries : Holds(a)' /\ Holds(b)' /\ Event(a) = Event(b) => a = b
        BY <2>2, <2>3 DEF HInv, ReceiptInv
      <3>2. \A a \in Deliveries : Holds(a)' => Event(a) \in receipts' /\ handled'[Event(a)] = 0
        BY <1>2, <2>1, <2>2, <2>4 DEF HInv, ReceiptInv
      <3>3. \A e \in Events : handled'[e] <= 1 /\ (handled'[e] = 1 => e \in receipts')
        BY <1>2, <2>1 DEF HInv, ReceiptInv
      <3> QED BY <3>1, <3>2, <3>3 DEF ReceiptInv, Event
    <2> QED BY <2>5, <2>6 DEF HInv
  <1> QED BY <1>3, <1>4

\* The handler commits once: its event was not handled, and it holds it alone.
LEMMA HandleStep == ASSUME HInv, NEW d \in Deliveries, Handle(d) PROVE HInv'
  <1>1. /\ step' = [step EXCEPT ![d] = "finalise"] /\ receipts' = receipts
        /\ handled' = [handled EXCEPT ![Event(d)] = @ + 1]
        /\ Holds(d)
    BY DEF Handle, Goto, Event, Holds
  <1>2. \A c \in Deliveries : Holds(c)' => c # d /\ Holds(c) BY <1>1 DEF Holds, HInv, HookType
  <1>3. Event(d) \in receipts /\ handled[Event(d)] = 0 /\ Event(d) \in Events
    BY <1>1, EventType DEF HInv, ReceiptInv
  <1>4. \A c \in Deliveries : Holds(c)' => Event(c) # Event(d)
    BY <1>1, <1>2 DEF HInv, ReceiptInv
  <1>5. \A e \in Events : handled'[e] = IF e = Event(d) THEN 1 ELSE handled[e]
    BY <1>1, <1>3 DEF HInv, HookType
  <1>6. HookType' BY <1>1, <1>3 DEF HInv, HookType
  <1>7. ReceiptInv'
    <2>1. \A a, b \in Deliveries : Holds(a)' /\ Holds(b)' /\ Event(a) = Event(b) => a = b
      BY <1>2 DEF HInv, ReceiptInv
    <2>2. \A a \in Deliveries : Holds(a)' => Event(a) \in receipts' /\ handled'[Event(a)] = 0
      BY <1>1, <1>2, <1>4, <1>5, EventType DEF HInv, ReceiptInv
    <2>3. \A e \in Events : handled'[e] <= 1 /\ (handled'[e] = 1 => e \in receipts')
      BY <1>1, <1>3, <1>5 DEF HInv, ReceiptInv
    <2> QED BY <2>1, <2>2, <2>3 DEF ReceiptInv, Event
  <1> QED BY <1>6, <1>7 DEF HInv

\* The receipt that is deleted belongs to an event that was not handled.
LEMMA ReleaseStep == ASSUME HInv, NEW d \in Deliveries, Release(d) PROVE HInv'
  <1>1. /\ step' = [step EXCEPT ![d] = "finalise"] /\ handled' = handled
        /\ receipts' = receipts \ {Event(d)} /\ Holds(d)
    BY DEF Release, Goto, Holds
  <1>2. \A c \in Deliveries : Holds(c)' => c # d /\ Holds(c) BY <1>1 DEF Holds, HInv, HookType
  <1>3. handled[Event(d)] = 0 BY <1>1 DEF HInv, ReceiptInv
  <1>4. \A c \in Deliveries : Holds(c)' => Event(c) # Event(d)
    BY <1>1, <1>2 DEF HInv, ReceiptInv
  <1>5. HookType' BY <1>1 DEF HInv, HookType
  <1>6. ReceiptInv'
    <2>1. \A a, b \in Deliveries : Holds(a)' /\ Holds(b)' /\ Event(a) = Event(b) => a = b
      BY <1>2 DEF HInv, ReceiptInv
    <2>2. \A a \in Deliveries : Holds(a)' => Event(a) \in receipts' /\ handled'[Event(a)] = 0
      BY <1>1, <1>2, <1>4 DEF HInv, ReceiptInv
    <2>3. \A e \in Events : handled'[e] <= 1 /\ (handled'[e] = 1 => e \in receipts')
      BY <1>1, <1>3 DEF HInv, ReceiptInv
    <2> QED BY <2>1, <2>2, <2>3 DEF ReceiptInv, Event
  <1> QED BY <1>5, <1>6 DEF HInv

LEMMA ReceiptNext == HInv /\ [Next]_vars => HInv'
  <1> SUFFICES ASSUME HInv, [Next]_vars PROVE HInv' OBVIOUS
  <1>1. CASE UNCHANGED vars \/ (FlowNext /\ UNCHANGED hook)
    BY <1>1, ReceiptIdle DEF vars, hook, Holds, HInv, HookType
  <1>2. CASE \E d \in Deliveries : Pipeline(d) \/ Crash(d)
    <2>1. PICK d \in Deliveries : Pipeline(d) \/ Crash(d) BY <1>2
    <2>2. CASE Claim(d) BY <2>2, ClaimStep
    <2>3. CASE Handle(d) BY <2>3, HandleStep
    <2>4. CASE Release(d) BY <2>4, ReleaseStep
    <2>5. CASE LookUp(d)
      BY <2>5, ReceiptIdle DEF LookUp, Goto, Holds, HInv, HookType
    <2>6. CASE Insert(d)
      <3>1. UNCHANGED <<receipts, handled>> BY <2>6 DEF Insert
      <3>2. step' = [step EXCEPT ![d] = "claim"] \/ step' = [step EXCEPT ![d] = "done"]
        BY <2>6 DEF Insert, Goto
      <3> QED BY <3>1, <3>2, ReceiptIdle DEF Holds, HInv, HookType
    <2>7. CASE HandleRaises(d)
      <3>1. step[d] = "handle" /\ step' = [step EXCEPT ![d] = "release"]
            /\ UNCHANGED <<receipts, handled>>
        BY <2>7 DEF HandleRaises, Goto
      <3> QED BY <3>1, ReceiptIdle DEF Holds, HInv, HookType
    <2>8. CASE Finalise(d) \/ Crash(d)
      <3>1. step' = [step EXCEPT ![d] = "done"] /\ UNCHANGED <<receipts, handled>>
        BY <2>8 DEF Finalise, Crash, Goto
      <3> QED BY <3>1, ReceiptIdle DEF Holds, HInv, HookType
    <2> QED BY <2>1, <2>2, <2>3, <2>4, <2>5, <2>6, <2>7, <2>8 DEF Pipeline
  <1> QED BY <1>1, <1>2 DEF Next

\* The handler of an event commits at most once, for any number of deliveries, of
\* any bodies, with any crashes and errors.
THEOREM HandlesOnce == Spec => []HandledOnce
  <1>1. HInv => HandledOnce BY DEF HInv, ReceiptInv, HandledOnce
  <1> QED BY <1>1, ReceiptInit, ReceiptNext, PTL DEF Spec
-----------------------------------------------------------------------------
(* Types *)

LEMMA FlowTypeInit == FlowInit => FlowTypeOK
  <1> SUFFICES ASSUME FlowInit PROVE FlowTypeOK OBVIOUS
  <1>1. \A f \in Flows : Created(f) \in States BY DEF Created, States, Open
  <1>2. \A c \in Calls : NoCopy(c) \in [status : States, refunded : Nat]
    BY <1>1, FlowAssumption DEF NoCopy
  <1> QED BY <1>1, <1>2 DEF FlowInit, FlowTypeOK

\* What Save and Return keep of the types.
LEMMA SaveTyped ==
  ASSUME FlowTypeOK, NEW f \in Flows, NEW new \in States, Save(f, new)
  PROVE  status' \in [Flows -> States] /\ paidAt' \subseteq Flows
  BY DEF Save, FlowTypeOK

LEMMA ReturnTyped ==
  ASSUME FlowTypeOK, NEW c \in Calls, Return(c)
  PROVE  /\ pc' \in [Calls -> {"start", "loaded", "done"}]
         /\ copy' \in [Calls -> [status : States, refunded : Nat]]
         /\ UNCHANGED <<due, listed, confirmed>>
  <1>1. NoCopy(c) \in [status : States, refunded : Nat]
    BY FlowAssumption DEF NoCopy, Created, States, Open
  <1> QED BY <1>1 DEF Return, FlowTypeOK

LEMMA FlowTypeCalls ==
  ASSUME FlowTypeOK, NEW c \in Calls,
         Load(c) \/ Upload(c) \/ Verify(c) \/ Refund(c) \/ RefundRefused(c)
  PROVE  FlowTypeOK'
  <1> DEFINE f == Target[c]
  <1>1. f \in Flows /\ RefundCents[c] \in Nat /\ copy[c].refunded \in Nat
    BY FlowAssumption DEF FlowTypeOK
  <1>2. {"processing", "paid", "refunded", "partially_refunded"} \subseteq States
    BY DEF States, Open, Success
  <1>3. CASE Load(c)
    <2>1. [status |-> status[f], refunded |-> refunded[f]] \in [status : States, refunded : Nat]
      BY <1>1 DEF FlowTypeOK
    <2> QED BY <1>3, <2>1 DEF Load, FlowTypeOK, rows, bank, purse
  <1>4. CASE Upload(c)
    <2>1. status' \in [Flows -> States] /\ paidAt' \subseteq Flows
      BY <1>1, <1>2, <1>4, SaveTyped DEF Upload, FlowTypeOK
    <2> QED BY <1>1, <1>4, <2>1, ReturnTyped DEF Upload, FlowTypeOK, purse
  <1>5. CASE Verify(c)
    <2>1. status' \in [Flows -> States] /\ paidAt' \subseteq Flows
      BY <1>1, <1>2, <1>5, SaveTyped DEF Verify, FlowTypeOK
    <2> QED BY <1>1, <1>5, <2>1, ReturnTyped DEF Verify, FlowTypeOK, purse
  <1>6. CASE Refund(c)
    <2>1. status' \in [Flows -> States] /\ paidAt' \subseteq Flows
      BY <1>1, <1>2, <1>6, SaveTyped DEF Refund
    <2>2. Total(c) \in Nat BY <1>1 DEF Total
    <2>3. refunded' \in [Flows -> Nat] BY <1>1, <1>6 DEF Refund, FlowTypeOK
    <2>4. Credit(f, Total(c), RefundCents[c]) \/ Queue(f, RefundCents[c]) BY <1>6 DEF Refund
    <2>5. /\ keys' \in [Flows -> SUBSET Nat] /\ credited' \in [Flows -> Nat]
          /\ queued' \in [Flows -> Nat]
      <3>1. CASE Credit(f, Total(c), RefundCents[c])
        BY <1>1, <2>2, <3>1 DEF Credit, FlowTypeOK
      <3>2. CASE Queue(f, RefundCents[c]) BY <1>1, <3>2 DEF Queue, FlowTypeOK
      <3> QED BY <2>4, <3>1, <3>2
    <2> QED BY <1>6, <2>1, <2>3, <2>5, ReturnTyped DEF Refund, FlowTypeOK, bank
  <1>7. CASE RefundRefused(c)
    BY <1>7, ReturnTyped DEF RefundRefused, FlowTypeOK, rows, bank, purse
  <1> QED BY <1>3, <1>4, <1>5, <1>6, <1>7

LEMMA FlowTypeNext == FlowTypeOK /\ FlowNext => FlowTypeOK'
  <1> SUFFICES ASSUME FlowTypeOK, FlowNext PROVE FlowTypeOK' OBVIOUS
  <1> USE DEF rows, bank, purse, work
  <1>1. CASE \E f \in Flows : Elapse(f) BY <1>1 DEF Elapse, FlowTypeOK
  <1>2. CASE \E s \in Sweeps : SweepLists(s) BY <1>2 DEF SweepLists, FlowTypeOK
  <1>3. CASE \E s \in Sweeps : SweepDies(s) BY <1>3 DEF SweepDies, FlowTypeOK
  <1>4. CASE \E s \in Sweeps, f \in Flows : SweepExpires(s, f)
    <2>1. PICK s \in Sweeps, f \in Flows : SweepExpires(s, f) BY <1>4
    <2>2. "expired" \in States BY DEF States
    <2>3. status' \in [Flows -> States] /\ paidAt' \subseteq Flows
      BY <2>1, <2>2, SaveTyped DEF SweepExpires
    <2>4. listed' \in [Sweeps -> SUBSET Flows] BY <2>1 DEF SweepExpires, FlowTypeOK
    <2> QED BY <2>1, <2>3, <2>4 DEF SweepExpires, FlowTypeOK
  <1>5. CASE \E c \in Calls :
               Load(c) \/ Upload(c) \/ Verify(c) \/ Refund(c) \/ RefundRefused(c)
    BY <1>5, FlowTypeCalls
  <1> QED BY <1>1, <1>2, <1>3, <1>4, <1>5 DEF FlowNext

LEMMA PipelineTyped ==
  ASSUME TypeOK, NEW d \in Deliveries, Pipeline(d) \/ Crash(d)
  PROVE  TypeOK'
  <1> USE DEF Goto, Outcome, Steps, Replies, Stored
  <1>1. BodyOf[d] \in Bodies /\ Event(d) \in Events /\ EventOf[BodyOf[d]] \in Events
    BY EventType, WebhookAssumption DEF Events
  <1>2. UNCHANGED flowVars => FlowTypeOK'
    BY DEF TypeOK, FlowTypeOK, flowVars, rows, bank, purse, work
  <1>3. CASE LookUp(d) BY <1>2, <1>3 DEF LookUp, TypeOK
  <1>4. CASE Insert(d) BY <1>1, <1>2, <1>4 DEF Insert, TypeOK
  <1>5. CASE Claim(d) BY <1>1, <1>2, <1>5 DEF Claim, TypeOK
  <1>6. CASE Handle(d)
    <2> DEFINE b == BodyOf[d]
    <2>1. FlowOf[b] \in Flows /\ Exact[b] \in BOOLEAN BY <1>1, WebhookAssumption
    <2>2. {"paid", "failed"} \subseteq States BY DEF States, Success
    <2>3. FlowTypeOK BY DEF TypeOK
    <2>4. ASSUME Paid[b] PROVE FlowTypeOK'
      <3>1. Confirm(FlowOf[b], Exact[b]) BY <1>6, <2>4 DEF Handle
      <3>2. Save(FlowOf[b], "paid") \/ UNCHANGED <<status, paidAt>> BY <3>1 DEF Confirm
      <3>3. status' \in [Flows -> States] /\ paidAt' \subseteq Flows
        BY <2>1, <2>2, <2>3, <3>2, SaveTyped DEF FlowTypeOK
      <3>4. /\ confirmed' = confirmed \cup {FlowOf[b]} \/ confirmed' = confirmed
            /\ UNCHANGED <<refunded, due, bank, purse, work>>
        BY <3>1 DEF Confirm
      <3> QED BY <2>1, <2>3, <3>3, <3>4 DEF FlowTypeOK, bank, purse, work
    <2>5. ASSUME ~Paid[b] PROVE FlowTypeOK'
      <3>1. PushFailed(FlowOf[b]) BY <1>6, <2>5 DEF Handle
      <3>2. Save(FlowOf[b], "failed") \/ UNCHANGED <<status, paidAt>> BY <3>1 DEF PushFailed
      <3>3. status' \in [Flows -> States] /\ paidAt' \subseteq Flows
        BY <2>1, <2>2, <2>3, <3>2, SaveTyped DEF FlowTypeOK
      <3>4. UNCHANGED <<refunded, due, bank, purse, work, confirmed>> BY <3>1 DEF PushFailed
      <3> QED BY <2>3, <3>3, <3>4 DEF FlowTypeOK, bank, purse, work
    <2>6. FlowTypeOK' BY <2>4, <2>5
    <2> QED BY <1>1, <1>6, <2>6 DEF Handle, TypeOK
  <1>7. CASE HandleRaises(d) BY <1>1, <1>2, <1>7 DEF HandleRaises, TypeOK
  <1>8. CASE Release(d) BY <1>1, <1>2, <1>8 DEF Release, TypeOK
  <1>9. CASE Finalise(d) BY <1>1, <1>2, <1>9 DEF Finalise, TypeOK
  <1>10. CASE Crash(d) BY <1>1, <1>2, <1>10 DEF Crash, TypeOK
  <1> QED BY <1>3, <1>4, <1>5, <1>6, <1>7, <1>8, <1>9, <1>10 DEF Pipeline

\* Types of the flows, the receipts, the audit rows and the deliveries.
THEOREM TypeCorrect == Spec => []TypeOK
  <1>1. Init => TypeOK BY FlowTypeInit DEF Init, TypeOK, Steps, Replies
  <1>2. TypeOK /\ [Next]_vars => TypeOK'
    <2> SUFFICES ASSUME TypeOK, [Next]_vars PROVE TypeOK' OBVIOUS
    <2>1. CASE FlowNext /\ UNCHANGED hook BY <2>1, FlowTypeNext DEF TypeOK, hook
    <2>2. CASE \E d \in Deliveries : Pipeline(d) \/ Crash(d) BY <2>2, PipelineTyped
    <2>3. CASE UNCHANGED vars
      BY <2>3 DEF vars, hook, flowVars, rows, bank, purse, work, TypeOK, FlowTypeOK
    <2> QED BY <2>1, <2>2, <2>3 DEF Next
  <1> QED BY <1>1, <1>2, PTL DEF Spec

-----------------------------------------------------------------------------
(* Payments *)

Backed == confirmed \cup verified

\* A step keeps BackedInv if whatever it makes paid, successful or credited, and whatever
\* success a call reads, is backed by then.
LEMMA BackedKeeps ==
  ASSUME BackedInv, Backed \subseteq Backed',
         \A f \in Flows :
           /\ f \in paidAt' => f \in paidAt \cup Backed'
           /\ status'[f] \in Success => status[f] \in Success \/ f \in Backed'
           /\ credited'[f] + queued'[f] > 0 => credited[f] + queued[f] > 0 \/ f \in Backed',
         \A c \in Calls :
           copy'[c].status \in Success => copy[c].status \in Success \/ Target[c] \in Backed'
  PROVE  BackedInv'
  BY DEF BackedInv, PaidIsBacked, Backed

LEMMA BackedIdle ==
  ASSUME BackedInv, UNCHANGED <<paidAt, status, credited, queued, copy, confirmed, verified>>
  PROVE  BackedInv'
  BY BackedKeeps DEF Backed

LEMMA BackedInit == Init => BackedInv
  <1> SUFFICES ASSUME Init PROVE BackedInv OBVIOUS
  <1> USE FlowAssumption DEF Init, FlowInit
  <1>1. Open \cap Success = {} BY DEF Open, Success
  <1>2. \A f \in Flows : Created(f) \in Open BY DEF Created, Open
  <1>3. PaidIsBacked BY <1>1, <1>2 DEF PaidIsBacked
  <1>4. \A c \in Calls : copy[c].status \notin Success BY <1>1, <1>2 DEF NoCopy
  <1> QED BY <1>3, <1>4 DEF BackedInv

\* Save of any status but a successful one, and of a successful one on a backed flow.
LEMMA SaveBacked ==
  ASSUME FlowTypeOK, NEW f \in Flows, NEW new, Save(f, new),
         new \in Success => f \in Backed'
  PROVE  \A g \in Flows :
           /\ g \in paidAt' => g \in paidAt \cup Backed'
           /\ status'[g] \in Success => status[g] \in Success \/ g \in Backed'
  BY DEF Save, FlowTypeOK, Success

\* A call forgets its copy when it returns.
LEMMA ReturnBacked ==
  ASSUME FlowTypeOK, NEW c \in Calls, Return(c)
  PROVE  /\ \A x \in Calls : copy'[x].status \in Success => copy[x].status \in Success
         /\ confirmed' = confirmed
  <1>1. NoCopy(c).status \notin Success
    BY FlowAssumption DEF NoCopy, Created, Success
  <1> QED BY <1>1 DEF Return, FlowTypeOK

LEMMA BackedCalls ==
  ASSUME FlowTypeOK, BackedInv, NEW c \in Calls,
         Load(c) \/ Upload(c) \/ Verify(c) \/ Refund(c) \/ RefundRefused(c)
  PROVE  BackedInv'
  <1> DEFINE f == Target[c]
  <1>1. f \in Flows BY FlowAssumption
  <1> USE DEF rows, bank, purse
  <1>2. CASE Load(c)
    <2>1. UNCHANGED <<paidAt, status, credited, queued, confirmed, verified>> BY <1>2 DEF Load
    <2>2. \A x \in Calls : copy'[x].status = IF x = c THEN status[f] ELSE copy[x].status
      BY <1>2 DEF Load, FlowTypeOK
    <2>3. status[f] \in Success => f \in Backed BY <1>1 DEF BackedInv, PaidIsBacked, Backed
    <2> QED BY <2>1, <2>2, <2>3, BackedKeeps DEF Backed
  <1>3. CASE Upload(c)
    <2>1. Return(c) /\ UNCHANGED <<verified, credited, queued>> BY <1>3 DEF Upload
    <2>2. Backed' = Backed BY <2>1, ReturnBacked DEF Backed
    <2>3. Save(f, "processing") \/ UNCHANGED <<status, paidAt>> BY <1>3 DEF Upload
    <2>4. "processing" \notin Success BY DEF Success
    <2> QED BY <1>1, <2>1, <2>2, <2>3, <2>4, SaveBacked, ReturnBacked, BackedKeeps
  <1>4. CASE Verify(c)
    <2>1. Return(c) /\ UNCHANGED <<credited, queued>> BY <1>4 DEF Verify
    <2>2. Backed \subseteq Backed' BY <1>4, <2>1, ReturnBacked DEF Verify, Backed
    <2>3. \/ Save(f, "paid") /\ f \in Backed'
          \/ UNCHANGED <<status, paidAt>>
      BY <1>4 DEF Verify, Backed
    <2> QED BY <1>1, <2>1, <2>2, <2>3, SaveBacked, ReturnBacked, BackedKeeps
  <1>5. CASE Refund(c)
    <2>1. Return(c) /\ UNCHANGED verified BY <1>5 DEF Refund
    <2>2. Backed' = Backed BY <2>1, ReturnBacked DEF Backed
    <2>3. f \in Backed BY <1>5 DEF Refund, Refundable, Success, BackedInv, Backed
    <2>4. PICK new : Save(f, new) BY <1>5 DEF Refund
    <2>5. \A g \in Flows : credited'[g] + queued'[g] > 0 =>
                            credited[g] + queued[g] > 0 \/ g \in Backed'
      <3>1. \A g \in Flows \ {f} : credited'[g] = credited[g] /\ queued'[g] = queued[g]
        BY <1>5 DEF Refund, Credit, Queue, FlowTypeOK
      <3> QED BY <2>2, <2>3, <3>1
    <2> QED BY <1>1, <2>1, <2>2, <2>3, <2>4, <2>5, SaveBacked, ReturnBacked, BackedKeeps
  <1>6. CASE RefundRefused(c)
    <2>1. Return(c) /\ UNCHANGED <<status, paidAt, credited, queued, verified>>
      BY <1>6 DEF RefundRefused
    <2> QED BY <2>1, ReturnBacked, BackedKeeps DEF Backed
  <1> QED BY <1>2, <1>3, <1>4, <1>5, <1>6

\* What the provider's result does to a flow.
LEMMA BackedHandle ==
  ASSUME TypeOK, BackedInv, NEW d \in Deliveries, Handle(d)
  PROVE  BackedInv'
  <1> DEFINE b == BodyOf[d]
             f == FlowOf[b]
  <1>1. f \in Flows /\ FlowTypeOK BY WebhookAssumption DEF TypeOK
  <1> USE DEF bank, purse, work
  <1>2. CASE Paid[b]
    <2>1. Confirm(f, Exact[b]) BY <1>2 DEF Handle
    <2>2. UNCHANGED <<credited, queued, copy, verified>> /\ Backed \subseteq Backed'
      BY <2>1 DEF Confirm, Backed
    <2>3. \/ Save(f, "paid") /\ f \in Backed'
          \/ UNCHANGED <<status, paidAt>>
      BY <2>1 DEF Confirm, Backed
    <2> QED BY <1>1, <2>2, <2>3, SaveBacked, BackedKeeps
  <1>3. CASE ~Paid[b]
    <2>1. PushFailed(f) BY <1>3 DEF Handle
    <2>2. UNCHANGED <<credited, queued, copy, verified, confirmed>> BY <2>1 DEF PushFailed
    <2>3. Backed' = Backed BY <2>2 DEF Backed
    <2>4. Save(f, "failed") \/ UNCHANGED <<status, paidAt>> BY <2>1 DEF PushFailed
    <2>5. "failed" \notin Success BY DEF Success
    <2> QED BY <1>1, <2>2, <2>3, <2>4, <2>5, SaveBacked, BackedKeeps
  <1> QED BY <1>2, <1>3

LEMMA BackedNext == TypeOK /\ BackedInv /\ [Next]_vars => BackedInv'
  <1> SUFFICES ASSUME TypeOK, BackedInv, [Next]_vars PROVE BackedInv' OBVIOUS
  <1>1. FlowTypeOK BY DEF TypeOK
  <1> USE DEF rows, bank, purse, work
  <1>2. CASE UNCHANGED vars BY <1>2, BackedIdle DEF vars, flowVars
  <1>3. ASSUME NEW f \in Flows, Elapse(f) PROVE BackedInv' BY <1>3, BackedIdle DEF Elapse
  <1>4. ASSUME NEW s \in Sweeps, SweepLists(s) \/ SweepDies(s) PROVE BackedInv'
    BY <1>4, BackedIdle DEF SweepLists, SweepDies
  <1>5. ASSUME NEW s \in Sweeps, NEW f \in Flows, SweepExpires(s, f) PROVE BackedInv'
    <2>1. Save(f, "expired") /\ UNCHANGED <<credited, queued, copy, verified, confirmed>>
      BY <1>5 DEF SweepExpires
    <2>2. "expired" \notin Success /\ Backed' = Backed BY <2>1 DEF Success, Backed
    <2> QED BY <1>1, <2>1, <2>2, SaveBacked, BackedKeeps
  <1>6. ASSUME NEW c \in Calls,
               Load(c) \/ Upload(c) \/ Verify(c) \/ Refund(c) \/ RefundRefused(c)
        PROVE  BackedInv'
    BY <1>1, <1>6, BackedCalls
  <1>7. ASSUME NEW d \in Deliveries, Pipeline(d) \/ Crash(d) PROVE BackedInv'
    <2>1. CASE Handle(d) BY <2>1, BackedHandle
    <2>2. CASE ~Handle(d)
      <3>1. UNCHANGED flowVars
        BY <1>7, <2>2 DEF Pipeline, Crash, LookUp, Insert, Claim, HandleRaises, Release, Finalise
      <3> QED BY <3>1, BackedIdle DEF flowVars
    <2> QED BY <2>1, <2>2
  <1> QED BY <1>2, <1>3, <1>4, <1>5, <1>6, <1>7 DEF Next, FlowNext

\* A flow is paid, and money goes back for it, only if the provider confirmed its exact
\* amount or a bank proof was verified, whoever overwrites its status.
THEOREM PaymentsAreBacked == Spec => []PaidIsBacked
  <1>1. BackedInv => PaidIsBacked BY DEF BackedInv
  <1> QED BY <1>1, BackedInit, BackedNext, TypeCorrect, PTL DEF Spec

LEMMA SaveElsewhere ==
  ASSUME FlowTypeOK, NEW f \in Flows, NEW new, Save(f, new)
  PROVE  /\ status'[f] = new
         /\ \A g \in Flows \ {f} : status'[g] = status[g]
  BY DEF Save, FlowTypeOK

LEMMA CallLegit ==
  ASSUME FlowTypeOK, NEW c \in Calls, Upload(c) \/ Verify(c) \/ Refund(c),
         NEW g \in Flows, status'[g] # status[g]
  PROVE  LegalMove(g)
  <1> DEFINE f == Target[c]
  <1>1. f \in Flows BY FlowAssumption
  <1>2. /\ pc[c] = "loaded"
        /\ \/ copy[c].status = "awaiting" /\ Save(f, "processing")
           \/ copy[c].status = "processing" /\ Save(f, "paid")
           \/ /\ copy[c].status \in {"paid", "partially_refunded"}
              /\ Save(f, "refunded") \/ Save(f, "partially_refunded")
           \/ UNCHANGED status
    BY DEF Upload, Verify, Refund, Refundable
  <1>3. g = f BY <1>1, <1>2, SaveElsewhere
  <1>4. pc'[c] = "done" BY DEF Upload, Verify, Refund, Return, FlowTypeOK
  <1>5. CASE <<copy[c].status, status'[f]>> \in Allowed
    BY <1>2, <1>3, <1>4, <1>5 DEF CallWrites, LegalMove
  <1> QED BY <1>1, <1>2, <1>3, <1>5, SaveElsewhere DEF Allowed

LEMMA HandleLegit ==
  ASSUME TypeOK, NEW d \in Deliveries, Handle(d),
         NEW g \in Flows, status'[g] # status[g]
  PROVE  LegalMove(g)
  <1> DEFINE b == BodyOf[d]
             f == FlowOf[b]
  <1>1. f \in Flows /\ FlowTypeOK BY WebhookAssumption DEF TypeOK
  <1>2. CASE Paid[b]
    <2>1. Confirm(f, Exact[b]) /\ ~ConfirmRaises(f, Exact[b]) BY <1>2 DEF Handle, Raises
    <2>2. (Legal(status[f], "paid") /\ Save(f, "paid")) \/ UNCHANGED status
      BY <2>1 DEF Confirm, ConfirmRaises
    <2>3. g = f BY <1>1, <2>2, SaveElsewhere
    <2>4. <<status[f], status'[f]>> \in Allowed
      BY <1>1, <2>2, <2>3, SaveElsewhere DEF Legal
    <2> QED BY <2>3, <2>4 DEF LegalMove
  <1>3. CASE ~Paid[b]
    <2>1. PushFailed(f) /\ ~PushFailedRaises(f) BY <1>3 DEF Handle, Raises
    <2>2. (Legal(status[f], "failed") /\ Save(f, "failed")) \/ UNCHANGED status
      BY <2>1 DEF PushFailed, PushFailedRaises
    <2>3. g = f BY <1>1, <2>2, SaveElsewhere
    <2>4. <<status[f], status'[f]>> \in Allowed
      BY <1>1, <2>2, <2>3, SaveElsewhere DEF Legal
    <2> QED BY <2>3, <2>4 DEF LegalMove
  <1> QED BY <1>2, <1>3

LEMMA StepLegit ==
  ASSUME TypeOK, [Next]_vars, NEW g \in Flows, status'[g] # status[g]
  PROVE  LegalMove(g)
  <1>1. FlowTypeOK BY DEF TypeOK
  <1> USE DEF rows
  <1>2. CASE UNCHANGED vars BY <1>2 DEF vars, flowVars
  <1>3. ASSUME NEW f \in Flows, Elapse(f) PROVE FALSE BY <1>3 DEF Elapse
  <1>4. ASSUME NEW s \in Sweeps, SweepLists(s) \/ SweepDies(s) PROVE FALSE
    BY <1>4 DEF SweepLists, SweepDies
  <1>5. ASSUME NEW s \in Sweeps, NEW f \in Flows, SweepExpires(s, f) PROVE LegalMove(g)
    <2>1. f \in listed[s] /\ Save(f, "expired") BY <1>5 DEF SweepExpires
    <2>2. g = f BY <1>1, <2>1, SaveElsewhere
    <2>3. f \notin listed'[s] BY <1>1, <1>5 DEF SweepExpires, FlowTypeOK
    <2>4. <<"awaiting", status'[f]>> \in Allowed BY <1>1, <2>1, SaveElsewhere DEF Allowed
    <2> QED BY <2>1, <2>2, <2>3, <2>4 DEF LegalMove, SweepWrites
  <1>6. ASSUME NEW c \in Calls,
               Load(c) \/ Upload(c) \/ Verify(c) \/ Refund(c) \/ RefundRefused(c)
        PROVE  LegalMove(g)
    BY <1>1, <1>6, CallLegit DEF Load, RefundRefused
  <1>7. ASSUME NEW d \in Deliveries, Pipeline(d) \/ Crash(d) PROVE LegalMove(g)
    <2>1. CASE Handle(d) BY <2>1, HandleLegit
    <2>2. CASE ~Handle(d)
      <3>1. UNCHANGED flowVars
        BY <1>7, <2>2 DEF Pipeline, Crash, LookUp, Insert, Claim, HandleRaises, Release, Finalise
      <3> QED BY <3>1 DEF flowVars
    <2> QED BY <2>1, <2>2
  <1> QED BY <1>2, <1>3, <1>4, <1>5, <1>6, <1>7 DEF Next, FlowNext

\* Every new status of a flow is an edge of ALLOWED_TRANSITIONS from the status that its
\* writer read, be it the row's or that of a stale copy.
THEOREM GraphFollowed == Spec => GraphUnlessStale
  <1>1. TypeOK /\ [Next]_vars => [LegalMoves]_status BY StepLegit DEF LegalMoves
  <1> QED BY <1>1, TypeCorrect, PTL DEF Spec, GraphUnlessStale

-----------------------------------------------------------------------------
(* Acknowledgements *)

LEMMA AckInit == Init => AckInv
  BY DEF Init, AckInv

\* An event that was handled or spoiled stays so, and its handler leaves it one of the two.
LEMMA SettledStays ==
  ASSUME TypeOK, HInv, [Next]_vars, NEW e \in Events,
         handled[e] = 1 \/ Handling(e) \/ e \in spoiled
  PROVE  handled'[e] = 1 \/ Handling(e)' \/ e \in spoiled'
  <1> USE DEF TypeOK, Handling, Goto
  <1>1. CASE UNCHANGED vars \/ (FlowNext /\ UNCHANGED hook)
    BY <1>1 DEF vars, hook
  <1>2. ASSUME NEW d \in Deliveries, Pipeline(d) \/ Crash(d)
        PROVE  handled'[e] = 1 \/ Handling(e)' \/ e \in spoiled'
    <2>1. Event(d) \in Events BY EventType
    <2>2. CASE Handle(d)
      <3>1. /\ handled' = [handled EXCEPT ![Event(d)] = @ + 1]
            /\ step' = [step EXCEPT ![d] = "finalise"] /\ spoiled' = spoiled
            /\ Holds(d)
        BY <2>2 DEF Handle, Event, Holds
      <3>2. handled[Event(d)] = 0 BY <3>1 DEF HInv, ReceiptInv
      <3>3. CASE e = Event(d) BY <2>1, <3>1, <3>2, <3>3
      <3>4. CASE e # Event(d)
        <4>1. handled'[e] = handled[e] BY <3>1, <3>4
        <4>2. Handling(e) => Handling(e)' BY <3>1, <3>4 DEF Event
        <4> QED BY <3>1, <4>1, <4>2
      <3> QED BY <3>3, <3>4
    <2>3. CASE HandleRaises(d) \/ Crash(d)
      <3>1. /\ handled' = handled /\ spoiled' = spoiled \cup {Event(d)}
            /\ \E next \in Steps : step' = [step EXCEPT ![d] = next]
        BY <2>3 DEF HandleRaises, Crash, Steps
      <3>2. \A c \in Deliveries \ {d} : step'[c] = step[c] BY <3>1
      <3> QED BY <3>1, <3>2 DEF Event
    <2>4. CASE LookUp(d) \/ Insert(d) \/ Claim(d) \/ Release(d) \/ Finalise(d)
      <3>1. handled' = handled /\ spoiled' = spoiled /\ step[d] # "handle"
        BY <2>4 DEF LookUp, Insert, Claim, Release, Finalise
      <3>2. \A c \in Deliveries \ {d} : step'[c] = step[c]
        BY <2>4 DEF LookUp, Insert, Claim, Release, Finalise
      <3> QED BY <3>1, <3>2 DEF Event
    <2> QED BY <1>2, <2>2, <2>3, <2>4 DEF Pipeline
  <1> QED BY <1>1, <1>2 DEF Next

\* So does an event that is answered for: a claim that finds the receipt leaves its event
\* to whoever holds that.
LEMMA AnsweredStays ==
  ASSUME TypeOK, HInv, AckInv, [Next]_vars, NEW e \in Events, Answered(e)
  PROVE  Answered(e)'
  <1>1. CASE handled[e] = 1 \/ Handling(e) \/ e \in spoiled
    BY <1>1, SettledStays DEF Answered, Handling, InFlight, Event
  <1>2. CASE \E c \in Deliveries : Event(c) = e /\ step[c] = "claim"
    <2>1. PICK c \in Deliveries : Event(c) = e /\ step[c] = "claim" BY <1>2
    <2>2. CASE Claim(c)
      <3>1. CASE Event(c) \in receipts
        BY <2>1, <3>1, <1>1 DEF AckInv
      <3>2. CASE Event(c) \notin receipts
        <4>1. step'[c] = "handle" BY <2>2, <3>2 DEF Claim, Goto, TypeOK
        <4> QED BY <2>1, <4>1 DEF Answered, InFlight, Event
      <3> QED BY <3>1, <3>2
    <2>3. CASE Crash(c)
      <3>1. e \in spoiled' BY <2>1, <2>3 DEF Crash
      <3> QED BY <3>1 DEF Answered
    <2>4. CASE ~Claim(c) /\ ~Crash(c)
      <3>1. step'[c] = "claim"
        <4>1. CASE UNCHANGED vars \/ (FlowNext /\ UNCHANGED hook)
          BY <2>1, <4>1 DEF vars, hook
        <4>2. ASSUME NEW d \in Deliveries, Pipeline(d) \/ Crash(d) PROVE step'[c] = "claim"
          <5>1. d # c
            BY <2>1, <2>4, <4>2 DEF Pipeline, LookUp, Insert, Handle, HandleRaises, Release,
                                    Finalise
          <5>2. step'[c] = step[c]
            BY <4>2, <5>1 DEF Pipeline, Crash, LookUp, Insert, Claim, Handle, HandleRaises,
                              Release, Finalise, Goto, TypeOK
          <5> QED BY <2>1, <5>2
        <4> QED BY <4>1, <4>2 DEF Next
      <3> QED BY <2>1, <3>1 DEF Answered, InFlight, Event
    <2> QED BY <2>2, <2>3, <2>4
  <1> QED BY <1>1, <1>2 DEF Answered, InFlight, Handling

LEMMA BodyEvent == \A b \in Bodies : EventOf[b] \in Events
  BY DEF Events

LEMMA AckIdle ==
  ASSUME TypeOK, HInv, AckInv, [Next]_vars, UNCHANGED <<inbox, receipts, step, reply>>
  PROVE  AckInv'
  <1>1. \A e \in receipts' : handled'[e] = 1 \/ Handling(e)' \/ e \in spoiled'
    BY SettledStays DEF AckInv, TypeOK
  <1>2. \A b \in Bodies : inbox'[b] \in {"received", "processed"} => Answered(EventOf[b])'
    BY BodyEvent, AnsweredStays DEF AckInv
  <1>3. \A d \in Deliveries :
          step'[d] \in {"finalise", "done"} /\ reply'[d] = "ok" => Answered(Event(d))'
    BY EventType, AnsweredStays DEF AckInv
  <1> QED BY <1>1, <1>2, <1>3 DEF AckInv, Event

\* What a step of one delivery may do to the receipts, the rows and its answer.
LEMMA AckMoves ==
  ASSUME TypeOK, HInv, AckInv, NEW d \in Deliveries, Pipeline(d) \/ Crash(d)
  PROVE  /\ receipts' \subseteq receipts \cup {Event(d)}
         /\ Event(d) \in receipts' \ receipts => step'[d] = "handle"
         /\ \A b \in Bodies \ {BodyOf[d]} : inbox'[b] = inbox[b]
         /\ inbox'[BodyOf[d]] \in {"received", "processed"} =>
              inbox'[BodyOf[d]] = inbox[BodyOf[d]] \/ step'[d] = "claim" \/ Answered(Event(d))
         /\ \A c \in Deliveries \ {d} : step'[c] = step[c] /\ reply'[c] = reply[c]
         /\ step'[d] \in {"finalise", "done"} /\ reply'[d] = "ok" =>
              Answered(Event(d)) \/ Event(d) \in receipts \/ handled'[Event(d)] = 1
  <1> DEFINE b == BodyOf[d]
  <1>1. b \in Bodies /\ Event(d) = EventOf[b] BY WebhookAssumption DEF Event
  <1>2. inbox[b] \in {"received", "processed"} => Answered(Event(d)) BY <1>1 DEF AckInv
  <1> USE DEF TypeOK, Goto, Outcome
  <1>3. CASE LookUp(d)
    <2>1. UNCHANGED <<inbox, receipts>> BY <1>3 DEF LookUp
    <2>2. \A c \in Deliveries \ {d} : step'[c] = step[c] /\ reply'[c] = reply[c]
      BY <1>3 DEF LookUp
    <2>3. step'[d] \in {"finalise", "done"} => inbox[b] = "processed" BY <1>3 DEF LookUp
    <2> QED BY <1>2, <2>1, <2>2, <2>3
  <1>4. CASE Insert(d)
    <2>1. UNCHANGED receipts BY <1>4 DEF Insert
    <2>2. \A c \in Deliveries \ {d} : step'[c] = step[c] /\ reply'[c] = reply[c]
      BY <1>4 DEF Insert
    <2>3. CASE inbox[b] = "none"
      <3>1. inbox' = [inbox EXCEPT ![b] = "received"] /\ step'[d] = "claim"
        BY <1>4, <2>3 DEF Insert
      <3> QED BY <1>1, <2>1, <2>2, <3>1
    <2>4. CASE inbox[b] # "none"
      <3>1. UNCHANGED inbox /\ reply'[d] = Stored(b) BY <1>4, <2>4 DEF Insert
      <3>2. Stored(b) = "ok" => inbox[b] \in {"received", "processed"}
        BY <1>1, <2>4 DEF Stored
      <3> QED BY <1>2, <2>1, <2>2, <3>1, <3>2
    <2> QED BY <2>3, <2>4
  <1>5. CASE Claim(d)
    <2>1. UNCHANGED inbox BY <1>5 DEF Claim
    <2>2. \A c \in Deliveries \ {d} : step'[c] = step[c] /\ reply'[c] = reply[c]
      BY <1>5 DEF Claim
    <2>3. CASE Event(d) \in receipts
      <3>1. UNCHANGED receipts BY <1>5, <2>3 DEF Claim
      <3> QED BY <2>1, <2>2, <2>3, <3>1
    <2>4. CASE Event(d) \notin receipts
      <3>1. receipts' = receipts \cup {Event(d)} /\ step'[d] = "handle"
        BY <1>5, <2>4 DEF Claim
      <3> QED BY <2>1, <2>2, <3>1
    <2> QED BY <2>3, <2>4
  <1>6. CASE Handle(d)
    <2>1. UNCHANGED <<inbox, receipts>> BY <1>6 DEF Handle
    <2>2. \A c \in Deliveries \ {d} : step'[c] = step[c] /\ reply'[c] = reply[c]
      BY <1>6 DEF Handle
    <2>3. handled[Event(d)] = 0 BY <1>6 DEF Handle, HInv, ReceiptInv, Holds
    <2>4. handled'[Event(d)] = 1 BY <1>6, <2>3, EventType DEF Handle, Event
    <2> QED BY <2>1, <2>2, <2>4
  <1>7. CASE HandleRaises(d)
    BY <1>7 DEF HandleRaises
  <1>8. CASE Release(d)
    BY <1>8 DEF Release
  <1>9. CASE Finalise(d)
    <2>1. UNCHANGED <<receipts, reply>> /\ step[d] = "finalise" BY <1>9 DEF Finalise
    <2>2. reply[d] = "ok" => Answered(Event(d)) BY <2>1 DEF AckInv
    <2>3. \A c \in Deliveries \ {d} : step'[c] = step[c] BY <1>9 DEF Finalise
    <2>4. inbox' = [inbox EXCEPT ![b] = IF reply[d] = "ok" THEN "processed" ELSE "failed"]
      BY <1>9 DEF Finalise
    <2> QED BY <1>1, <2>1, <2>2, <2>3, <2>4
  <1>10. CASE Crash(d)
    BY <1>10 DEF Crash
  <1> QED BY <1>3, <1>4, <1>5, <1>6, <1>7, <1>8, <1>9, <1>10 DEF Pipeline

LEMMA AckNext == TypeOK /\ HInv /\ AckInv /\ [Next]_vars => AckInv'
  <1> SUFFICES ASSUME TypeOK, HInv, AckInv, [Next]_vars PROVE AckInv' OBVIOUS
  <1>1. CASE UNCHANGED vars \/ (FlowNext /\ UNCHANGED hook)
    BY <1>1, AckIdle DEF vars, hook
  <1>2. ASSUME NEW d \in Deliveries, Pipeline(d) \/ Crash(d) PROVE AckInv'
    <2>1. BodyOf[d] \in Bodies /\ Event(d) \in Events /\ Event(d) = EventOf[BodyOf[d]]
      BY WebhookAssumption, EventType DEF Event
    <2>2. ASSUME NEW e \in receipts' PROVE handled'[e] = 1 \/ Handling(e)' \/ e \in spoiled'
      <3>1. CASE e \in receipts BY <3>1, SettledStays DEF AckInv, TypeOK
      <3>2. CASE e \notin receipts
        <4>1. e = Event(d) /\ step'[d] = "handle" BY <1>2, <2>2, <3>2, AckMoves
        <4> QED BY <4>1 DEF Handling, Event
      <3> QED BY <3>1, <3>2
    <2>3. Answered(Event(d)) => Answered(Event(d))' BY <2>1, AnsweredStays
    <2>4. step'[d] = "claim" => Answered(Event(d))' BY DEF Answered, InFlight, Event
    <2>5. ASSUME NEW b \in Bodies, inbox'[b] \in {"received", "processed"}
          PROVE  Answered(EventOf[b])'
      <3>1. CASE inbox'[b] = inbox[b]
        BY <2>5, <3>1, BodyEvent, AnsweredStays DEF AckInv
      <3>2. CASE inbox'[b] # inbox[b]
        <4>1. b = BodyOf[d] BY <1>2, <3>2, AckMoves
        <4>2. step'[d] = "claim" \/ Answered(Event(d)) BY <1>2, <2>5, <3>2, <4>1, AckMoves
        <4>3. Answered(Event(d))' BY <2>3, <2>4, <4>2
        <4> QED BY <2>1, <4>1, <4>3 DEF Event
      <3> QED BY <3>1, <3>2
    <2>6. ASSUME NEW c \in Deliveries, step'[c] \in {"finalise", "done"}, reply'[c] = "ok"
          PROVE  Answered(Event(c))'
      <3>1. CASE c = d
        <4>1. Answered(Event(d)) \/ Event(d) \in receipts \/ handled'[Event(d)] = 1
          BY <1>2, <2>6, <3>1, AckMoves
        <4>2. Event(d) \in receipts => Answered(Event(d))
          BY DEF AckInv, Answered, Handling, InFlight
        <4>3. handled'[Event(d)] = 1 => Answered(Event(d))' BY DEF Answered, Event
        <4> QED BY <2>3, <3>1, <4>1, <4>2, <4>3
      <3>2. CASE c # d
        <4>1. step'[c] = step[c] /\ reply'[c] = reply[c] BY <1>2, <3>2, AckMoves
        <4>2. Answered(Event(c)) BY <2>6, <4>1 DEF AckInv
        <4> QED BY <4>2, EventType, AnsweredStays
      <3> QED BY <3>1, <3>2
    <2> QED BY <2>2, <2>5, <2>6 DEF AckInv, Event
  <1> QED BY <1>1, <1>2 DEF Next

\* An event that was answered with 200 has been handled or is being handled, unless one
\* of its deliveries raised or died.
THEOREM AcksAreEarned == Spec => []AckedUnlessSpoiled
  <1>1. HInv /\ AckInv => AckedUnlessSpoiled
    BY DEF AckInv, AckedUnlessSpoiled, Acked, Answered
  <1> QED BY <1>1, AckInit, AckNext, ReceiptInit, ReceiptNext, TypeCorrect, PTL DEF Spec
=============================================================================
