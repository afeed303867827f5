------------------------------ MODULE Disputes ------------------------------
(***************************************************************************)
(* Disputes and the seller's earnings they freeze.  A payment leaves an    *)
(* EarningsHold for its order; release_held_earnings() pays the holds that *)
(* are due to the seller's wallet, an open dispute freezes the hold of its *)
(* order, and its resolution, by an admin or by the SLA sweep when the     *)
(* seller stays silent, gives the hold back to the sweep or to the refund. *)
(*                                                                         *)
(* One hold per order.  release_held_earnings() has no transaction: every  *)
(* statement commits by itself, and it may run twice at once or die in the *)
(* middle.  It locks the wallet all the same, which SQLite ignores and     *)
(* PostgreSQL refuses (LocksRefused): there no hold is ever paid.  Nothing *)
(* here promises that one is.  What the wallet adds up to is left out.     *)
(***************************************************************************)
EXTENDS Integers, FiniteSets

CONSTANTS Orders,
          Releases,  \* runs of release_held_earnings()
          Sweeps,    \* runs of sweep_dispute_sla()
          MaxDeaths, \* bound: runs that die
          LocksRefused \* the database refuses a row lock outside of a transaction

ASSUME RunsAssumption == IsFiniteSet(Releases) /\ LocksRefused \in BOOLEAN

VARIABLES
  (* The Dispute of the order. *)
  dispute,     \* its status, or "none"
  resolution,  \* for whom: "none", "seller" or "buyer"
  answered,    \* last_seller_message_at is set
  late,        \* auto_resolve_at is past
  refundRows,  \* by order: its Refund rows, two at most
  (* Its EarningsHold. *)
  due,         \* release_at is past
  is_disputed, released, refunded,
  paid,        \* by order: how often the wallet was credited
  (* The tasks. *)
  todo,        \* by release: holds it listed and has not paid
  paying,      \* by release: the holds it has paid and not marked, one at most
  overdue,     \* by sweep: disputes it listed and has not come to
  silent,      \* by sweep: those among them whose copy has no answer
  staffed,     \* the user the sweeps rule as exists and is staff or superuser
  deaths,
  (* What had happened when the dispute was opened. *)
  before,      \* credits of its hold
  early        \* runs that had its hold on their list

disputes == <<dispute, resolution, answered, late, refundRows>>
holds    == <<due, is_disputed, released, refunded>>
runs     == <<todo, paying, deaths>>
slas     == <<overdue, silent, staffed>>
history  == <<before, early>>
vars     == <<disputes, holds, paid, runs, slas, history>>

Init ==
  /\ dispute = [o \in Orders |-> "none"] /\ resolution = [o \in Orders |-> "none"]
  /\ answered = {} /\ late = {} /\ refundRows = [o \in Orders |-> 0]
  /\ due = {} /\ is_disputed = {} /\ released = {} /\ refunded = {}
  /\ paid = [o \in Orders |-> 0]
  /\ todo = [r \in Releases |-> {}] /\ paying = [r \in Releases |-> {}] /\ deaths = 0
  /\ overdue = [s \in Sweeps |-> {}] /\ silent = [s \in Sweeps |-> {}]
  /\ staffed \in BOOLEAN
  /\ before = [o \in Orders |-> 0] /\ early = [o \in Orders |-> {}]

\* Seven days after the payment.
FallsDue(o) ==
  /\ o \notin due /\ due' = due \cup {o}
  /\ UNCHANGED <<disputes, is_disputed, released, refunded, paid, runs, slas, history>>

-----------------------------------------------------------------------------
(* The dispute *)

\* Mutant: the holds are left alone.
FreezeNothing(o) == {}

\* _freeze_holds_for_order().
Freeze(o) == {o} \ released

\* The runs that still have the hold on their list.
Listing(o) == {r \in Releases : o \in todo[r]}

\* open_dispute(), under the lock of the order; an order is disputed once.
Open(o) ==
  /\ dispute[o] = "none"
  /\ dispute' = [dispute EXCEPT ![o] = "open"]
  /\ is_disputed' = is_disputed \cup Freeze(o)
  /\ before' = [before EXCEPT ![o] = paid[o]]
  /\ early' = [early EXCEPT ![o] = Listing(o)]
  /\ UNCHANGED <<resolution, answered, late, refundRows, due, released, refunded, paid, runs, slas>>

\* add_message() of the seller, who may have seen the dispute before it was closed.
Answer(o) ==
  /\ dispute[o] # "none" /\ o \notin answered
  /\ answered' = answered \cup {o}
  /\ UNCHANGED <<dispute, resolution, late, refundRows, holds, paid, runs, slas, history>>

\* RequestRefundView: two requests may both find no open Refund.
Request(o) ==
  /\ refundRows[o] < 2
  /\ refundRows' = [refundRows EXCEPT ![o] = @ + 1]
  /\ UNCHANGED <<dispute, resolution, answered, late, holds, paid, runs, slas, history>>

\* Mutant: a resolved dispute is resolved again.
AnyDispute(o) == dispute[o] # "none"

\* The row resolve_dispute() locks is not yet resolved.
Resolvable(o) == dispute[o] \in {"open", "under_review"}

\* Mutant: the hold stays frozen.
ThawNothing(o) == {}

\* The holds settled are no longer disputed.
Thaw(o) == {o} \ released

\* get_or_create() raises on two rows, and everything is rolled back.
Decidable(o, for) == Resolvable(o) /\ (for = "buyer" => refundRows[o] <= 1)

\* resolve_dispute(), for the buyer also in part: _settle_holds_for_resolution() and
\* the Refund, found or created.
Resolve(o, for) ==
  /\ dispute' = [dispute EXCEPT ![o] = "resolved"]
  /\ resolution' = [resolution EXCEPT ![o] = for]
  /\ late' = late \ {o}
  /\ is_disputed' = is_disputed \ Thaw(o)
  /\ IF for = "buyer"
       THEN /\ refunded' = refunded \cup ({o} \ released)
            /\ released' = released \cup {o}
            /\ refundRows' = [refundRows EXCEPT ![o] = 1]
            /\ due' = due
       ELSE /\ due' = due \cup ({o} \ released)
            /\ UNCHANGED <<refunded, released, refundRows>>
  /\ UNCHANGED <<answered, paid, runs, history>>

\* AdminResolveDisputeView.
AdminResolves(o, for) == Decidable(o, for) /\ Resolve(o, for) /\ UNCHANGED slas

-----------------------------------------------------------------------------
(* sweep_dispute_sla() *)

\* __sla_bot__, or else the first superuser, comes, goes, or gains or loses its rights.
Staffing ==
  /\ staffed' = ~staffed
  /\ UNCHANGED <<disputes, holds, paid, runs, overdue, silent, history>>

FallsLate(o) ==
  /\ Resolvable(o) /\ o \notin late /\ late' = late \cup {o}
  /\ UNCHANGED <<dispute, resolution, answered, refundRows, holds, paid, runs, slas, history>>

\* Mutant: disputes under review are swept, and no open one.
ReviewedAndLate == {o \in late : dispute[o] = "under_review"}

OpenAndLate == {o \in late : dispute[o] = "open"}

\* The copies it goes through.
SweepLists(s) ==
  /\ overdue[s] = {} /\ OpenAndLate # {}
  /\ overdue' = [overdue EXCEPT ![s] = OpenAndLate]
  /\ silent' = [silent EXCEPT ![s] = OpenAndLate \ answered]
  /\ UNCHANGED <<disputes, holds, paid, runs, staffed, history>>

Drop(s, o) == /\ overdue' = [overdue EXCEPT ![s] = @ \ {o}]
              /\ silent' = [silent EXCEPT ![s] = @ \ {o}]
              /\ UNCHANGED staffed

\* auto_resolve_silent_seller(): the seller answered, an admin shall rule.
SweepEscalates(s, o) ==
  /\ o \in overdue[s] \ silent[s] /\ Drop(s, o)
  /\ dispute' = IF dispute[o] = "open" THEN [dispute EXCEPT ![o] = "under_review"] ELSE dispute
  /\ UNCHANGED <<resolution, answered, late, refundRows, holds, paid, runs, history>>

\* The seller is silent: the buyer wins, if no one resolved the dispute before, if there
\* is a user who may rule, and if get_or_create() does not raise; else the sweep goes on.
SweepResolves(s, o) ==
  /\ o \in silent[s] /\ Drop(s, o)
  /\ IF staffed /\ Decidable(o, "buyer")
       THEN Resolve(o, "buyer")
       ELSE UNCHANGED <<disputes, holds, paid, runs, history>>

-----------------------------------------------------------------------------
(* release_held_earnings() *)

\* Mutant: frozen holds are listed.
AllDue == due \ released

Payable == (due \ released) \ is_disputed

ReleaseLists(r) ==
  /\ todo[r] = {} /\ paying[r] = {} /\ Payable # {}
  /\ todo' = [todo EXCEPT ![r] = Payable]
  /\ UNCHANGED <<disputes, holds, paid, paying, deaths, slas, history>>

Credited(o) == paid[o] + 1

\* The wallet is credited, and the WalletTransaction written; or the lock raises, and
\* the task returns.
Pay(r, o) ==
  /\ o \in todo[r] /\ paying[r] = {}
  /\ todo' = [todo EXCEPT ![r] = IF LocksRefused THEN {} ELSE @ \ {o}]
  /\ paying' = [paying EXCEPT ![r] = IF LocksRefused THEN {} ELSE {o}]
  /\ paid' = [paid EXCEPT ![o] = IF LocksRefused THEN @ ELSE Credited(o)]
  /\ UNCHANGED <<disputes, holds, deaths, slas, history>>

\* hold.released = True.
Mark(r) ==
  /\ paying[r] # {}
  /\ released' = released \cup paying[r]
  /\ paying' = [paying EXCEPT ![r] = {}]
  /\ UNCHANGED <<disputes, due, is_disputed, refunded, paid, todo, deaths, slas, history>>

\* The worker dies, or a statement raises and the task returns.
Die(r) ==
  /\ todo[r] # {} \/ paying[r] # {}
  /\ deaths < MaxDeaths /\ deaths' = deaths + 1
  /\ todo' = [todo EXCEPT ![r] = {}] /\ paying' = [paying EXCEPT ![r] = {}]
  /\ UNCHANGED <<disputes, holds, paid, slas, history>>

-----------------------------------------------------------------------------
Release(r) == ReleaseLists(r) \/ (\E o \in Orders : Pay(r, o)) \/ Mark(r)
Sweep(s)   == SweepLists(s) \/ (\E o \in Orders : SweepEscalates(s, o) \/ SweepResolves(s, o))

Next ==
  \/ \E o \in Orders : \/ FallsDue(o) \/ FallsLate(o)
                       \/ Open(o) \/ Answer(o) \/ Request(o)
                       \/ \E for \in {"seller", "buyer"} : AdminResolves(o, for)
  \/ Staffing
  \/ \E s \in Sweeps : Sweep(s)
  \/ \E r \in Releases : Release(r) \/ Die(r)

\* Time passes, and the beat schedule starts the sweep again and again; no admin is
\* bound to rule, no hold to be released.
Fairness ==
  /\ \A o \in Orders : WF_vars(FallsLate(o))
  /\ \A s \in Sweeps : WF_vars(Sweep(s))

Spec     == Init /\ [][Next]_vars
FairSpec == Spec /\ Fairness

-----------------------------------------------------------------------------
(* Properties *)

TypeOK ==
  /\ dispute \in [Orders -> {"none", "open", "under_review", "resolved"}]
  /\ resolution \in [Orders -> {"none", "seller", "buyer"}]
  /\ answered \subseteq Orders /\ late \subseteq Orders
  /\ refundRows \in [Orders -> Nat]
  /\ due \subseteq Orders /\ is_disputed \subseteq Orders
  /\ released \subseteq Orders /\ refunded \subseteq Orders
  /\ paid \in [Orders -> Nat] /\ before \in [Orders -> Nat]
  /\ todo \in [Releases -> SUBSET Orders] /\ paying \in [Releases -> SUBSET Orders]
  /\ overdue \in [Sweeps -> SUBSET Orders] /\ silent \in [Sweeps -> SUBSET Orders]
  /\ early \in [Orders -> SUBSET Releases]
  /\ staffed \in BOOLEAN
  /\ deaths \in Nat

\* The hold, the dispute and the refund agree, whether the admin or the sweep came
\* first: a hold is refunded only where the dispute was resolved for the buyer, and one
\* resolved for the buyer has a Refund and is not left to the seller.
SettledAsResolved ==
  \A o \in Orders :
    /\ o \in refunded => resolution[o] = "buyer"
    /\ resolution[o] = "buyer" => o \in released /\ refundRows[o] > 0

\* Until the dispute is resolved its hold is frozen, unless it had been released.
FrozenWhileOpen == \A o \in Orders : Resolvable(o) => o \in is_disputed \cup released

\* From its opening on, a dispute the buyer wins costs the platform no more than the
\* credits of the runs that had listed the hold before.
LatePaysAreEarly ==
  \A o \in refunded : paid[o] <= before[o] + Cardinality(early[o])

\* While it is frozen, and once it is refunded, the hold comes on no list: every
\* credit takes it off one it was on when the dispute was opened.
PayBound ==
  \A o \in is_disputed \cup refunded :
    paid[o] + Cardinality(Listing(o)) <= before[o] + Cardinality(early[o])

\* With the statuses: a resolution goes with a resolved dispute, a frozen hold with
\* one that is not, and what is refunded is released.
StatusInv ==
  /\ refunded \subseteq released
  /\ \A o \in Orders : resolution[o] # "none" <=> dispute[o] = "resolved"
  /\ \A o \in Orders : dispute[o] = "none" => o \notin is_disputed

\* Once the sweep has a user who may rule, a silent seller does not keep a dispute
\* open: it ends, or two Refund rows make every resolution for the buyer raise.
SilenceEnds ==
  <>[]staffed => \A o \in Orders :
    dispute[o] = "open" ~> (dispute[o] # "open" \/ refundRows[o] > 1)

\* Then no earnings stay frozen either, unless the dispute came to wait for its admin.
FreezeEnds ==
  <>[]staffed => \A o \in Orders :
    o \in is_disputed ~> \/ o \notin is_disputed \/ o \in released
                         \/ dispute[o] = "under_review" \/ refundRows[o] > 1
=============================================================================
