------------------------------ MODULE Webhook ------------------------------
(***************************************************************************)
(* The payment provider's notifications, from the @verified_webhook        *)
(* pipeline of inbound_webhooks through AppypayWebhookView to the payment  *)
(* flows of PaymentFlow.                                                   *)
(*                                                                         *)
(* The provider delivers a notification until it is answered with 200, and *)
(* may deliver it more than once at a time.  Two layers deduplicate: the   *)
(* InboundWebhookEvent row of the body's hash, and the receipt             *)
(* (ProcessedWebhookEvent) of the event's key.  Only notifications with a  *)
(* valid signature are modelled, and a failing audit row is left out.      *)
(***************************************************************************)
EXTENDS PaymentFlow

CONSTANTS Bodies,
          EventOf,  \* the event key in a body
          FlowOf,   \* its merchant_order_id
          Paid,     \* its status is PAID
          Exact,    \* its amount is the flow's
          Deliveries, BodyOf,
          MaxFaults \* bound on crashes and database errors

Events == {EventOf[b] : b \in Bodies}

ASSUME WebhookAssumption ==
  /\ DOMAIN EventOf = Bodies
  /\ FlowOf \in [Bodies -> Flows]
  /\ Paid \in [Bodies -> BOOLEAN] /\ Exact \in [Bodies -> BOOLEAN]
  /\ BodyOf \in [Deliveries -> Bodies]
  /\ MaxFaults \in Nat

VARIABLES
  inbox,     \* InboundWebhookEvent by body: "none", "received", "failed", "processed"
  receipts,  \* event keys with a ProcessedWebhookEvent
  step,      \* by delivery
  reply,     \* by delivery: its response, once the handler has one
  (* Observation. *)
  handled,   \* by event, how often its handler committed
  spoiled,   \* events with a delivery that raised or died
  faults

hook == <<inbox, receipts, step, reply, handled, spoiled, faults>>
vars == <<flowVars, hook>>

Steps   == {"start", "insert", "claim", "handle", "release", "finalise", "done"}
Replies == {"none", "ok", "error", "lost"}

Init ==
  /\ FlowInit
  /\ inbox   = [b \in Bodies |-> "none"]
  /\ receipts = {}
  /\ step    = [d \in Deliveries |-> "start"]
  /\ reply   = [d \in Deliveries |-> "none"]
  /\ handled = [e \in Events |-> 0]
  /\ spoiled = {}
  /\ faults  = 0

-----------------------------------------------------------------------------
(* Helpers. *)

Event(d) == EventOf[BodyOf[d]]

Goto(d, next) == step' = [step EXCEPT ![d] = next]

\* The handler's outcome, on its way to the provider.
Outcome(d, what) == reply' = [reply EXCEPT ![d] = what]

\* What the row of a body answers: a row that was not finalised has the default 200.
Stored(b) == IF inbox[b] = "failed" THEN "error" ELSE "ok"

-----------------------------------------------------------------------------
(* The pipeline *)

\* The lookup of the body's row: a settled one is replayed, a retryable one runs
\* the pipeline again.
LookUp(d) ==
  LET b == BodyOf[d] IN
  /\ step[d] = "start"
  /\ IF inbox[b] = "processed"
       THEN Goto(d, "done") /\ Outcome(d, Stored(b))
       ELSE Goto(d, IF inbox[b] = "none" THEN "insert" ELSE "claim") /\ UNCHANGED reply
  /\ UNCHANGED <<flowVars, inbox, receipts, handled, spoiled, faults>>

\* The row is inserted, or a concurrent delivery was first and its row is replayed.
Insert(d) ==
  LET b == BodyOf[d] IN
  /\ step[d] = "insert"
  /\ IF inbox[b] = "none"
       THEN inbox' = [inbox EXCEPT ![b] = "received"] /\ Goto(d, "claim") /\ UNCHANGED reply
       ELSE UNCHANGED inbox /\ Goto(d, "done") /\ Outcome(d, Stored(b))
  /\ UNCHANGED <<flowVars, receipts, handled, spoiled, faults>>

\* Mutant: get_or_create() for the receipt.
ClaimAnyway(d) ==
  /\ step[d] = "claim"
  /\ receipts' = receipts \cup {Event(d)}
  /\ Goto(d, "handle")
  /\ UNCHANGED <<flowVars, inbox, reply, handled, spoiled, faults>>

\* Mutant: the provider is answered first and the handler left for later.
ClaimAnswers(d) ==
  /\ step[d] = "claim"
  /\ receipts' = receipts \cup {Event(d)}
  /\ Goto(d, "finalise") /\ Outcome(d, "ok")
  /\ UNCHANGED <<flowVars, inbox, handled, spoiled, faults>>

\* _claim_event(): the receipt is committed before the handler runs; a duplicate
\* is answered as a replay.
Claim(d) ==
  /\ step[d] = "claim"
  /\ IF Event(d) \in receipts
       THEN UNCHANGED receipts /\ Goto(d, "finalise") /\ Outcome(d, "ok")
       ELSE receipts' = receipts \cup {Event(d)} /\ Goto(d, "handle") /\ UNCHANGED reply
  /\ UNCHANGED <<flowVars, inbox, handled, spoiled, faults>>

Raises(b) ==
  IF Paid[b] THEN ConfirmRaises(FlowOf[b], Exact[b]) ELSE PushFailedRaises(FlowOf[b])

\* The handler commits.
Handle(d) ==
  LET b == BodyOf[d] IN
  /\ step[d] = "handle" /\ ~Raises(b)
  /\ IF Paid[b] THEN Confirm(FlowOf[b], Exact[b]) ELSE PushFailed(FlowOf[b])
  /\ handled' = [handled EXCEPT ![EventOf[b]] = @ + 1]
  /\ Goto(d, "finalise") /\ Outcome(d, "ok")
  /\ UNCHANGED <<inbox, receipts, spoiled, faults>>

\* The handler raises: IllegalTransition, or an error of the database.
HandleRaises(d) ==
  /\ step[d] = "handle"
  /\ \/ Raises(BodyOf[d]) /\ UNCHANGED faults
     \/ faults < MaxFaults /\ faults' = faults + 1
  /\ spoiled' = spoiled \cup {Event(d)}
  /\ Goto(d, "release")
  /\ UNCHANGED <<flowVars, inbox, receipts, reply, handled>>

\* The receipt is deleted, for the provider's retry.
Release(d) ==
  /\ step[d] = "release"
  /\ receipts' = receipts \ {Event(d)}
  /\ Goto(d, "finalise") /\ Outcome(d, "error")
  /\ UNCHANGED <<flowVars, inbox, handled, spoiled, faults>>

\* _finalise() stamps the row, whoever stamped it before, and the provider is answered.
Finalise(d) ==
  /\ step[d] = "finalise"
  /\ inbox' = [inbox EXCEPT ![BodyOf[d]] = IF reply[d] = "ok" THEN "processed" ELSE "failed"]
  /\ Goto(d, "done")
  /\ UNCHANGED <<flowVars, receipts, reply, handled, spoiled, faults>>

\* The process dies; the provider hears nothing.
Crash(d) ==
  /\ step[d] \in {"insert", "claim", "handle", "release", "finalise"}
  /\ faults < MaxFaults /\ faults' = faults + 1
  /\ spoiled' = spoiled \cup {Event(d)}
  /\ Goto(d, "done") /\ Outcome(d, "lost")
  /\ UNCHANGED <<flowVars, inbox, receipts, handled>>

-----------------------------------------------------------------------------
Pipeline(d) ==
  \/ LookUp(d) \/ Insert(d) \/ Claim(d)
  \/ Handle(d) \/ HandleRaises(d) \/ Release(d) \/ Finalise(d)

Next ==
  \/ FlowNext /\ UNCHANGED hook
  \/ \E d \in Deliveries : Pipeline(d) \/ Crash(d)

Spec == Init /\ [][Next]_vars

-----------------------------------------------------------------------------
(* Properties *)

TypeOK ==
  /\ FlowTypeOK
  /\ inbox \in [Bodies -> {"none", "received", "failed", "processed"}]
  /\ receipts \subseteq Events /\ spoiled \subseteq Events
  /\ step \in [Deliveries -> Steps] /\ reply \in [Deliveries -> Replies]
  /\ handled \in [Events -> Nat] /\ faults \in Nat

\* The handler of an event commits at most once, whatever is redelivered, released
\* and redelivered again, under one body or another.
HandledOnce == \A e \in Events : handled[e] <= 1

\* An event that was answered with 200 has been handled or is being handled, unless
\* one of its deliveries raised or died.
Acked(d)    == step[d] = "done" /\ reply[d] = "ok"
InFlight(e) == \E d \in Deliveries : Event(d) = e /\ step[d] \in {"claim", "handle"}

AckedUnlessSpoiled ==
  \A d \in Deliveries : Acked(d) =>
    handled[Event(d)] = 1 \/ InFlight(Event(d)) \/ Event(d) \in spoiled

\* A receipt without a handled event is held by one delivery, or by a dead one.
Holds(d) == step[d] \in {"handle", "release"}

ReceiptInv ==
  /\ \A c, d \in Deliveries : Holds(c) /\ Holds(d) /\ Event(c) = Event(d) => c = d
  /\ \A d \in Deliveries : Holds(d) => Event(d) \in receipts /\ handled[Event(d)] = 0
  /\ \A e \in Events : handled[e] <= 1 /\ (handled[e] = 1 => e \in receipts)

\* And for AckedUnlessSpoiled: who finds a receipt may answer 200, and who finds a row
\* that has not failed.
Handling(e) == \E d \in Deliveries : Event(d) = e /\ step[d] = "handle"
Answered(e) == handled[e] = 1 \/ InFlight(e) \/ e \in spoiled

AckInv ==
  /\ \A e \in receipts : handled[e] = 1 \/ Handling(e) \/ e \in spoiled
  /\ \A b \in Bodies : inbox[b] \in {"received", "processed"} => Answered(EventOf[b])
  /\ \A d \in Deliveries :
       step[d] \in {"finalise", "done"} /\ reply[d] = "ok" => Answered(Event(d))
=============================================================================
