----------------------------- MODULE MCWebhook -----------------------------
(***************************************************************************)
(* Values for the constants of Webhook: a flow paid by reference, whose    *)
(* payment is notified twice and which is refunded in two halves; a push   *)
(* that fails; and a bank transfer.                                        *)
(***************************************************************************)
EXTENDS Webhook, TLC

CONSTANTS ref, push, transfer, paid, failed, paidEvent, failedEvent,
          d1, d2, d3, up, ok, half, rest

MCMethod == [f \in Flows |-> CASE f = ref -> "mcx_reference" [] f = push -> "mcx_push"
                               [] f = transfer -> "bank_transfer"]
MCAmount == [f \in Flows |-> 2]
MCKind   == [c \in Calls |-> CASE c = up -> "upload" [] c = ok -> "verify" [] OTHER -> "refund"]
MCTarget == [c \in Calls |-> IF c \in {up, ok} THEN transfer ELSE ref]
MCCents  == [c \in Calls |-> 1]

MCEventOf == [b \in Bodies |-> IF b = paid THEN paidEvent ELSE failedEvent]
MCFlowOf  == [b \in Bodies |-> IF b = paid THEN ref ELSE push]
MCPaid    == [b \in Bodies |-> b = paid]
MCExact   == [b \in Bodies |-> TRUE]
MCBodyOf  == [d \in Deliveries |-> IF d = d3 THEN failed ELSE paid]

Interchangeable == Permutations({d1, d2}) \cup Permutations({half, rest})
=============================================================================
