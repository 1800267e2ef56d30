----------------------------- MODULE BillingOps -----------------------------
(***************************************************************************)
(* What an event of a payment provider does to the rows of the database:   *)
(* backend/apps/billing_api/process_webhook.py without its transactions.   *)
(* f is the rows as the event finds them; an effect is the rows it writes. *)
(*                                                                         *)
(* Amounts, currencies, dates and plan codes are left out: nothing below   *)
(* is decided by them.  Neither is anything decided by the status of a     *)
(* subscription, but it is kept: other services read it.                   *)
(***************************************************************************)
EXTENDS TLC

CONSTANTS
  Events, Clients, Subs, Invoices,
  Payload,          \* the payload of an event
  Statuses,         \* what a provider calls the status of a subscription
  None              \* an id the payload does not have, a row that is not there

Providers == {"razorpay", "paddle"}

(* paid      invoice.paid; transaction.* paid or completed                 *)
(* failed    payment.failed; transaction.payment_failed                    *)
(* refund    refund.processed; refund.*                                    *)
(* active    subscription.activated, charged, resumed, pending; Paddle's   *)
(*           subscription.* but canceled                                   *)
(* ended     subscription.cancelled, completed, halted; canceled           *)
(* paused    subscription.paused of Razorpay                               *)
(* other     an event of any other type                                    *)
SubscriptionKinds == {"active", "ended", "paused"}
Kinds == {"paid", "failed", "refund", "other"} \cup SubscriptionKinds

ASSUME PayloadIs ==
  Payload \in [Events -> [provider : Providers, kind : Kinds,
                          client : Clients \cup {None}, sub : Subs \cup {None},
                          invoice : Invoices \cup {None}, status : Statuses]]

(* None is no id, no word that a row holds, and no row.                    *)
ASSUME NoneIsNone ==
  /\ None \notin Clients \cup Subs \cup Invoices
  /\ None \notin {"accepted", "ignored", "trial", "starter", "churned"}
  /\ None \notin [client : Clients, status : Statuses \cup {"payment_failed"}]

(* The notes that name the client are given when the provider's object is  *)
(* made (as in routes_rest.py:55), and each of its events copies them: a   *)
(* subscription has one client for life.                                   *)
ASSUME SubsHaveOneClient ==
  \A e, f \in Events :
    LET p == Payload[e]
        q == Payload[f]
    IN p.sub # None /\ p.sub = q.sub /\ None \notin {p.client, q.client}
         => p.client = q.client

(* A refund is kept in bill_invoices as "refund:" and its id, which no     *)
(* invoice or transaction of the provider is called.                       *)
ASSUME RefundsApart ==
  \A e, f \in Events :
    LET p == Payload[e]
        q == Payload[f]
    IN p.kind = "refund" /\ p.invoice # None /\ p.invoice = q.invoice
         => q.kind = "refund"

EventRow(e) == <<"event", e>>       \* bill_events, keyed by the provider's id
ClientRow(c) == <<"client", c>>     \* api_clients.entitlement_plan
SubRow(s) == <<"sub", s>>           \* bill_subscriptions
InvoiceRow(i) == <<"invoice", i>>   \* bill_invoices

BillingRows ==
  {EventRow(e) : e \in Events} \cup {ClientRow(c) : c \in Clients}
    \cup {SubRow(s) : s \in Subs} \cup {InvoiceRow(i) : i \in Invoices}

-----------------------------------------------------------------------------
(* The statements of an event, in the order in which they are executed.    *)
StatementsSubFirst(p) ==
  CASE p.kind = "paid" -> <<"invoice">>
    [] p.kind = "failed" /\ p.provider = "razorpay" -> <<"client", "unpaid">>
    [] p.kind = "failed" /\ p.provider = "paddle" -> <<"client", "invoice">>
    [] p.kind = "refund" /\ p.invoice = None -> <<"client">>
    [] p.kind = "refund" /\ p.invoice # None -> <<"invoice", "client">>
    [] p.kind = "ended" -> <<"subscription", "client">>
    [] p.kind \in {"active", "paused"} -> <<"client", "subscription">>
    [] p.kind = "other" -> <<>>
Statements(p) ==
  CASE p.kind = "paid" -> <<"invoice">>
    [] p.kind = "failed" /\ p.provider = "razorpay" -> <<"client", "unpaid">>
    [] p.kind = "failed" /\ p.provider = "paddle" -> <<"client", "invoice">>
    [] p.kind = "refund" /\ p.invoice = None -> <<"client">>
    [] p.kind = "refund" /\ p.invoice # None -> <<"invoice", "client">>
    [] p.kind \in SubscriptionKinds -> <<"client", "subscription">>
    [] p.kind = "other" -> <<>>

(* The client is named in the notes; a failed payment of Razorpay may name *)
(* a subscription instead, whose client is looked up.                      *)
LooksUp(p) == p.provider = "razorpay" /\ p.kind = "failed" /\ p.client = None
                /\ p.sub # None
ClientOf(p, f) ==
  IF LooksUp(p) /\ f[SubRow(p.sub)] # None THEN f[SubRow(p.sub)].client
                                           ELSE p.client

(* rows == 0: answered "client_not_found" before the subscription; only    *)
(* Razorpay's ended and paused subscriptions are not checked.              *)
ChecksClient(p) ==
  p.kind = "active" \/ (p.kind = "ended" /\ p.provider = "paddle")

(* What a payload lacks, or that its event is not handled, is found before *)
(* the first statement.                                                    *)
Unusable(p) ==
  \/ p.kind = "other"
  \/ p.client = None /\ ~LooksUp(p)
  \/ /\ p.invoice = None
     /\ p.kind = "paid" \/ (p.provider = "paddle" /\ p.kind \in {"failed", "refund"})
  \/ p.kind \in SubscriptionKinds /\ p.sub = None

Ignored(p, c, f) ==
  Unusable(p) \/ c = None \/ (ChecksClient(p) /\ f[ClientRow(c)] = None)

(* "starter" stands for the plan that the notes or bill_plans name.        *)
EntitlementIsKind(p) ==
  IF p.kind \in {"active", "paused"} THEN "starter" ELSE p.kind
Entitlement(p) == IF p.kind \in {"active", "paused"} THEN "starter" ELSE "churned"

(* The provider's own word, stored as it comes; the entitlement is decided *)
(* by the event's type, whatever this word says.                           *)
SubStatus(p) == p.status
InvoiceStatus(p) ==
  CASE p.kind = "paid" -> "paid"
    [] p.kind = "failed" -> "failed"
    [] p.kind = "refund" -> "refunded"

(* An UPDATE writes nothing where there is no row; the other two insert.   *)
StatementRow(s, p, c) ==
  CASE s = "client" -> ClientRow(c)
    [] s = "invoice" -> InvoiceRow(p.invoice)
    [] s \in {"subscription", "unpaid"} -> SubRow(p.sub)
WritesRow(s, p, c, f) ==
  /\ s = "unpaid" => p.sub # None
  /\ s \in {"client", "unpaid"} => f[StatementRow(s, p, c)] # None
Written(s, p, c, f) ==
  CASE s = "client" -> Entitlement(p)
    [] s = "invoice" -> [client |-> c, status |-> InvoiceStatus(p)]
    [] s = "subscription" -> [client |-> c, status |-> SubStatus(p)]
    [] s = "unpaid" -> [f[SubRow(p.sub)] EXCEPT !.status = "payment_failed"]

(* REFERENCES api_clients(id): the insert fails.                           *)
BreaksKey(s, c, f) == s \in {"invoice", "subscription"} /\ f[ClientRow(c)] = None
=============================================================================
