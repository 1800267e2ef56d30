----------------------------- MODULE MCBilling ------------------------------
(* Billing for a client with a subscription of Razorpay and a transaction  *)
(* of Paddle, and for an id that is no client's.  The payload of "pending" *)
(* has a status that its entitlement does not follow.                      *)
EXTENDS Billing

CONSTANTS c1, c2, s1, s2, i1, i2, t1, t2

Event(provider, kind, client, sub, invoice, status) ==
  [provider |-> provider, kind |-> kind, client |-> client, sub |-> sub,
   invoice |-> invoice, status |-> status]

AnEventOfEachSort ==
  "pending" :> Event("razorpay", "active", c1, s1, None, "halted")
  @@ "cancelled" :> Event("razorpay", "ended", c1, s1, None, "cancelled")
  @@ "unpaid" :> Event("razorpay", "failed", None, s1, None, "none")
  @@ "refund" :> Event("paddle", "refund", c1, None, i1, "none")
  @@ "declined" :> Event("paddle", "failed", c1, None, i2, "none")
  @@ "stranger" :> Event("paddle", "ended", c2, s2, None, "canceled")

OneActivation == "activated" :> Event("razorpay", "active", c1, s1, None, "active")

AllEvents == DOMAIN Payload
AllRows == BillingRows
Symmetry == Permutations({t1, t2})
=============================================================================
