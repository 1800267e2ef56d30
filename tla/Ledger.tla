------------------------------- MODULE Ledger -------------------------------
(***************************************************************************)
(* What the billing webhooks promise: whatever is redelivered, reordered   *)
(* or interrupted, the rows change as if the events were taken one at a    *)
(* time, each once and as a whole.                                         *)
(***************************************************************************)
EXTENDS BillingOps, Sequences

CONSTANT KnownClients

VARIABLE rows

Init ==
  rows = [x \in BillingRows |->
            IF x \in {ClientRow(c) : c \in KnownClients} THEN "trial" ELSE None]

(* Its statements, each on what it finds.                                  *)
Take(e) ==
  LET p == Payload[e]
      c == ClientOf(p, rows)
      done == {Statements(p)[i] : i \in DOMAIN Statements(p)}
  IN /\ rows[EventRow(e)] = None
     /\ ~Ignored(p, c, rows)
     /\ \A s \in done : ~BreaksKey(s, c, rows)
     /\ rows' = [x \in BillingRows |->
          IF x = EventRow(e) THEN "accepted"
          ELSE IF \E s \in done : x = StatementRow(s, p, c) /\ WritesRow(s, p, c, rows)
            THEN LET s == CHOOSE s \in done : x = StatementRow(s, p, c)
                 IN Written(s, p, c, rows)
          ELSE rows[x]]

(* A failed payment whose subscription is not known is lost: its event may *)
(* be dropped though the subscription became known while it was handled.   *)
Drop(e) ==
  LET p == Payload[e]
  IN /\ rows[EventRow(e)] = None
     /\ LooksUp(p) \/ Ignored(p, p.client, rows)
     /\ rows' = [rows EXCEPT ![EventRow(e)] = "ignored"]

Next == \E e \in Events : Take(e) \/ Drop(e)

Spec == Init /\ [][Next]_rows
=============================================================================
