------------------------------ MODULE Delivery ------------------------------
(***************************************************************************)
(* What the outbox promises, with no senders, leases, attempts or errors:  *)
(* a message that was enqueued stays open until it is recorded as sent or  *)
(* given up; it is recorded as sent only under an id that Meta has handed  *)
(* out for it; and once it is settled only a report from Meta about the    *)
(* recorded id can settle it differently or open it again.                 *)
(*                                                                         *)
(* Delivery is at least once: Meta may hand out several ids for one        *)
(* message, and it may do so after the message was settled.                *)
(***************************************************************************)
EXTENDS Naturals

CONSTANT Rows       \* the messages (rows of wa_outbox)

VARIABLES
  outcome,          \* "none", "open", "sent" or "dead", per row
  issued,           \* number of ids Meta has handed out for the row
  recorded          \* the id recorded for the row, 0 when none is

dvars == <<outcome, issued, recorded>>

Init ==
  /\ outcome = [r \in Rows |-> "none"]
  /\ issued = [r \in Rows |-> 0]
  /\ recorded = [r \in Rows |-> 0]

Open(r) ==
  /\ outcome[r] = "none"
  /\ outcome' = [outcome EXCEPT ![r] = "open"]
  /\ UNCHANGED <<issued, recorded>>

Issue(r) ==
  /\ outcome[r] # "none"
  /\ issued' = [issued EXCEPT ![r] = @ + 1]
  /\ UNCHANGED <<outcome, recorded>>

Record(r) ==
  /\ outcome[r] = "open"
  /\ outcome' = [outcome EXCEPT ![r] = "sent"]
  /\ \E n \in 1..issued[r] : recorded' = [recorded EXCEPT ![r] = n]
  /\ UNCHANGED issued

GiveUp(r) ==
  /\ outcome[r] = "open"
  /\ outcome' = [outcome EXCEPT ![r] = "dead"]
  /\ UNCHANGED <<issued, recorded>>

MetaReport(r) ==
  /\ recorded[r] # 0
  /\ \E o \in {"sent", "open"} : outcome' = [outcome EXCEPT ![r] = o]
  /\ UNCHANGED <<issued, recorded>>

Next ==
  \E r \in Rows :
    Open(r) \/ Issue(r) \/ Record(r) \/ GiveUp(r) \/ MetaReport(r)

Spec == Init /\ [][Next]_dvars
=============================================================================
