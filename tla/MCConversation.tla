--------------------------- MODULE MCConversation ---------------------------
(* Conversation for an owner and two agents.                               *)
EXTENDS Conversation

CONSTANTS o, a1, a2, k1, hi, bye

Request(op, by, to) ==
  [op |-> op, by |-> by, to |-> to, key |-> NoKey, text |-> hi]
Reply(by, key, text) ==
  [op |-> "reply", by |-> by, to |-> NoOne, key |-> key, text |-> text]

Desks ==
  {Request("assign", o, a1), Request("reassign", o, a2),
   Request("escalate", a1, a1), Request("escalate", a2, NoOne),
   Request("unassign", a1, NoOne), Request("resolve", o, NoOne)}

Everything == Desks \cup {Reply(a1, k1, hi), Reply(o, NoKey, bye), Reply(a2, k1, bye)}

AllTxs == Handlers \cup Workers
=============================================================================
