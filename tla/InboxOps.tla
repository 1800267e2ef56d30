------------------------------ MODULE InboxOps ------------------------------
(***************************************************************************)
(* What the inbox operations of backend/apps/client_api/routes_inbox.py do *)
(* to a chat: pure operators from the rows a handler finds to the rows it  *)
(* leaves, without transactions.  One chat is enough: no operation touches *)
(* two, and the rows of different chats have nothing in common.            *)
(*                                                                         *)
(* The rows of a chat, as a record:                                        *)
(*   chat      inbox_chats: state and assigned_agent_id                    *)
(*   active    chat_assignments: the user of the ACTIVE assignment, which  *)
(*             an index keeps unique per chat                              *)
(*   audit     inbox_assignment_audit, in order                            *)
(*   messages  inbox_messages with sender 'agent'                          *)
(*   outbox    wa_outbox rows of kind AGENT_REPLY                          *)
(*                                                                         *)
(* A handler decides on `state' and `current', which it read at its start, *)
(* and writes the rows d as they are when it writes.  Every HTTP error is  *)
(* an exception that rolls the transaction back: it leaves d.              *)
(*                                                                         *)
(* ai_paused_until is left out: whoever sets it makes the chat             *)
(* AGENT_ACTIVE or, replaying a key, did so when the key was new; and no   *)
(* code ever makes a chat AI_ACTIVE again.                                 *)
(***************************************************************************)
EXTENDS Naturals, Sequences, FiniteSets

CONSTANTS
  Agents, Owners,   \* users by role; super admins count as owners
  NoOne,            \* no assignee, and no target of an escalation
  NoKey,            \* no Idempotency-Key header
  Requests,         \* the requests clients send
  HardLock          \* inbox.typing_hard_lock_enabled

Users == Agents \cup Owners

Ops == {"assign", "reassign", "escalate", "unassign", "resolve", "reply"}
ChatState ==
  {"AI_ACTIVE", "HUMAN_REQ", "WAITING_OWNER_DATA", "AGENT_ACTIVE", "CLOSED"}
Events ==
  {"ASSIGNED", "REASSIGNED", "UNASSIGNED", "ESCALATED_TO_QUEUE", "CHAT_RESOLVED"}
RowNames == {"chat", "active", "audit", "messages", "outbox"}

ASSUME NoOneIsNoUser == NoOne \notin Users
ASSUME RequestsAsk ==
  \A q \in Requests : q.op \in Ops /\ q.by \in Users /\ q.to \in Users \cup {NoOne}

FreshChat ==
  [chat |-> [state |-> "AI_ACTIVE", agent |-> NoOne], active |-> NoOne,
   audit |-> <<>>, messages |-> {}, outbox |-> {}]

Logged(event, u, d) == Append(d.audit, [event |-> event, to |-> u])

(* _do_assign: 409 for an assigned chat unless it is a reassignment; the   *)
(* current assignee again: the assignment as it is, and nothing more.      *)
Assigned(q, current, d) ==
  IF current = q.to \/ (q.op = "assign" /\ current # NoOne)
    THEN d
    ELSE [d EXCEPT
           !.chat = [state |-> "AGENT_ACTIVE", agent |-> q.to],
           !.active = q.to,
           !.audit = Logged(IF current = NoOne THEN "ASSIGNED" ELSE "REASSIGNED",
                            q.to, d)]

(* The assignment that was found, if any, ends; nobody has the chat.       *)
EndedNever(current, d) == d.active
Ended(current, d) == IF current = NoOne THEN d.active ELSE NoOne

Freed(event, state, current, d) ==
  [d EXCEPT !.chat = [state |-> state, agent |-> NoOne],
            !.active = Ended(current, d),
            !.audit = Logged(event, NoOne, d)]

(* Agents may only unassign themselves.                                    *)
Unassigned(q, current, d) ==
  IF current = NoOne \/ (q.by \in Agents /\ current # q.by)
    THEN d
    ELSE Freed("UNASSIGNED", "HUMAN_REQ", current, d)

Resolved(state, current, d) ==
  IF state = "CLOSED" THEN d ELSE Freed("CHAT_RESOLVED", "CLOSED", current, d)

(* Agents reply on the chats they are assigned; owners on any, unless the  *)
(* typing lock reserves it for the assignee.                               *)
AnyoneMayReply(q, current) == TRUE
MayReply(q, current) ==
  /\ q.by \in Agents => current = q.by
  /\ HardLock /\ current # NoOne => current = q.by

(* The message a key was used for before, whoever used it.                 *)
NoReplay(q, d) == {}
Replayed(q, d) == {m \in d.messages : q.key # NoKey /\ m.key = q.key}

IdemKey(q, n) == [by |-> q.by, key |-> q.key, id |-> IF q.key = NoKey THEN n ELSE 0]

(* INSERT ... ON CONFLICT (idempotency_key) DO UPDATE SET body_text        *)
Enqueued(q, n, d) ==
  LET i == IdemKey(q, n)
  IN {o \in d.outbox : o.idem # i} \cup {[idem |-> i, text |-> q.text]}

(* The replay of a key that has its outbox row changes nothing; without    *)
(* the row it is enqueued; a new reply is stored and enqueued.             *)
Replied(q, current, d) ==
  LET n == Cardinality(d.messages) + 1
      stored == [id |-> n, by |-> q.by, key |-> q.key, text |-> q.text]
      known == Replayed(q, d)
      live == [d EXCEPT !.chat.state = "AGENT_ACTIVE", !.outbox = Enqueued(q, n, d)]
  IN IF \/ ~MayReply(q, current)
        \/ known # {} /\ \E o \in d.outbox : o.idem = IdemKey(q, n)
       THEN d
       ELSE IF known # {} THEN live
       ELSE [live EXCEPT !.messages = @ \cup {stored}]

(* assert_role_in: assigning and resolving are for owners.                 *)
MayAsk(q) == q.op \in {"assign", "reassign", "resolve"} => q.by \in Owners

Assigns(q) == q.op \in {"assign", "reassign"} \/ (q.op = "escalate" /\ q.to # NoOne)

Outcome(q, state, current, d) ==
  IF ~MayAsk(q) THEN d
  ELSE IF Assigns(q) THEN Assigned(q, current, d)
  ELSE IF q.op = "escalate" THEN Freed("ESCALATED_TO_QUEUE", "HUMAN_REQ", current, d)
  ELSE IF q.op = "unassign" THEN Unassigned(q, current, d)
  ELSE IF q.op = "resolve" THEN Resolved(state, current, d)
  ELSE Replied(q, current, d)

(* batch_processor: the state of a HANDOFF or NEEDS_OWNER_DATA answer.     *)
HandoffIsAction == {"HUMAN_REQ", "NEEDS_OWNER_DATA"}
HandoffState == {"HUMAN_REQ", "WAITING_OWNER_DATA"}
HandedOff(st, d) == [d EXCEPT !.chat.state = st]
=============================================================================
