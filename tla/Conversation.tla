---------------------------- MODULE Conversation ----------------------------
(***************************************************************************)
(* The inbox operations as client_api runs them, each in a thread and a    *)
(* transaction of its own: _load_chat locks the chat's row (FOR UPDATE),   *)
(* the handler looks at the state and the ACTIVE assignment, writes and    *)
(* commits.  Meanwhile the batch processor, which reads the chat without a *)
(* lock and asks the AI engine, may hand the chat off.                     *)
(*                                                                         *)
(* Clients send what they like, in any order and again when an answer is   *)
(* late.  The events published to WebSockets after the commit and the      *)
(* notification rows are left out: nothing here reads them.                *)
(***************************************************************************)
EXTENDS InboxOps, ReadCommitted

CONSTANTS
  Handlers,         \* threads that serve requests
  Workers,          \* batch_processor processes
  MaxRequests       \* bound: requests in one behaviour

ASSUME RowsAreNamed == RowIds = RowNames
ASSUME TxsServe == Txs = Handlers \cup Workers
ASSUME HandlersAreNoWorkers == Handlers \cap Workers = {}

VARIABLES
  pc,               \* the next statement of every process
  req,              \* the request a handler serves; NoOne before the first
  seen,             \* the state and the assignee it found
  posted            \* requests so far

cvars == <<db, new, holder, pc, req, seen, posted>>

NothingSeen == [state |-> "AI_ACTIVE", current |-> NoOne]

TypeOK ==
  /\ db.chat \in [state : ChatState, agent : Users \cup {NoOne}]
  /\ db.active \in Users \cup {NoOne}
  /\ \A m \in db.messages : m.by \in Users
  /\ holder \in [RowIds -> Txs \cup {NoTx}]
  /\ pc \in [Txs -> {"idle", "load", "act", "ask", "commit"}]
  /\ posted \in Nat

Init ==
  /\ db = FreshChat /\ new = FreshChat
  /\ holder = [x \in RowIds |-> NoTx]
  /\ pc = [t \in Txs |-> "idle"]
  /\ req = [h \in Handlers |-> NoOne]
  /\ seen = [h \in Handlers |-> NothingSeen]
  /\ posted = 0

Goto(t, l) == pc' = [pc EXCEPT ![t] = l]

-----------------------------------------------------------------------------
(* The handlers.                                                           *)
Receive(h, q) ==
  /\ pc[h] = "idle" /\ posted < MaxRequests
  /\ posted' = posted + 1
  /\ req' = [req EXCEPT ![h] = q]
  /\ Goto(h, "load")
  /\ UNCHANGED <<dbVars, seen>>

(* The rows _load_chat locks.                                              *)
LoadNothing == {}
LoadLocks == {"chat"}

(* _load_chat and _active_assignment.                                      *)
Load(h) ==
  /\ pc[h] = "load"
  /\ \A x \in LoadLocks : CanLock(h, x)
  /\ Write(h, [x \in LoadLocks |-> new[x]])
  /\ seen' = [seen EXCEPT ![h] = [state |-> Sees(h, "chat").state,
                                  current |-> Sees(h, "active")]]
  /\ Goto(h, "act")
  /\ UNCHANGED <<req, posted>>

(* The handler's statements after that: under the lock nobody comes        *)
(* between them.                                                           *)
Act(h) ==
  LET out == Outcome(req[h], seen[h].state, seen[h].current, new)
      changed == {x \in RowIds : out[x] # new[x]}
  IN /\ pc[h] = "act"
     /\ \A x \in changed : CanLock(h, x)
     /\ Write(h, [x \in changed |-> out[x]])
     /\ Goto(h, "commit")
     /\ UNCHANGED <<req, seen, posted>>

Commit(t) ==
  /\ pc[t] = "commit"
  /\ Publish(t)
  /\ Goto(t, "idle")
  /\ UNCHANGED <<req, seen, posted>>

(* The process dies or the database refuses a statement.                   *)
Abort(t) ==
  /\ pc[t] # "idle"
  /\ Rollback(t)
  /\ Goto(t, "idle")
  /\ UNCHANGED <<req, seen, posted>>

-----------------------------------------------------------------------------
(* The batch processor: only a chat it sees AI_ACTIVE goes to the AI.      *)
ReadChat(w) ==
  /\ pc[w] = "idle" /\ db.chat.state = "AI_ACTIVE"
  /\ Goto(w, "ask")
  /\ UNCHANGED <<dbVars, req, seen, posted>>

(* UPDATE inbox_chats SET state = ..., whatever the state is by now.       *)
Handoff(w) ==
  /\ pc[w] = "ask" /\ CanLock(w, "chat")
  /\ \E st \in HandoffState : Write(w, [x \in {"chat"} |-> HandedOff(st, new)[x]])
  /\ Goto(w, "commit")
  /\ UNCHANGED <<req, seen, posted>>

Next ==
  \/ \E h \in Handlers : Load(h) \/ Act(h) \/ \E q \in Requests : Receive(h, q)
  \/ \E w \in Workers : ReadChat(w) \/ Handoff(w)
  \/ \E t \in Txs : Commit(t) \/ Abort(t)

Spec == Init /\ [][Next]_cvars

-----------------------------------------------------------------------------
(* The two places that name the assignee agree: inbox_chats and the ACTIVE *)
(* row of chat_assignments, however operations and handoffs interleave.    *)
AssigneeAgrees == db.chat.agent = db.active

(* A CLOSED chat is nobody's: no assignment outlives the resolution.       *)
ClosedIsFree == db.chat.state = "CLOSED" => db.active = NoOne

(* The audit trail tells who has the chat: the last entry names the user   *)
(* of the ACTIVE assignment.                                               *)
AuditExplains ==
  db.active = IF db.audit = <<>> THEN NoOne ELSE db.audit[Len(db.audit)].to

(* A retry with an Idempotency-Key, also one that races the request it     *)
(* repeats, never stores the message a second time.                        *)
OneMessagePerKey ==
  \A m, n \in db.messages : m.key # NoKey /\ m.key = n.key => m = n

(* What an agent writes is stored only while the chat is assigned to him,  *)
(* even if he loses it while the request is on its way.                    *)
RepliesByAssignee ==
  [][\A m \in db'.messages \ db.messages :
       m.by \in Agents => db.active = m.by /\ db'.active = m.by]_cvars

(* The handlers are serializable: what is committed changes as in Desk.    *)
Serial == INSTANCE Desk WITH desk <- db
ImplementsDesk == Serial!Spec
=============================================================================
