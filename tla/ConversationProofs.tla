------------------------- MODULE ConversationProofs -------------------------
(***************************************************************************)
(* Conversation for any sets of users, requests, handlers and workers: its *)
(* transactions are serializable, and the invariants of the chat's rows    *)
(* that follow from the operations taken one at a time.                    *)
(***************************************************************************)
EXTENDS Conversation, TLAPS

(* What the rows of a chat look like.                                      *)
IsDesk(d) ==
  /\ d = [x \in RowNames |-> d[x]]
  /\ d.chat \in [state : ChatState, agent : Users \cup {NoOne}]
  /\ d.active \in Users \cup {NoOne}
  /\ d.audit \in Seq([event : Events, to : Users \cup {NoOne}])
  /\ \A m \in d.messages : m.by \in Users

Agrees(d) ==
  /\ d.chat.agent = d.active
  /\ d.chat.state = "CLOSED" => d.active = NoOne
  /\ d.active = IF d.audit = <<>> THEN NoOne ELSE d.audit[Len(d.audit)].to

Unrepeated(d) == \A m, n \in d.messages : m.key # NoKey /\ m.key = n.key => m = n

GoodDesk(d) == IsDesk(d) /\ Agrees(d) /\ Unrepeated(d)

AgentsOwn(d, e) ==
  \A m \in e.messages \ d.messages :
    m.by \in Agents => d.active = m.by /\ e.active = m.by

-----------------------------------------------------------------------------
(* One operation at a time.                                                *)
LEMMA FreshIsGood == GoodDesk(FreshChat)
<1>1. FreshChat = [x \in RowNames |-> FreshChat[x]]
  BY DEF FreshChat, RowNames
<1>2. IsDesk(FreshChat)
  BY <1>1 DEF IsDesk, FreshChat, ChatState
<1>3. Agrees(FreshChat) /\ Unrepeated(FreshChat)
  BY DEF Agrees, Unrepeated, FreshChat
<1>4. QED
  BY <1>2, <1>3 DEF GoodDesk

LEMMA LoggedIs ==
  ASSUME NEW d, IsDesk(d), NEW u \in Users \cup {NoOne}, NEW event \in Events
  PROVE  /\ Logged(event, u, d) \in Seq([event : Events, to : Users \cup {NoOne}])
         /\ Logged(event, u, d) # <<>>
         /\ Logged(event, u, d)[Len(Logged(event, u, d))].to = u
<1> DEFINE entry == [event |-> event, to |-> u]
<1>1. entry \in [event : Events, to : Users \cup {NoOne}] /\ entry.to = u
  OBVIOUS
<1>2. d.audit \in Seq([event : Events, to : Users \cup {NoOne}])
  BY DEF IsDesk
<1> HIDE DEF entry
<1>3. Logged(event, u, d) = Append(d.audit, entry)
  BY DEF Logged, entry
<1>4. QED
  BY <1>1, <1>2, <1>3

LEMMA AssignedIsGood ==
  ASSUME NEW d, GoodDesk(d), NEW q \in Requests
  PROVE  GoodDesk(Assigned(q, d.active, d)) /\ AgentsOwn(d, Assigned(q, d.active, d))
<1> DEFINE event == IF d.active = NoOne THEN "ASSIGNED" ELSE "REASSIGNED"
           log == Logged(event, q.to, d)
           e == [d EXCEPT !.chat = [state |-> "AGENT_ACTIVE", agent |-> q.to],
                          !.active = q.to, !.audit = log]
<1>1. q.to \in Users \cup {NoOne}
  BY RequestsAsk
<1>2. event \in Events
  BY DEF Events
<1>3. /\ log \in Seq([event : Events, to : Users \cup {NoOne}])
      /\ log # <<>> /\ log[Len(log)].to = q.to
  BY <1>1, <1>2, LoggedIs DEF GoodDesk
<1>4. GoodDesk(e) /\ AgentsOwn(d, e)
  <2> HIDE DEF log
  <2>1. QED
    BY <1>1, <1>3 DEF GoodDesk, IsDesk, Agrees, Unrepeated, AgentsOwn, RowNames, ChatState
<1>5. Assigned(q, d.active, d) \in {d, e}
  BY DEF Assigned
<1>6. AgentsOwn(d, d)
  BY DEF AgentsOwn
<1>7. QED
  BY <1>4, <1>5, <1>6

LEMMA FreedIsGood ==
  ASSUME NEW d, GoodDesk(d), NEW event \in Events, NEW st \in ChatState
  PROVE  LET e == Freed(event, st, d.active, d)
         IN GoodDesk(e) /\ AgentsOwn(d, e)
<1> DEFINE log == Logged(event, NoOne, d)
           e == [d EXCEPT !.chat = [state |-> st, agent |-> NoOne],
                          !.active = NoOne, !.audit = log]
<1>1. /\ log \in Seq([event : Events, to : Users \cup {NoOne}])
      /\ log # <<>> /\ log[Len(log)].to = NoOne
  BY LoggedIs DEF GoodDesk
<1>2. Freed(event, st, d.active, d) = e
  BY DEF Freed, Ended
<1>3. GoodDesk(e) /\ AgentsOwn(d, e)
  <2> HIDE DEF log
  <2>1. QED
    BY <1>1 DEF GoodDesk, IsDesk, Agrees, Unrepeated, AgentsOwn, RowNames
<1>4. QED
  BY <1>2, <1>3

LEMMA RepliedIsGood ==
  ASSUME NEW d, GoodDesk(d), NEW q \in Requests
  PROVE  LET e == Replied(q, d.active, d)
         IN GoodDesk(e) /\ AgentsOwn(d, e)
<1> DEFINE n == Cardinality(d.messages) + 1
           stored == [id |-> n, by |-> q.by, key |-> q.key, text |-> q.text]
           live == [d EXCEPT !.chat.state = "AGENT_ACTIVE",
                             !.outbox = Enqueued(q, n, d)]
           e == [live EXCEPT !.messages = @ \cup {stored}]
<1>1. /\ live = [x \in RowNames |-> live[x]]
      /\ live.chat = [state |-> "AGENT_ACTIVE", agent |-> d.chat.agent]
      /\ live.active = d.active /\ live.audit = d.audit /\ live.messages = d.messages
  BY DEF GoodDesk, IsDesk, RowNames
<1>2. GoodDesk(live) /\ AgentsOwn(d, live)
  <2> HIDE DEF live
  <2>1. live.chat \in [state : ChatState, agent : Users \cup {NoOne}]
    <3>1. d.chat.agent \in Users \cup {NoOne} /\ "AGENT_ACTIVE" \in ChatState
      BY DEF GoodDesk, IsDesk, ChatState
    <3>2. QED
      BY <1>1, <3>1
  <2>2. IsDesk(live)
    BY <1>1, <2>1 DEF GoodDesk, IsDesk
  <2>3. Agrees(live)
    BY <1>1 DEF GoodDesk, Agrees
  <2>4. Unrepeated(live) /\ AgentsOwn(d, live)
    BY <1>1 DEF GoodDesk, Unrepeated, AgentsOwn
  <2>5. QED
    BY <2>2, <2>3, <2>4 DEF GoodDesk
<1>3. GoodDesk(d) /\ AgentsOwn(d, d)
  BY DEF AgentsOwn
<1>4. ASSUME Replayed(q, d) = {}, MayReply(q, d.active)
      PROVE  GoodDesk(e) /\ AgentsOwn(d, e)
  <2>1. /\ e = [x \in RowNames |-> e[x]]
        /\ e.chat = live.chat /\ e.active = live.active /\ e.audit = live.audit
        /\ e.messages = d.messages \cup {stored}
    <3> HIDE DEF live, stored
    <3>1. QED
      BY <1>1 DEF RowNames
  <2>2. stored.by = q.by /\ stored.key = q.key /\ q.by \in Users
    BY RequestsAsk
  <2> HIDE DEF e, live, stored
  <2>3. IsDesk(e) /\ Agrees(e)
    BY <1>2, <1>1, <2>1, <2>2 DEF GoodDesk, IsDesk, Agrees
  <2>4. Unrepeated(e)
    BY <1>4, <2>1, <2>2 DEF GoodDesk, Unrepeated, Replayed
  <2>5. AgentsOwn(d, e)
    <3>1. q.by \in Agents => d.active = q.by
      BY <1>4, Zenon DEF MayReply
    <3>2. QED
      BY <1>1, <2>1, <2>2, <3>1 DEF AgentsOwn
  <2>6. QED
    BY <2>3, <2>4, <2>5 DEF GoodDesk
<1>5. \/ Replied(q, d.active, d) = d
      \/ Replied(q, d.active, d) = live
      \/ /\ Replied(q, d.active, d) = e
         /\ Replayed(q, d) = {} /\ MayReply(q, d.active)
  BY DEF Replied
<1>6. QED
  BY <1>2, <1>3, <1>4, <1>5

(* One operation, decided and carried out on the same rows, keeps the      *)
(* facts and respects who may write; so does a handoff.                    *)
LEMMA OutcomeIsGood ==
  ASSUME NEW d, GoodDesk(d), NEW q \in Requests
  PROVE  LET e == Outcome(q, d.chat.state, d.active, d)
         IN GoodDesk(e) /\ AgentsOwn(d, e)
<1> DEFINE Fine(e) == GoodDesk(e) /\ AgentsOwn(d, e)
<1>1. Fine(d)
  BY DEF AgentsOwn
<1>2. Fine(Assigned(q, d.active, d)) /\ Fine(Replied(q, d.active, d))
  BY AssignedIsGood, RepliedIsGood
<1>3. /\ {"ESCALATED_TO_QUEUE", "UNASSIGNED", "CHAT_RESOLVED"} \subseteq Events
      /\ {"HUMAN_REQ", "CLOSED"} \subseteq ChatState
  BY DEF Events, ChatState
<1>4. /\ Fine(Freed("ESCALATED_TO_QUEUE", "HUMAN_REQ", d.active, d))
      /\ Fine(Freed("UNASSIGNED", "HUMAN_REQ", d.active, d))
      /\ Fine(Freed("CHAT_RESOLVED", "CLOSED", d.active, d))
  BY <1>3, FreedIsGood
<1> HIDE DEF Fine
<1>5. Fine(Unassigned(q, d.active, d)) /\ Fine(Resolved(d.chat.state, d.active, d))
  BY <1>1, <1>4 DEF Unassigned, Resolved
<1>6. Fine(Outcome(q, d.chat.state, d.active, d))
  BY <1>1, <1>2, <1>4, <1>5 DEF Outcome
<1>7. QED
  BY <1>6 DEF Fine

LEMMA HandedOffIsGood ==
  ASSUME NEW d, GoodDesk(d), NEW st \in HandoffState
  PROVE  GoodDesk(HandedOff(st, d)) /\ AgentsOwn(d, HandedOff(st, d))
<1> DEFINE e == HandedOff(st, d)
<1>1. /\ e = [x \in RowNames |-> e[x]]
      /\ e.chat = [state |-> st, agent |-> d.chat.agent]
      /\ e.active = d.active /\ e.audit = d.audit /\ e.messages = d.messages
  BY DEF GoodDesk, IsDesk, RowNames, HandedOff
<1> HIDE DEF e
<1>2. st \in ChatState /\ st # "CLOSED" /\ d.chat.agent \in Users \cup {NoOne}
  BY DEF HandoffState, ChatState, GoodDesk, IsDesk
<1>3. IsDesk(e)
  <2>1. e.chat \in [state : ChatState, agent : Users \cup {NoOne}]
    BY <1>1, <1>2
  <2>2. QED
    BY <1>1, <2>1 DEF GoodDesk, IsDesk
<1>4. Agrees(e)
  BY <1>1, <1>2 DEF GoodDesk, Agrees
<1>5. Unrepeated(e) /\ AgentsOwn(d, e)
  BY <1>1 DEF GoodDesk, Unrepeated, AgentsOwn
<1>6. QED
  BY <1>3, <1>4, <1>5 DEF GoodDesk, e

-----------------------------------------------------------------------------
(* Transactions.  The chat's row guards the others, what nobody holds is   *)
(* committed, and who holds the chat is about to act or to commit.         *)
Rows ==
  /\ GoodDesk(db)
  /\ new = [x \in RowNames |-> new[x]]
  /\ holder \in [RowNames -> Txs \cup {NoTx}]

Guarded ==
  /\ \A x \in RowNames : holder[x] # NoTx => holder["chat"] = holder[x]
  /\ \A x \in RowNames : holder[x] = NoTx => new[x] = db[x]
  /\ \A t \in Txs : holder["chat"] = t <=> pc[t] \in {"act", "commit"}

Served ==
  \A h \in Handlers :
    /\ pc[h] # "idle" => req[h] \in Requests
    /\ pc[h] = "act" =>
         /\ new = db
         /\ seen[h] = [state |-> db.chat.state, current |-> db.active]
    /\ pc[h] = "commit" => new = Outcome(req[h], db.chat.state, db.active, db)

Handing ==
  \A w \in Workers : pc[w] = "commit" => \E st \in HandoffState : new = HandedOff(st, db)

Shape ==
  /\ pc \in [Txs -> {"idle", "load", "act", "ask", "commit"}]
  /\ req = [h \in Handlers |-> req[h]] /\ seen = [h \in Handlers |-> seen[h]]
  /\ posted \in Nat

IInv == Rows /\ Guarded /\ Served /\ Handing /\ Shape

(* What a step may do to the committed rows.                               *)
Operation ==
  \/ db' = db
  \/ \E q \in Requests : db' = Outcome(q, db.chat.state, db.active, db)
  \/ \E st \in HandoffState : db' = HandedOff(st, db)

USE RowsAreNamed

LEMMA InitIInv == Init => IInv
<1> SUFFICES ASSUME Init PROVE IInv
  OBVIOUS
<1>1. GoodDesk(db)
  BY FreshIsGood DEF Init
<1>2. new = db /\ new = [x \in RowNames |-> new[x]]
  BY <1>1 DEF Init, GoodDesk, IsDesk
<1>3. Rows
  BY <1>1, <1>2 DEF Init, Rows
<1>4. Guarded
  BY <1>2, NoTxIsNoTx DEF Init, Guarded, RowNames
<1>5. Served /\ Handing /\ Shape
  BY TxsServe DEF Init, Served, Handing, Shape
<1>6. QED
  BY <1>3, <1>4, <1>5 DEF IInv

(* A chat nobody holds: no transaction has changed anything.               *)
LEMMA FreeIsCommitted ==
  ASSUME IInv, holder["chat"] = NoTx
  PROVE  new = db /\ \A x \in RowNames : holder[x] = NoTx
<1>1. \A x \in RowNames : holder[x] = NoTx /\ new[x] = db[x]
  BY NoTxIsNoTx DEF IInv, Guarded, RowNames
<1>2. QED
  BY <1>1 DEF IInv, Rows, GoodDesk, IsDesk

(* Nobody else is between its lock and its commit.                         *)
LEMMA HolderIsAlone ==
  ASSUME IInv, NEW t \in Txs, holder["chat"] \in {t, NoTx}
  PROVE  /\ \A u \in Txs \ {t} : pc[u] \notin {"act", "commit"}
         /\ \A x \in RowNames : holder[x] \in {t, NoTx}
  BY NoTxIsNoTx DEF IInv, Guarded

LEMMA ReceiveIInv ==
  ASSUME IInv, NEW h \in Handlers, NEW q \in Requests, Receive(h, q)
  PROVE  IInv'
<1>1. /\ UNCHANGED <<db, new, holder, seen>>
      /\ pc[h] = "idle" /\ pc' = [pc EXCEPT ![h] = "load"]
      /\ req' = [req EXCEPT ![h] = q] /\ posted' = posted + 1
  BY DEF Receive, Goto, dbVars
<1>2. h \in Txs
  BY TxsServe
<1>3. Rows' /\ Guarded'
  BY <1>1, <1>2 DEF IInv, Rows, Guarded, Shape
<1>4. Served' /\ Handing'
  BY <1>1, <1>2, TxsServe, HandlersAreNoWorkers DEF IInv, Served, Handing, Shape
<1>5. Shape'
  BY <1>1, <1>2 DEF IInv, Shape
<1>6. QED
  BY <1>3, <1>4, <1>5 DEF IInv

LEMMA LoadIInv ==
  ASSUME IInv, NEW h \in Handlers, Load(h)
  PROVE  IInv'
<1>1. /\ pc[h] = "load" /\ CanLock(h, "chat")
      /\ new' = new /\ db' = db
      /\ holder' = [x \in RowNames |-> IF x = "chat" THEN h ELSE holder[x]]
      /\ seen' = [seen EXCEPT ![h] = [state |-> Sees(h, "chat").state,
                                      current |-> Sees(h, "active")]]
      /\ pc' = [pc EXCEPT ![h] = "act"] /\ UNCHANGED <<req, posted>>
  BY DEF IInv, Rows, Load, LoadLocks, Write, Goto
<1>2. h \in Txs
  BY TxsServe
<1>3. holder["chat"] = NoTx
  BY <1>1, <1>2 DEF CanLock, IInv, Guarded
<1>4. new = db /\ \A x \in RowNames : holder[x] = NoTx
  BY <1>3, FreeIsCommitted
<1>5. \A t \in Txs : pc[t] \notin {"act", "commit"}
  BY <1>3, NoTxIsNoTx DEF IInv, Guarded
<1>6. Sees(h, "chat") = db["chat"] /\ Sees(h, "active") = db["active"]
  BY <1>2, <1>4, NoTxIsNoTx DEF Sees, RowNames
<1>7. Rows' /\ Shape'
  BY <1>1, <1>2 DEF IInv, Rows, Shape
<1>8. Guarded'
  BY <1>1, <1>2, <1>4, <1>5, NoTxIsNoTx DEF IInv, Guarded, Shape, RowNames
<1>9. Served'
  <2>1. seen'[h] = [state |-> db.chat.state, current |-> db.active]
    BY <1>1, <1>6 DEF IInv, Shape
  <2>2. \A i \in Handlers \ {h} : pc'[i] = pc[i] /\ pc'[i] \notin {"act", "commit"}
    BY <1>1, <1>5, TxsServe DEF IInv, Shape
  <2>3. pc'[h] = "act"
    BY <1>1, <1>2 DEF IInv, Shape
  <2>4. QED
    BY <1>1, <1>4, <2>1, <2>2, <2>3 DEF IInv, Served
<1>10. Handing'
  BY <1>1, <1>2, TxsServe, HandlersAreNoWorkers DEF IInv, Handing, Shape
<1>11. QED
  BY <1>7, <1>8, <1>9, <1>10 DEF IInv

LEMMA ActIInv ==
  ASSUME IInv, NEW h \in Handlers, Act(h)
  PROVE  IInv'
<1> DEFINE out == Outcome(req[h], db.chat.state, db.active, db)
<1>1. h \in Txs /\ pc[h] = "act"
  BY TxsServe DEF Act
<1>2. /\ req[h] \in Requests /\ new = db
      /\ seen[h] = [state |-> db.chat.state, current |-> db.active]
  BY <1>1 DEF IInv, Served
<1>3. GoodDesk(out)
  BY <1>2, OutcomeIsGood DEF IInv, Rows
<1>4. out = [x \in RowNames |-> out[x]]
  BY <1>3 DEF GoodDesk, IsDesk
<1>5. Outcome(req[h], seen[h].state, seen[h].current, new) = out
  BY <1>2
<1> HIDE DEF out
<1>6. /\ new' = [x \in RowNames |-> IF out[x] # new[x] THEN out[x] ELSE new[x]]
      /\ holder' = [x \in RowNames |-> IF out[x] # new[x] THEN h ELSE holder[x]]
      /\ db' = db /\ pc' = [pc EXCEPT ![h] = "commit"]
      /\ UNCHANGED <<req, seen, posted>>
  BY <1>5 DEF Act, Write, Goto
<1>7. new' = out
  BY <1>4, <1>6
<1>8. holder["chat"] = h
  BY <1>1 DEF IInv, Guarded
<1>9. /\ \A t \in Txs \ {h} : pc[t] \notin {"act", "commit"}
      /\ \A x \in RowNames : holder[x] \in {h, NoTx}
  BY <1>1, <1>8, HolderIsAlone
<1>10. Rows' /\ Shape'
  BY <1>1, <1>4, <1>6, <1>7 DEF IInv, Rows, Shape
<1>11. Guarded'
  <2>1. holder'["chat"] = h /\ \A x \in RowNames : holder'[x] \in {h, NoTx}
    BY <1>6, <1>8, <1>9 DEF RowNames
  <2>2. \A x \in RowNames : holder'[x] = NoTx => new'[x] = db'[x]
    BY <1>1, <1>2, <1>6, NoTxIsNoTx
  <2>3. \A t \in Txs : holder'["chat"] = t <=> pc'[t] \in {"act", "commit"}
    BY <1>1, <1>6, <1>9, <2>1 DEF IInv, Shape
  <2>4. QED
    BY <2>1, <2>2, <2>3 DEF Guarded
<1>12. Served'
  <2>1. \A i \in Handlers \ {h} : pc'[i] = pc[i] /\ pc'[i] \notin {"act", "commit"}
    BY <1>6, <1>9, TxsServe DEF IInv, Shape
  <2>2. pc'[h] = "commit"
    BY <1>1, <1>6 DEF IInv, Shape
  <2>3. new' = Outcome(req'[h], db'.chat.state, db'.active, db')
    BY <1>6, <1>7 DEF out
  <2>4. QED
    BY <1>2, <1>6, <2>1, <2>2, <2>3 DEF IInv, Served
<1>13. Handing'
  BY <1>1, <1>6, <1>9, TxsServe, HandlersAreNoWorkers DEF IInv, Handing, Shape
<1>14. QED
  BY <1>10, <1>11, <1>12, <1>13 DEF IInv

(* What a transaction about to commit has made of the rows.                *)
LEMMA CommitOperates ==
  ASSUME IInv, NEW t \in Txs, Commit(t)
  PROVE  /\ db' = new /\ new' = new
         /\ GoodDesk(new) /\ AgentsOwn(db, new)
         /\ \/ \E q \in Requests : new = Outcome(q, db.chat.state, db.active, db)
            \/ \E st \in HandoffState : new = HandedOff(st, db)
<1>1. /\ pc[t] = "commit" /\ new' = new
      /\ db' = [x \in RowNames |-> IF holder[x] = t THEN new[x] ELSE db[x]]
  BY DEF Commit, Publish
<1>2. holder["chat"] = t
  BY <1>1 DEF IInv, Guarded
<1>3. \A x \in RowNames : holder[x] \in {t, NoTx}
  BY <1>2, HolderIsAlone
<1>4. db' = new
  <2>1. \A x \in RowNames : db'[x] = new[x]
    BY <1>1, <1>3 DEF IInv, Guarded
  <2>2. QED
    BY <1>1, <2>1 DEF IInv, Rows
<1>5. CASE t \in Handlers
  <2>1. req[t] \in Requests /\ new = Outcome(req[t], db.chat.state, db.active, db)
    BY <1>1, <1>5 DEF IInv, Served
  <2>2. GoodDesk(new) /\ AgentsOwn(db, new)
    BY <2>1, OutcomeIsGood DEF IInv, Rows
  <2>3. QED
    BY <1>1, <1>4, <2>1, <2>2
<1>6. CASE t \in Workers
  <2>1. PICK st \in HandoffState : new = HandedOff(st, db)
    BY <1>1, <1>6 DEF IInv, Handing
  <2>2. GoodDesk(new) /\ AgentsOwn(db, new)
    BY <2>1, HandedOffIsGood DEF IInv, Rows
  <2>3. QED
    BY <1>1, <1>4, <2>1, <2>2
<1>7. QED
  BY <1>5, <1>6, TxsServe

(* When t ends, nobody holds a row any more, and all are committed.        *)
LEMMA CommitIInv ==
  ASSUME IInv, NEW t \in Txs, Commit(t)
  PROVE  IInv'
<1>1. /\ pc[t] = "commit" /\ pc' = [pc EXCEPT ![t] = "idle"]
      /\ holder' = [x \in RowNames |-> IF holder[x] = t THEN NoTx ELSE holder[x]]
      /\ UNCHANGED <<req, seen, posted>>
  BY DEF Commit, Publish, Release, Goto
<1>2. db' = new /\ new' = new /\ GoodDesk(new)
  BY CommitOperates
<1>3. holder["chat"] = t
  BY <1>1 DEF IInv, Guarded
<1>4. /\ \A u \in Txs \ {t} : pc[u] \notin {"act", "commit"}
      /\ \A x \in RowNames : holder[x] \in {t, NoTx}
  BY <1>3, HolderIsAlone
<1>5. Rows' /\ Shape'
  BY <1>1, <1>2 DEF IInv, Rows, Shape
<1>6. \A x \in RowNames : holder'[x] = NoTx
  BY <1>1, <1>4
<1>7. \A u \in Txs : pc'[u] \notin {"act", "commit"} /\ (pc'[u] # "idle" => pc'[u] = pc[u])
  BY <1>1, <1>4 DEF IInv, Shape
<1>8. Guarded'
  BY <1>2, <1>6, <1>7, NoTxIsNoTx DEF Guarded, RowNames
<1>9. Served' /\ Handing'
  BY <1>1, <1>7, TxsServe DEF IInv, Served, Handing
<1>10. QED
  BY <1>5, <1>8, <1>9 DEF IInv

LEMMA AbortIInv ==
  ASSUME IInv, NEW t \in Txs, Abort(t)
  PROVE  IInv'
<1>1. /\ pc' = [pc EXCEPT ![t] = "idle"] /\ db' = db
      /\ new' = [x \in RowNames |-> IF holder[x] = t THEN db[x] ELSE new[x]]
      /\ holder' = [x \in RowNames |-> IF holder[x] = t THEN NoTx ELSE holder[x]]
      /\ UNCHANGED <<req, seen, posted>>
  BY DEF Abort, Rollback, Release, Goto
<1>2. Rows' /\ Shape'
  BY <1>1 DEF IInv, Rows, Shape
<1>3. /\ \A u \in Txs \ {t} : pc'[u] = pc[u]
      /\ pc'[t] = "idle"
  BY <1>1 DEF IInv, Shape
<1>4. CASE holder["chat"] = t
  <2>1. /\ \A u \in Txs \ {t} : pc[u] \notin {"act", "commit"}
        /\ \A x \in RowNames : holder[x] \in {t, NoTx}
    BY <1>4, HolderIsAlone
  <2>2. \A x \in RowNames : holder'[x] = NoTx /\ new'[x] = db'[x]
    BY <1>1, <2>1 DEF IInv, Guarded
  <2>3. Guarded'
    BY <1>3, <2>1, <2>2, NoTxIsNoTx DEF Guarded, RowNames
  <2>4. Served' /\ Handing'
    BY <1>1, <1>3, <2>1, TxsServe DEF IInv, Served, Handing
  <2>5. QED
    BY <1>2, <2>3, <2>4 DEF IInv
<1>5. CASE holder["chat"] # t
  <2>1. \A x \in RowNames : holder[x] # t
    BY <1>5, NoTxIsNoTx DEF IInv, Guarded
  <2>2. holder' = holder /\ new' = new
    BY <1>1, <2>1 DEF IInv, Rows
  <2>3. pc[t] \notin {"act", "commit"}
    BY <1>5 DEF IInv, Guarded
  <2>4. Guarded'
    BY <1>1, <1>3, <2>2, <2>3 DEF IInv, Guarded
  <2>5. Served' /\ Handing'
    BY <1>1, <1>3, <2>2, TxsServe DEF IInv, Served, Handing
  <2>6. QED
    BY <1>2, <2>4, <2>5 DEF IInv
<1>6. QED
  BY <1>4, <1>5

LEMMA ReadChatIInv ==
  ASSUME IInv, NEW w \in Workers, ReadChat(w)
  PROVE  IInv'
<1>1. /\ UNCHANGED <<db, new, holder, req, seen, posted>>
      /\ pc[w] = "idle" /\ pc' = [pc EXCEPT ![w] = "ask"]
  BY DEF ReadChat, Goto, dbVars
<1>2. w \in Txs
  BY TxsServe
<1>3. Rows' /\ Guarded' /\ Shape'
  BY <1>1, <1>2 DEF IInv, Rows, Guarded, Shape
<1>4. Served' /\ Handing'
  BY <1>1, <1>2, TxsServe, HandlersAreNoWorkers DEF IInv, Served, Handing, Shape
<1>5. QED
  BY <1>3, <1>4 DEF IInv

LEMMA HandoffIInv ==
  ASSUME IInv, NEW w \in Workers, Handoff(w)
  PROVE  IInv'
<1>1. w \in Txs /\ pc[w] = "ask" /\ CanLock(w, "chat")
  BY TxsServe DEF Handoff
<1>2. holder["chat"] = NoTx
  BY <1>1 DEF CanLock, IInv, Guarded
<1>3. new = db /\ \A x \in RowNames : holder[x] = NoTx
  BY <1>2, FreeIsCommitted
<1>4. PICK st \in HandoffState : Write(w, [x \in {"chat"} |-> HandedOff(st, db)[x]])
  BY <1>3 DEF Handoff
<1>5. /\ pc' = [pc EXCEPT ![w] = "commit"] /\ db' = db
      /\ new' = [x \in RowNames |-> IF x = "chat" THEN HandedOff(st, db)[x] ELSE db[x]]
      /\ holder' = [x \in RowNames |-> IF x = "chat" THEN w ELSE holder[x]]
      /\ UNCHANGED <<req, seen, posted>>
  BY <1>3, <1>4 DEF Handoff, Write, Goto
<1>6. new' = HandedOff(st, db)
  <2>1. db = [x \in RowNames |-> db[x]]
    BY DEF IInv, Rows, GoodDesk, IsDesk
  <2>2. /\ HandedOff(st, db) = [x \in RowNames |-> HandedOff(st, db)[x]]
        /\ \A x \in RowNames : x # "chat" => HandedOff(st, db)[x] = db[x]
    BY <2>1 DEF HandedOff, RowNames
  <2>3. QED
    BY <1>5, <2>2
<1>7. \A u \in Txs : pc[u] \notin {"act", "commit"}
  BY <1>2, NoTxIsNoTx DEF IInv, Guarded
<1>8. Rows' /\ Shape'
  BY <1>1, <1>5 DEF IInv, Rows, Shape
<1>9. Guarded'
  BY <1>1, <1>3, <1>5, <1>7, NoTxIsNoTx DEF IInv, Guarded, Shape, RowNames
<1>10. /\ pc'[w] = "commit"
       /\ \A u \in Txs \ {w} : pc'[u] = pc[u] /\ pc'[u] \notin {"act", "commit"}
  BY <1>1, <1>5, <1>7 DEF IInv, Shape
<1>11. Served'
  BY <1>5, <1>10, TxsServe, HandlersAreNoWorkers DEF IInv, Served
<1>12. Handing'
  BY <1>5, <1>6, <1>10, TxsServe DEF Handing
<1>13. QED
  BY <1>8, <1>9, <1>11, <1>12 DEF IInv

LEMMA NextIInv == IInv /\ [Next]_cvars => IInv'
<1> SUFFICES ASSUME IInv, [Next]_cvars PROVE IInv'
  OBVIOUS
<1>1. CASE UNCHANGED cvars
  BY <1>1 DEF cvars, IInv, Rows, Guarded, Served, Handing, Shape
<1>2. ASSUME NEW h \in Handlers, Load(h) \/ Act(h) \/ \E q \in Requests : Receive(h, q)
      PROVE  IInv'
  BY <1>2, LoadIInv, ActIInv, ReceiveIInv
<1>3. ASSUME NEW w \in Workers, ReadChat(w) \/ Handoff(w)
      PROVE  IInv'
  BY <1>3, ReadChatIInv, HandoffIInv
<1>4. ASSUME NEW t \in Txs, Commit(t) \/ Abort(t)
      PROVE  IInv'
  BY <1>4, CommitIInv, AbortIInv
<1>5. QED
  BY <1>1, <1>2, <1>3, <1>4 DEF Next

LEMMA NextOperates == IInv /\ [Next]_cvars => Operation /\ AgentsOwn(db, db')
<1> SUFFICES ASSUME IInv, [Next]_cvars PROVE Operation /\ AgentsOwn(db, db')
  OBVIOUS
<1>1. CASE db' = db
  BY <1>1 DEF Operation, AgentsOwn
<1>2. ASSUME NEW t \in Txs, Commit(t)
      PROVE  Operation /\ AgentsOwn(db, db')
  BY <1>2, CommitOperates DEF Operation
<1>3. db' = db \/ \E t \in Txs : Commit(t)
  <2>1. CASE UNCHANGED cvars
    BY <2>1 DEF cvars
  <2>2. ASSUME NEW h \in Handlers,
               Load(h) \/ Act(h) \/ \E q \in Requests : Receive(h, q)
        PROVE  db' = db
    BY <2>2 DEF Load, Act, Receive, Write, dbVars
  <2>3. ASSUME NEW w \in Workers, ReadChat(w) \/ Handoff(w)
        PROVE  db' = db
    BY <2>3 DEF ReadChat, Handoff, Write, dbVars
  <2>4. ASSUME NEW t \in Txs, Abort(t)
        PROVE  db' = db
    BY <2>4 DEF Abort, Rollback
  <2>5. QED
    BY <2>1, <2>2, <2>3, <2>4 DEF Next
<1>4. QED
  BY <1>1, <1>2, <1>3

THEOREM AlwaysIInv == Spec => []IInv
<1>1. QED
  BY InitIInv, NextIInv, PTL DEF Spec

-----------------------------------------------------------------------------
(* The rows, the locks and the program counters have their types.          *)
THEOREM TypeCorrect == Spec => []TypeOK
<1>1. IInv => TypeOK
  BY DEF IInv, Rows, Shape, GoodDesk, IsDesk, TypeOK
<1>2. QED
  BY <1>1, AlwaysIInv, PTL

(* For any number of handlers and workers, inbox_chats and the ACTIVE      *)
(* assignment name the same user in every committed state.                 *)
THEOREM AssigneesAgree == Spec => []AssigneeAgrees
<1>1. IInv => AssigneeAgrees
  BY DEF IInv, Rows, GoodDesk, Agrees, AssigneeAgrees
<1>2. QED
  BY <1>1, AlwaysIInv, PTL

(* No assignment outlives a resolution.                                    *)
THEOREM ClosedChatsAreFree == Spec => []ClosedIsFree
<1>1. IInv => ClosedIsFree
  BY DEF IInv, Rows, GoodDesk, Agrees, ClosedIsFree
<1>2. QED
  BY <1>1, AlwaysIInv, PTL

(* The last audit entry names the user of the ACTIVE assignment.           *)
THEOREM AuditTells == Spec => []AuditExplains
<1>1. IInv => AuditExplains
  BY DEF IInv, Rows, GoodDesk, Agrees, AuditExplains
<1>2. QED
  BY <1>1, AlwaysIInv, PTL

(* A key is never stored with two messages, however many retries race.     *)
THEOREM KeysAreUnique == Spec => []OneMessagePerKey
<1>1. IInv => OneMessagePerKey
  BY DEF IInv, Rows, GoodDesk, Unrepeated, OneMessagePerKey
<1>2. QED
  BY <1>1, AlwaysIInv, PTL

(* An agent's message is committed only while the chat is his.             *)
THEOREM AgentsReplyOnTheirs == Spec => RepliesByAssignee
<1>1. IInv /\ [Next]_cvars =>
        [\A m \in db'.messages \ db.messages :
           m.by \in Agents => db.active = m.by /\ db'.active = m.by]_cvars
  BY NextOperates DEF AgentsOwn
<1>2. QED
  BY <1>1, AlwaysIInv, PTL DEF Spec, RepliesByAssignee

-----------------------------------------------------------------------------
(* Desk, seen through db, speaks of the operations of InboxOps.            *)
LEMMA SameOperations ==
  ASSUME NEW q, NEW st, NEW u, NEW d
  PROVE  /\ Serial!Outcome(q, st, u, d) = Outcome(q, st, u, d)
         /\ Serial!HandedOff(st, d) = HandedOff(st, d)
<1>1. /\ Serial!Assigned(q, u, d) = Assigned(q, u, d)
      /\ Serial!Replied(q, u, d) = Replied(q, u, d)
  <2>1. Serial!Assigned(q, u, d) = Assigned(q, u, d)
    BY DEF Serial!Assigned, Assigned, Serial!Logged, Logged
  <2>2. Serial!MayReply(q, u) = MayReply(q, u)
    BY Zenon DEF Serial!MayReply, MayReply
  <2>3. Serial!Replayed(q, d) = Replayed(q, d)
    BY DEF Serial!Replayed, Replayed
  <2>4. \A n : /\ Serial!IdemKey(q, n) = IdemKey(q, n)
               /\ Serial!Enqueued(q, n, d) = Enqueued(q, n, d)
    BY DEF Serial!Enqueued, Enqueued, Serial!IdemKey, IdemKey
  <2>5. Serial!Cardinality(d.messages) = Cardinality(d.messages)
    BY Zenon DEF Serial!Cardinality, Cardinality
  <2>6. Serial!Replied(q, u, d) = Replied(q, u, d)
    BY <2>2, <2>3, <2>4, <2>5 DEF Serial!Replied, Replied
  <2>7. QED
    BY <2>1, <2>6
<1>2. ASSUME NEW event, NEW s
      PROVE  Serial!Freed(event, s, u, d) = Freed(event, s, u, d)
  BY DEF Serial!Freed, Freed, Serial!Ended, Ended, Serial!Logged, Logged
<1>3. /\ Serial!Unassigned(q, u, d) = Unassigned(q, u, d)
      /\ Serial!Resolved(st, u, d) = Resolved(st, u, d)
  BY <1>2 DEF Serial!Unassigned, Unassigned, Serial!Resolved, Resolved
<1>4. Serial!Outcome(q, st, u, d) = Outcome(q, st, u, d)
  BY <1>1, <1>2, <1>3 DEF Serial!Outcome, Outcome, Serial!MayAsk, MayAsk,
                          Serial!Assigns, Assigns
<1>5. QED
  BY <1>4 DEF Serial!HandedOff, HandedOff

(* The handlers are serializable for any sets of requests and processes:   *)
(* every commit is one operation of Desk on the rows the last one left.    *)
THEOREM ConversationImplementsDesk == Spec => ImplementsDesk
<1>1. Init => Serial!Init
  BY DEF Init, Serial!Init, Serial!FreshChat, FreshChat
<1>2. IInv /\ [Next]_cvars => [Serial!Next]_db
  <2> SUFFICES ASSUME Operation PROVE [Serial!Next]_db
    BY NextOperates
  <2>1. CASE db' = db
    BY <2>1
  <2>2. ASSUME NEW q \in Requests, db' = Outcome(q, db.chat.state, db.active, db)
        PROVE  Serial!Next
    BY <2>2, SameOperations DEF Serial!Next, Serial!Serve
  <2>3. ASSUME NEW st \in HandoffState, db' = HandedOff(st, db)
        PROVE  Serial!Next
    BY <2>3, SameOperations DEF Serial!Next, Serial!Handoff, Serial!HandoffState, HandoffState
  <2>4. QED
    BY <2>1, <2>2, <2>3 DEF Operation
<1>3. QED
  BY <1>1, <1>2, AlwaysIInv, PTL DEF Spec, ImplementsDesk, Serial!Spec
=============================================================================
