-------------------------- MODULE InboundPipeline --------------------------
(***************************************************************************)
(* From a customer's message to the AI's answer: the inbound webhook of    *)
(* backend/apps/wa_gateway/main.py, which stores messages and opens or     *)
(* extends a batch per chat, and backend/workers/batch_processor.py, which *)
(* seals due batches, asks the AI engine and acts on its answer.  Both run *)
(* in long transactions over the same rows; every statement that may wait  *)
(* or whose snapshot matters is a step of its own.                         *)
(*                                                                         *)
(* Time.  now() is the start of the transaction, so the timestamps that    *)
(* decide which message belongs to which batch are transaction starts; the *)
(* model keeps their order (Now, Renumber).  Debouncing is abstracted: any *)
(* OPEN batch no newer than the worker's transaction may be due, or not.   *)
(*                                                                         *)
(* One client with a WhatsApp number is modelled; its chats share the      *)
(* day's PAYWALL key.                                                      *)
(***************************************************************************)
EXTENDS Naturals, SequencesExt, ReadCommitted

CONSTANTS
  Chats, Messages,
  ChatOf,           \* the chat of a message
  Webhooks,         \* what Meta posts: sequences of messages
  Gateways,         \* wa_gateway processes (an event loop each, and the
                    \* handler does not await: one request at a time)
  Workers,          \* batch_processor processes
  Instance,         \* INSTANCE_ID of a worker, by default its host's name
  CountRead,        \* main.py:479 reads extra_inbound_this_tx[client_id]:
                    \* "subscript" is the code, "get" reads 0 by default
  MaxFaults         \* bound: crashes and redeliveries in one behaviour

ASSUME TxsAre ==
  Txs = Gateways \cup Workers /\ Gateways \cap Workers = {} /\ IsFiniteSet(Txs)
ASSUME MessagesAre == IsFiniteSet(Messages) /\ ChatOf \in [Messages -> Chats]
ASSUME WebhooksAre == \A h \in Webhooks : h \in Seq(Messages) /\ h # <<>>
ASSUME CountReadIs == CountRead \in {"subscript", "get"}
ASSUME FaultsAreBounded == MaxFaults \in Nat

VARIABLES
  inflight,         \* webhooks posted and not yet served
  proc,             \* the local state of every process
  blocked,          \* the client is churned, out of trial or over its limit
  faults            \* faults the environment may still inject

vars == <<dbVars, inflight, proc, blocked, faults>>

-----------------------------------------------------------------------------
(* Rows.  No more batches are ever opened than there are messages.         *)
Batches == 1..Cardinality(Messages)
Chat(c) == <<"chat", c>>            \* inbox_chats.state
Msg(m) == <<"msg", m>>              \* inbox_messages, keyed by meta_msg_id
Batch(b) == <<"batch", b>>          \* inbox_inbound_batches
Lock(k) == <<"lock", k>>            \* processing_locks: unexpired owner
Reply(b) == <<"reply", b>>          \* wa_outbox: AI_REPLY to the batch
Paywall == <<"paywall", "today">>   \* wa_outbox: PAYWALL of the day
LockKeys == {Batch(b) : b \in Batches} \cup {Chat(c) : c \in Chats}

PipelineRows ==
  LockKeys \cup {Lock(k) : k \in LockKeys} \cup {Msg(m) : m \in Messages}
    \cup {Reply(b) : b \in Batches} \cup {Paywall}

ASSUME RowsAre == RowIds = PipelineRows

ChatState ==
  {"NONE", "AI_ACTIVE", "HUMAN_REQ", "WAITING_OWNER_DATA", "AGENT_ACTIVE"}
Answers == {"REPLY", "EMPTY", "HANDOFF", "NEEDS_OWNER_DATA"}

(* gated: the message met the paywall.                                     *)
NoMsg == [at |-> 0, gated |-> FALSE]

(* count is inbound_msg_count.  The last four fields are observers: the    *)
(* messages that opened or extended the batch, those of them that had done *)
(* so when the AI's answer came and are no later than sealed_at, whether   *)
(* the AI engine was asked, and about which messages.                      *)
NoBatch == [status |-> "NONE", chat |-> NoTx, opened |-> 0, sealed |-> 0,
            count |-> 0,
            joined |-> {}, ready |-> {}, asked |-> FALSE, text |-> {}]

(* What a process remembers: the next statement, now(), the messages or    *)
(* batches left; a gateway: its request, whether extra_inbound_this_tx has *)
(* the client, the paywall's verdict, the OPEN batch its statement saw; a  *)
(* worker: batch_text and the AI's answer.                                 *)
Idle == [pc |-> "idle", start |-> 0, todo |-> <<>>,
         webhook |-> <<>>, counted |-> FALSE, gate |-> FALSE, found |-> 0,
         text |-> {}, answer |-> "NONE"]

Cur(t) == Head(proc[t].todo)
Goto(t, l) == proc' = [proc EXCEPT ![t].pc = l]

(* The for loops: on to the next message or batch, or to the COMMIT.       *)
Continue(t, l) ==
  LET rest == Tail(proc[t].todo)
  IN proc' = [proc EXCEPT ![t].todo = rest,
                          ![t].pc = IF rest = <<>> THEN "commit" ELSE l]

(* An instant later than all that are remembered.                          *)
Instants ==
  {0} \cup {proc[t].start : t \in Txs}
      \cup {new[Msg(m)].at : m \in Messages}
      \cup UNION {{new[Batch(b)].opened, new[Batch(b)].sealed} : b \in Batches}
Now == Cardinality(Instants)

(* Only the order of instants matters: when some were forgotten, the rest  *)
(* are numbered from 0 again, before any transaction starts.               *)
Compact == Instants = 0..(Now - 1)
Rank(n) == Cardinality({k \in Instants : k < n})
Renumbered(x, v) ==
  CASE x[1] = "msg" -> [v EXCEPT !.at = Rank(@)]
    [] x[1] = "batch" -> [v EXCEPT !.opened = Rank(@), !.sealed = Rank(@)]
    [] OTHER -> v

Fault == faults > 0 /\ faults' = faults - 1

TypeOK ==
  /\ \A x \in RowIds : holder[x] \in Txs \cup {NoTx}
  /\ \A c \in Chats : db[Chat(c)] \in ChatState
  /\ \A m \in Messages : db[Msg(m)] \in [at : Nat, gated : BOOLEAN]
  /\ \A b \in Batches :
       /\ db[Batch(b)].status \in {"NONE", "OPEN", "SEALED", "PROCESSED"}
       /\ db[Reply(b)] \in {"NONE", "REPLY", "NEEDS_OWNER_DATA"}
  /\ inflight \subseteq Webhooks
  /\ DOMAIN proc = Txs
  /\ blocked \in BOOLEAN /\ faults \in 0..MaxFaults

Init ==
  /\ db = [x \in RowIds |->
             CASE x[1] \in {"chat", "reply"} -> "NONE"
               [] x[1] = "msg" -> NoMsg
               [] x[1] = "batch" -> NoBatch
               [] x[1] = "lock" -> NoTx
               [] x[1] = "paywall" -> FALSE]
  /\ new = db
  /\ holder = [x \in RowIds |-> NoTx]
  /\ inflight = Webhooks
  /\ proc = [t \in Txs |-> Idle]
  /\ blocked = FALSE
  /\ faults = MaxFaults

-----------------------------------------------------------------------------
(* The gateway: meta_inbound, one transaction per request.                 *)
Receive(g, h) ==
  /\ proc[g].pc = "idle" /\ h \in inflight /\ Compact
  /\ inflight' = inflight \ {h}
  /\ proc' = [proc EXCEPT ![g] = [Idle EXCEPT !.pc = "check", !.start = Now,
                                              !.todo = h, !.webhook = h]]
  /\ UNCHANGED <<dbVars, blocked, faults>>

(* The subscript of an empty dict: KeyError, which no handler catches; the *)
(* transaction is rolled back and Meta gets a 500, after which it retries. *)
CountAlwaysMissing(g) == ~proc[g].counted
CountMissing(g) == CountRead = "subscript" /\ ~proc[g].counted

Abandon(t) ==
  /\ Rollback(t)
  /\ proc' = [proc EXCEPT ![t] = Idle]
  /\ inflight' = IF t \in Gateways THEN inflight \cup {proc[t].webhook}
                                   ELSE inflight

(* Route, client row, usage of the day, _inbound_ai_block_reason: reads.   *)
CheckClient(g) ==
  /\ proc[g].pc = "check"
  /\ IF CountMissing(g)
       THEN Abandon(g)
       ELSE /\ proc' = [proc EXCEPT ![g].pc = "store", ![g].gate = blocked]
            /\ UNCHANGED <<dbVars, inflight>>
  /\ UNCHANGED <<blocked, faults>>

(* ON CONFLICT (meta_msg_id) DO NOTHING: was a row inserted?               *)
AlwaysFresh(g, m) == TRUE
Fresh(g, m) == new[Msg(m)] = NoMsg

(* The rows the upsert of inbox_chats locks.                               *)
UpsertNothing(c) == {}
UpsertLocks(c) == {Chat(c)}

(* The upsert of the chat, which keeps the chat's row locked until the     *)
(* transaction ends, then the insert of the message.                       *)
StoreMessage(g) ==
  LET m == Cur(g)
      c == ChatOf[m]
      chatRow == [x \in UpsertLocks(c) |->
                    IF new[x] = "NONE" THEN "AI_ACTIVE" ELSE new[x]]
      stored == [at |-> proc[g].start, gated |-> proc[g].gate]
  IN /\ proc[g].pc = "store"
     /\ \A x \in UpsertLocks(c) \cup {Msg(m)} : CanLock(g, x)
     /\ IF Fresh(g, m)
          THEN /\ Write(g, Both(chatRow, Row(Msg(m), stored)))
               /\ proc' = [proc EXCEPT
                     ![g].counted = TRUE,
                     ![g].pc = IF proc[g].gate THEN "paywall" ELSE "batch"]
          ELSE /\ Write(g, chatRow)
               /\ Continue(g, "check")
     /\ UNCHANGED <<inflight, blocked, faults>>

OpenBatches(t, c) ==
  {b \in Batches : Sees(t, Batch(b)).status = "OPEN" /\ Sees(t, Batch(b)).chat = c}
NewBatch == CHOOSE b \in Batches : new[Batch(b)] = NoBatch

(* _open_or_extend_batch: `existing' is what the statement's snapshot      *)
(* shows; the insert happens at once, the update may have to wait.         *)
FindBatch(g) ==
  LET c == ChatOf[Cur(g)]
      open == OpenBatches(g, c)
  IN /\ proc[g].pc = "batch"
     /\ \/ /\ open = {}
           /\ Write(g, Row(Batch(NewBatch),
                [NoBatch EXCEPT !.status = "OPEN", !.chat = c,
                                !.opened = proc[g].start,
                                !.count = 1, !.joined = {Cur(g)}]))
           /\ Continue(g, "check")
        \/ /\ \E b \in open :
                /\ \A k \in open : new[Batch(k)].opened <= new[Batch(b)].opened
                /\ proc' = [proc EXCEPT ![g].pc = "extend", ![g].found = b]
           /\ UNCHANGED dbVars
     /\ UNCHANGED <<inflight, blocked, faults>>

(* UPDATE ... WHERE b.id = (SELECT id FROM existing), on the newest        *)
(* version of the row, whatever its status has become.                     *)
ExtendBatch(g) ==
  LET x == Batch(proc[g].found)
  IN /\ proc[g].pc = "extend" /\ CanLock(g, x)
     /\ Write(g, Row(x, [new[x] EXCEPT !.count = @ + 1, !.joined = @ \cup {Cur(g)}]))
     /\ Continue(g, "check")
     /\ UNCHANGED <<inflight, blocked, faults>>

(* _enqueue_paywall_outbox: one row per reason, client and day.            *)
GatewayPaywall(g) ==
  /\ proc[g].pc = "paywall" /\ g \in Gateways /\ CanLock(g, Paywall)
  /\ IF new[Paywall] THEN UNCHANGED dbVars ELSE Write(g, Row(Paywall, TRUE))
  /\ Continue(g, "check")
  /\ UNCHANGED <<inflight, blocked, faults>>

Commit(t) ==
  /\ proc[t].pc = "commit"
  /\ Publish(t)
  /\ proc' = [proc EXCEPT ![t] = Idle]
  /\ UNCHANGED <<inflight, blocked, faults>>

-----------------------------------------------------------------------------
(* The worker: run_once, one transaction for all the batches it selects.   *)
(* BEGIN fixes now().  The SELECT's snapshot is its own, and shows what    *)
(* was committed in between.                                               *)
BeginTick(w) ==
  /\ proc[w].pc = "idle" /\ Compact
  /\ proc' = [proc EXCEPT ![w] =
       [Idle EXCEPT !.pc = "select", !.start = Now]]
  /\ UNCHANGED <<dbVars, inflight, blocked, faults>>

(* status = 'OPEN' AND process_after <= now(): process_after is never      *)
(* earlier than opened_at, and abstracted beyond that.                     *)
Due(w, b) ==
  db[Batch(b)].status = "OPEN" /\ db[Batch(b)].opened <= proc[w].start

AllDue(w) == {b \in Batches : Due(w, b)}

SelectDue(w, D) ==
  /\ proc[w].pc = "select" /\ \A b \in D : Due(w, b)
  /\ \E order \in SetToSeqs(D) :
       proc' = [proc EXCEPT ![w].todo = order,
                            ![w].pc = IF D = {} THEN "commit" ELSE "lock batch"]
  /\ UNCHANGED <<dbVars, inflight, blocked, faults>>

(* _acquire_lock: the upsert holds the row even when its WHERE says no.    *)
Granted(w, k) == new[Lock(k)] \in {NoTx, Instance[w]}
AcquireLock(w, k, l) ==
  /\ CanLock(w, Lock(k))
  /\ IF Granted(w, k)
       THEN Write(w, Row(Lock(k), Instance[w])) /\ Goto(w, l)
       ELSE Write(w, Row(Lock(k), new[Lock(k)])) /\ Continue(w, "lock batch")
  /\ UNCHANGED <<inflight, blocked, faults>>

LockBatch(w) ==
  proc[w].pc = "lock batch" /\ AcquireLock(w, Batch(Cur(w)), "lock chat")
LockChat(w) ==
  /\ proc[w].pc = "lock chat"
  /\ AcquireLock(w, Chat(db[Batch(Cur(w))].chat), "seal")

(* WHERE id = :id AND status = 'OPEN'                                      *)
SealAny(st) == st # "NONE"
Sealable(st) == st = "OPEN"

Seal(w) ==
  LET x == Batch(Cur(w))
  IN /\ proc[w].pc = "seal" /\ CanLock(w, x)
     /\ IF Sealable(new[x].status)
          THEN /\ Write(w, Row(x, [new[x] EXCEPT !.status = "SEALED",
                                                 !.sealed = proc[w].start]))
               /\ Goto(w, "read")
          ELSE UNCHANGED dbVars /\ Continue(w, "lock batch")
     /\ UNCHANGED <<inflight, blocked, faults>>

(* timestamp >= :opened_at AND timestamp <= :sealed_at                     *)
WindowRolling(w, x, m) ==
  Sees(w, Msg(m)).at > 0 /\ Sees(w, Msg(m)).at <= new[x].sealed
WindowOpenLeft(w, x, m) ==
  Sees(w, Msg(m)).at > new[x].opened /\ Sees(w, Msg(m)).at <= new[x].sealed
InWindow(w, x, m) ==
  Sees(w, Msg(m)).at >= new[x].opened /\ Sees(w, Msg(m)).at <= new[x].sealed

(* The status a batch is left with when the AI is not asked.               *)
SkippedOpen == "SEALED"
Skipped == "PROCESSED"

(* The chat's state and the window's messages; without the AI when a human *)
(* has the chat, then the second-line paywall.                             *)
ReadChat(w) ==
  LET x == Batch(Cur(w))
      c == new[x].chat
  IN /\ proc[w].pc = "read"
     /\ IF Sees(w, Chat(c)) # "AI_ACTIVE"
          THEN /\ Write(w, Row(x, [new[x] EXCEPT !.status = Skipped]))
               /\ Continue(w, "lock batch")
          ELSE /\ proc' = [proc EXCEPT
                     ![w].text = {m \in Messages : ChatOf[m] = c /\ InWindow(w, x, m)},
                     ![w].pc = IF blocked THEN "paywall" ELSE "ask"]
               /\ UNCHANGED dbVars
     /\ UNCHANGED <<inflight, blocked, faults>>

WorkerPaywall(w) ==
  LET x == Batch(Cur(w))
  IN /\ proc[w].pc = "paywall" /\ w \in Workers /\ CanLock(w, Paywall)
     /\ Write(w, Both(Row(x, [new[x] EXCEPT !.status = "PROCESSED"]),
                      IF new[Paywall] THEN NoRow ELSE Row(Paywall, TRUE)))
     /\ Continue(w, "lock batch")
     /\ UNCHANGED <<inflight, blocked, faults>>

(* POST /ai/respond, while the transaction stays open; any failure of the  *)
(* call is a HANDOFF, and so is an urgent REPLY.                           *)
AskAI(w) ==
  /\ proc[w].pc = "ask"
  /\ \E a \in Answers :
       proc' = [proc EXCEPT ![w].answer = a, ![w].pc = "apply"]
  /\ UNCHANGED <<dbVars, inflight, blocked, faults>>

StateIsAction(a) == a
StateAfter(a) ==
  IF a = "NEEDS_OWNER_DATA" THEN "WAITING_OWNER_DATA" ELSE "HUMAN_REQ"

(* The outbox row, the chat's new state, PROCESSED.                        *)
ApplyAnswer(w) ==
  LET b == Cur(w)
      x == Batch(b)
      c == Chat(new[x].chat)
      a == proc[w].answer
      done == [new[x] EXCEPT !.status = "PROCESSED", !.asked = TRUE,
                             !.text = proc[w].text,
                             !.ready = {m \in new[x].joined :
                                          Sees(w, Msg(m)).at <= new[x].sealed}]
      answered == Row(x, done)
      state == Row(c, StateAfter(a))
      reply == Row(Reply(b), a)
  IN /\ proc[w].pc = "apply"
     /\ CASE a = "REPLY" -> Write(w, Both(answered, reply))
          [] a = "EMPTY" -> Write(w, answered)
          [] a = "HANDOFF" -> CanLock(w, c) /\ Write(w, Both(answered, state))
          [] a = "NEEDS_OWNER_DATA" ->
               CanLock(w, c) /\ Write(w, Both(answered, Both(state, reply)))
     /\ Continue(w, "lock batch")
     /\ UNCHANGED <<inflight, blocked, faults>>

-----------------------------------------------------------------------------
(* The row a process's next statement waits for, if it is held.            *)
Wants(t) ==
  CASE proc[t].pc = "store" -> {Chat(ChatOf[Cur(t)]), Msg(Cur(t))}
    [] proc[t].pc = "extend" -> {Batch(proc[t].found)}
    [] proc[t].pc = "paywall" -> {Paywall}
    [] proc[t].pc = "lock batch" -> {Lock(Batch(Cur(t)))}
    [] proc[t].pc = "lock chat" -> {Lock(Chat(db[Batch(Cur(t))].chat))}
    [] proc[t].pc = "seal" -> {Batch(Cur(t))}
    [] proc[t].pc = "apply" /\ proc[t].answer \in {"HANDOFF", "NEEDS_OWNER_DATA"}
         -> {Chat(new[Batch(Cur(t))].chat)}
    [] OTHER -> {}

(* The database aborts one transaction of a circle.                        *)
BreakDeadlock(t) ==
  /\ Deadlocked(t, Wants)
  /\ Abandon(t)
  /\ UNCHANGED <<blocked, faults>>

(* The process dies, or a statement fails: an insert of an alert whose     *)
(* exception run_once swallows fails the transaction all the same.         *)
Crash(t) ==
  /\ proc[t].pc # "idle" /\ Fault
  /\ Abandon(t)
  /\ UNCHANGED blocked

(* Meta posts a webhook again: no answer in time, or for no reason.        *)
Redeliver(h) ==
  /\ h \notin inflight /\ Fault
  /\ inflight' = inflight \cup {h}
  /\ UNCHANGED <<dbVars, proc, blocked>>

(* The 120 s of a lock are over.                                           *)
LockExpires(k) ==
  /\ db[Lock(k)] # NoTx
  /\ WriteNow(Lock(k), NoTx)
  /\ UNCHANGED <<inflight, proc, blocked, faults>>

(* An agent is assigned, or answers: a transaction of client_api.          *)
AgentTakes(c) ==
  /\ db[Chat(c)] \notin {"NONE", "AGENT_ACTIVE"}
  /\ WriteNow(Chat(c), "AGENT_ACTIVE")
  /\ UNCHANGED <<inflight, proc, blocked, faults>>

Renumber ==
  /\ ~Compact
  /\ db' = [x \in RowIds |-> Renumbered(x, db[x])]
  /\ new' = [x \in RowIds |-> Renumbered(x, new[x])]
  /\ proc' = [t \in Txs |-> [proc[t] EXCEPT !.start = Rank(@)]]
  /\ UNCHANGED <<holder, inflight, blocked, faults>>

ServiceEnds ==
  /\ ~blocked /\ blocked' = TRUE
  /\ UNCHANGED <<dbVars, inflight, proc, faults>>

GatewayStep(g) ==
  \/ CheckClient(g) \/ StoreMessage(g) \/ FindBatch(g) \/ ExtendBatch(g)
  \/ GatewayPaywall(g) \/ Commit(g)
WorkerStep(w) ==
  \/ BeginTick(w) \/ LockBatch(w) \/ LockChat(w) \/ Seal(w) \/ ReadChat(w)
  \/ WorkerPaywall(w) \/ AskAI(w) \/ ApplyAnswer(w) \/ Commit(w)

Next ==
  \/ \E g \in Gateways : GatewayStep(g) \/ \E h \in Webhooks : Receive(g, h)
  \/ \E w \in Workers : WorkerStep(w) \/ \E D \in SUBSET Batches : SelectDue(w, D)
  \/ \E t \in Txs : BreakDeadlock(t) \/ Crash(t)
  \/ \E h \in Webhooks : Redeliver(h)
  \/ \E k \in LockKeys : LockExpires(k)
  \/ \E c \in Chats : AgentTakes(c)
  \/ ServiceEnds \/ Renumber

(* Meta posts a webhook until it is served; main() loops for ever, and     *)
(* time and again the process_after of every OPEN batch (25 at most) has   *)
(* passed; the HTTP call has a timeout; the database aborts a transaction  *)
(* of a circle, and serves in turn those who wait for a row, also where    *)
(* the row is free for a while only.                                       *)
Fairness ==
  /\ \A h \in Webhooks : WF_vars(\E g \in Gateways : Receive(g, h))
  /\ SF_vars(\E w \in Workers : AllDue(w) # {} /\ SelectDue(w, AllDue(w)))
  /\ \A g \in Gateways : WF_vars(GatewayStep(g)) /\ SF_vars(ExtendBatch(g))
  /\ \A w \in Workers :
       /\ WF_vars(WorkerStep(w) \/ \E D \in SUBSET Batches : SelectDue(w, D))
       /\ SF_vars(ApplyAnswer(w))
  /\ WF_vars(\E t \in Txs : BreakDeadlock(t))
  /\ WF_vars(Renumber)

Spec == Init /\ [][Next]_vars
FairSpec == Spec /\ Fairness

-----------------------------------------------------------------------------
(* A chat never has two OPEN batches, though no constraint of the schema   *)
(* says so: the upsert of the chat serializes the webhooks of a chat.      *)
OneOpenBatch ==
  \A b, k \in Batches :
    /\ db[Batch(b)].status = "OPEN" /\ db[Batch(k)].status = "OPEN"
    /\ db[Batch(b)].chat = db[Batch(k)].chat
    => b = k

(* A stored message that did not meet the paywall is counted by exactly    *)
(* one batch and once, whatever is redelivered, rolled back or processed   *)
(* meanwhile; one that met the paywall is counted by none.                 *)
CountedOnce ==
  /\ \A m \in Messages :
       Cardinality({b \in Batches : m \in db[Batch(b)].joined})
         = IF db[Msg(m)] = NoMsg \/ db[Msg(m)].gated THEN 0 ELSE 1
  /\ \A b \in Batches :
       db[Batch(b)].count = Cardinality(db[Batch(b)].joined)

(* No batch is ever left SEALED: whoever reads the table sees it OPEN or   *)
(* PROCESSED, so there is nothing a crash could strand half way.           *)
NeverLeftSealed == \A b \in Batches : db[Batch(b)].status # "SEALED"

(* What the AI was asked about a batch, and what came of it, is settled    *)
(* once: no second worker seals or answers a processed batch again.        *)
ProcessedOnce ==
  [][\A b \in Batches :
       db[Batch(b)].status = "PROCESSED" =>
         /\ \A f \in {"status", "asked", "text"} :
              db'[Batch(b)][f] = db[Batch(b)][f]
         /\ db'[Reply(b)] = db[Reply(b)]]_vars

(* With one gateway process: when the AI is asked about a batch, it gets   *)
(* every message of the batch whose webhook began before the worker's      *)
(* transaction.  (One that begins later and joins before the SELECT or the *)
(* Seal is timed after sealed_at, and no answer takes it in.)              *)
ReadyIsAsked ==
  \A b \in Batches :
    db[Batch(b)].asked => db[Batch(b)].ready \subseteq db[Batch(b)].text

(* With one gateway process: no message is put to the AI twice.            *)
AskedOnce ==
  \A b, k \in Batches :
    b # k => db[Batch(b)].text \cap db[Batch(k)].text = {}

(* Every message Meta posts is stored at last: "store-first ingestion".    *)
EventuallyStored == <>(\A m \in Messages : db[Msg(m)] # NoMsg)

(* Time and again no batch is left OPEN or SEALED: each one is processed   *)
(* at last, past refused locks, lost circles, crashes and failures of the  *)
(* AI engine.                                                              *)
EventuallyProcessed ==
  []<>(\A b \in Batches : db[Batch(b)].status \notin {"OPEN", "SEALED"})

(* batch_text is built "from inbound messages since opened_at": the AI     *)
(* gets every message that joined the batch.                               *)
AskedAboutAll ==
  \A b \in Batches :
    db[Batch(b)].asked => db[Batch(b)].joined \subseteq db[Batch(b)].text

(* While an agent has the chat, no AI reply is inserted in the outbox.     *)
AgentSilencesAI ==
  [][\A b \in Batches :
       new[Reply(b)] = "NONE" /\ new'[Reply(b)] # "NONE" =>
         db[Chat(db[Batch(b)].chat)] # "AGENT_ACTIVE"]_vars
=============================================================================
