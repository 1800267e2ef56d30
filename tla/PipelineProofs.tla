--------------------------- MODULE PipelineProofs ---------------------------
(***************************************************************************)
(* What the gateways and the batch processors keep true of batches and     *)
(* messages, for any number of processes, chats, messages and webhooks;    *)
(* and, in the last part, what one gateway process and any number of       *)
(* workers keep true of the windows the AI is asked about.                 *)
(***************************************************************************)
EXTENDS InboundPipeline, TLAPS, FiniteSetTheorems, SequenceTheorems

(* What the columns of a row allow.                                        *)
MsgRecords == [at : Nat, gated : BOOLEAN]
BatchRecords ==
  [status : {"NONE", "OPEN", "SEALED", "PROCESSED"}, chat : Chats \cup {NoTx},
   opened : Nat, sealed : Nat, count : Nat, joined : SUBSET Messages,
   ready : SUBSET Messages, asked : BOOLEAN, text : SUBSET Messages]

MsgSound(r) == r \in MsgRecords /\ (r.at = 0 => r = NoMsg)
BatchSound(r) ==
  /\ r \in BatchRecords
  /\ IF r.status = "NONE" THEN r = NoBatch ELSE r.chat \in Chats /\ r.joined # {}
  /\ \A m \in r.joined : ChatOf[m] = r.chat
  /\ r.count = Cardinality(r.joined)

Sound(x, v) ==
  /\ \A c \in Chats : x = Chat(c) => v \in ChatState
  /\ \A m \in Messages : x = Msg(m) => MsgSound(v)
  /\ \A b \in Batches : /\ x = Batch(b) => BatchSound(v)
                        /\ x = Reply(b) => v \in {"NONE", "REPLY", "NEEDS_OWNER_DATA"}

RowsSound ==
  /\ DOMAIN db = RowIds /\ DOMAIN new = RowIds /\ DOMAIN holder = RowIds
  /\ \A x \in RowIds : holder[x] \in Txs \cup {NoTx} /\ Sound(x, db[x]) /\ Sound(x, new[x])
  /\ UnlockedIsCommitted

AtWork(t) == proc[t].pc \in {"read", "ask", "paywall", "apply"}
Joining(g) == proc[g].pc \in {"batch", "extend"}

GatewaySound(g) ==
  /\ proc[g].pc \in {"idle", "check", "store", "batch", "extend", "paywall", "commit"}
  /\ proc[g].todo \in Seq(Messages)
  /\ proc[g].pc \notin {"idle", "commit"} => proc[g].todo # <<>>
  /\ proc[g].pc # "idle" => proc[g].webhook \in Webhooks /\ proc[g].start > 0
  /\ proc[g].pc = "extend" => proc[g].found \in Batches

WorkerSound(w) ==
  /\ proc[w].pc \in {"idle", "select", "lock batch", "lock chat", "seal",
                     "read", "ask", "paywall", "apply", "commit"}
  /\ proc[w].todo \in Seq(Batches)
  /\ proc[w].pc \notin {"idle", "select", "commit"} => proc[w].todo # <<>>
  /\ proc[w].pc = "apply" => proc[w].answer \in Answers

ProcSound(t) ==
  /\ DOMAIN proc[t] = DOMAIN Idle
  /\ proc[t].start \in Nat /\ proc[t].gate \in BOOLEAN
  /\ proc[t].text \subseteq Messages
  /\ t \in Gateways => GatewaySound(t)
  /\ t \in Workers => WorkerSound(t)

ProcsSound ==
  /\ DOMAIN proc = Txs
  /\ \A t \in Txs : ProcSound(t)
  /\ inflight \subseteq Webhooks /\ blocked \in BOOLEAN /\ faults \in 0..MaxFaults

TypeInv == RowsSound /\ ProcsSound

-----------------------------------------------------------------------------
(* Who holds a batch, and what he may have done to it: a gateway has       *)
(* opened or extended it and holds the chat; a worker has taken it from    *)
(* OPEN, and leaves it SEALED only while he works on it.                   *)
GatewayHolds(g, b) ==
  LET old == db[Batch(b)]
      row == new[Batch(b)]
  IN /\ holder[Chat(row.chat)] = g
     /\ IF old.status = "NONE"
          THEN row.status = "OPEN"
          ELSE row.status = old.status /\ row.asked = old.asked /\ row.text = old.text
WorkerHolds(w, b) ==
  /\ db[Batch(b)].status = "OPEN"
  /\ \/ new[Batch(b)].status = "PROCESSED"
     \/ new[Batch(b)].status = "SEALED" /\ AtWork(w) /\ Cur(w) = b

Holders ==
  \A b \in Batches :
    /\ holder[Batch(b)] \in Gateways => GatewayHolds(holder[Batch(b)], b)
    /\ holder[Batch(b)] \in Workers => WorkerHolds(holder[Batch(b)], b)
    /\ holder[Reply(b)] # NoTx =>
         holder[Reply(b)] \in Workers /\ holder[Batch(b)] = holder[Reply(b)]

(* A batch stays in its chat, and is SEALED in nobody's eyes but the       *)
(* worker's.                                                               *)
Committed ==
  \A b \in Batches :
    /\ db[Batch(b)].status \in {"NONE", "OPEN", "PROCESSED"}
    /\ db[Batch(b)].status # "NONE" =>
         new[Batch(b)].status # "NONE" /\ new[Batch(b)].chat = db[Batch(b)].chat

(* A gateway that looks for a batch, or has found one, holds the chat; a   *)
(* worker at work holds his batch.                                         *)
FoundBatch(g) ==
  LET b == proc[g].found
  IN /\ new[Batch(b)].status # "NONE" /\ new[Batch(b)].chat = ChatOf[Cur(g)]
     /\ holder[Batch(b)] = g \/ db[Batch(b)].status # "NONE"
Guarded ==
  /\ \A g \in Gateways :
       /\ Joining(g) => holder[Chat(ChatOf[Cur(g)])] = g
       /\ proc[g].pc = "extend" => FoundBatch(g)
  /\ \A w \in Workers : AtWork(w) =>
       holder[Batch(Cur(w))] = w /\ new[Batch(Cur(w))].status = "SEALED"

MaybeOpen(b) == db[Batch(b)].status = "OPEN" \/ new[Batch(b)].status = "OPEN"
OneMaybeOpen ==
  \A b, k \in Batches :
    MaybeOpen(b) /\ MaybeOpen(k) /\ new[Batch(b)].chat = new[Batch(k)].chat => b = k

SerialInv == Holders /\ Committed /\ Guarded /\ OneMaybeOpen

-----------------------------------------------------------------------------
(* Messages and the batches that count them.                               *)
Stored(r) == r.at > 0

MessageHolders ==
  \A m \in Messages : holder[Msg(m)] # NoTx =>
    holder[Msg(m)] \in Gateways /\ ~Stored(db[Msg(m)]) /\ Stored(new[Msg(m)])

JoinedOnce ==
  \A m \in Messages, b \in Batches :
    /\ m \in new[Batch(b)].joined =>
         /\ Stored(new[Msg(m)]) /\ ~new[Msg(m)].gated
         /\ \A k \in Batches : m \in new[Batch(k)].joined => k = b
    /\ m \in db[Batch(b)].joined => m \in new[Batch(b)].joined /\ Stored(db[Msg(m)])
    /\ m \in new[Batch(b)].joined /\ m \notin db[Batch(b)].joined =>
         holder[Batch(b)] \in Gateways /\ holder[Msg(m)] = holder[Batch(b)]

(* A message that is stored is in a batch, or about to be.                 *)
NoneForgotten ==
  \A m \in Messages :
    Stored(new[Msg(m)]) /\ ~new[Msg(m)].gated =>
      \/ \E b \in Batches : m \in new[Batch(b)].joined
      \/ \E g \in Gateways : Joining(g) /\ Cur(g) = m

JoinersAreNew ==
  \A g \in Gateways : Joining(g) =>
    /\ holder[Msg(Cur(g))] = g /\ ~new[Msg(Cur(g))].gated
    /\ \A b \in Batches : Cur(g) \notin new[Batch(b)].joined

CountInv == MessageHolders /\ JoinedOnce /\ NoneForgotten /\ JoinersAreNew

Inv == TypeInv /\ SerialInv /\ CountInv
-----------------------------------------------------------------------------
LEMMA Names ==
  /\ \A b, k, c, m :
       /\ Batch(b) \notin {Chat(c), Msg(m), Lock(k), Reply(k), Paywall}
       /\ Reply(b) \notin {Chat(c), Msg(m), Lock(k), Paywall}
       /\ Chat(c) \notin {Msg(m), Lock(k), Paywall}
       /\ Msg(m) \notin {Lock(k), Paywall}
       /\ Batch(b) = Batch(k) => b = k
       /\ Reply(b) = Reply(k) => b = k
       /\ Chat(b) = Chat(k) => b = k
       /\ Msg(b) = Msg(k) => b = k
  /\ \A b \in Batches : Batch(b) \in RowIds /\ Reply(b) \in RowIds
  /\ \A c \in Chats : Chat(c) \in RowIds
  /\ \A m \in Messages : Msg(m) \in RowIds
  /\ Paywall \in RowIds
<1>1. \A b, k, c, m :
       /\ Batch(b) \notin {Chat(c), Msg(m), Lock(k), Reply(k), Paywall}
       /\ Reply(b) \notin {Chat(c), Msg(m), Lock(k), Paywall}
       /\ Chat(c) \notin {Msg(m), Lock(k), Paywall}
       /\ Msg(m) \notin {Lock(k), Paywall}
       /\ Batch(b) = Batch(k) => b = k
       /\ Reply(b) = Reply(k) => b = k
       /\ Chat(b) = Chat(k) => b = k
       /\ Msg(b) = Msg(k) => b = k
  BY DEF Batch, Chat, Msg, Lock, Reply, Paywall
<1>2. QED
  BY <1>1, RowsAre DEF PipelineRows, LockKeys

LEMMA BatchesAre ==
  /\ Cardinality(Messages) \in Nat
  /\ IsFiniteSet(Batches) /\ Cardinality(Batches) = Cardinality(Messages)
  /\ Batches \subseteq Nat
<1>1. Cardinality(Messages) \in Nat
  BY MessagesAre, FS_CardinalityType
<1>2. IsFiniteSet(1..Cardinality(Messages))
      /\ Cardinality(1..Cardinality(Messages)) = Cardinality(Messages)
  BY <1>1, FS_Interval
<1>3. QED
  BY <1>1, <1>2 DEF Batches

(* What a statement leaves in the rows.                                    *)
LEMMA WriteOne ==
  ASSUME NEW t, NEW x, NEW v, Write(t, Row(x, v))
  PROVE  /\ db' = db
         /\ x \in RowIds => new'[x] = v /\ holder'[x] = t
         /\ \A y \in RowIds \ {x} : new'[y] = new[y] /\ holder'[y] = holder[y]
BY DEF Write, Row

LEMMA RowsKept ==
  ASSUME RowsSound, NEW t \in Txs, NEW ws, Write(t, ws),
         \A x \in DOMAIN ws \cap RowIds : Sound(x, ws[x])
  PROVE  RowsSound'
BY NoTxIsNoTx DEF RowsSound, Write, UnlockedIsCommitted

LEMMA RowsKeptAtEnd ==
  ASSUME RowsSound, NEW t \in Txs, Publish(t) \/ Rollback(t)
  PROVE  RowsSound'
BY NoTxIsNoTx DEF RowsSound, Publish, Rollback, Release, UnlockedIsCommitted

LEMMA RowsKeptNow ==
  ASSUME RowsSound, NEW x, NEW v, WriteNow(x, v), Sound(x, v)
  PROVE  RowsSound'
BY DEF RowsSound, WriteNow, UnlockedIsCommitted

LEMMA RowsKeptSame ==
  ASSUME RowsSound, UNCHANGED dbVars
  PROVE  RowsSound'
BY DEF RowsSound, dbVars, UnlockedIsCommitted

-----------------------------------------------------------------------------
(* Steps that leave most of it alone.                                      *)
Same(x) == db'[x] = db[x] /\ new'[x] = new[x] /\ holder'[x] = holder[x]
StillHeld(x) == holder[x] # NoTx => holder'[x] = holder[x]

BatchesSame == \A b \in Batches : Same(Batch(b)) /\ Same(Reply(b))
JoinedSame ==
  \A b \in Batches :
    /\ db'[Batch(b)].joined = db[Batch(b)].joined
    /\ new'[Batch(b)].joined = new[Batch(b)].joined
    /\ StillHeld(Batch(b))
MessagesSame == \A m \in Messages : Same(Msg(m))
ChatsStillHeld == \A c \in Chats : StillHeld(Chat(c))
OthersSame(t) == \A u \in Txs \ {t} : proc'[u] = proc[u]

(* A gateway comes to a batch only with the chat's lock; a worker goes on  *)
(* with his batch.                                                         *)
JoinsWithChat(t) ==
  Joining(t)' => /\ ChatOf[Cur(t)'] \in Chats
                 /\ holder'[Chat(ChatOf[Cur(t)'])] = t
                 /\ proc'[t].pc = "extend" => FoundBatch(t)'
WorksOn(t) ==
  /\ AtWork(t) <=> AtWork(t)'
  /\ AtWork(t) => Cur(t)' = Cur(t)
JoinsOn(t) ==
  /\ Joining(t) <=> Joining(t)'
  /\ Joining(t) => Cur(t)' = Cur(t)

LEMMA CurIs ==
  ASSUME ProcsSound
  PROVE  /\ \A g \in Gateways : proc[g].pc \notin {"idle", "commit"} => Cur(g) \in Messages
         /\ \A w \in Workers :
              proc[w].pc \notin {"idle", "select", "commit"} => Cur(w) \in Batches
BY TxsAre, HeadTailProperties DEF ProcsSound, ProcSound, GatewaySound, WorkerSound, Cur

LEMMA SerialFrame ==
  ASSUME RowsSound, ProcsSound, SerialInv, BatchesSame, ChatsStillHeld,
         NEW t, OthersSame(t),
         t \in Gateways => JoinsWithChat(t), t \in Workers => WorksOn(t)
  PROVE  SerialInv'
<1> USE NoTxIsNoTx, TxsAre
    DEF BatchesSame, ChatsStillHeld, Same, StillHeld, SerialInv
<1>1. \A w \in Workers : (AtWork(w)' <=> AtWork(w)) /\ (AtWork(w) => Cur(w)' = Cur(w))
  BY DEF WorksOn, OthersSame, AtWork, Cur
<1>2. \A b \in Batches : BatchSound(new[Batch(b)])
  BY Names DEF RowsSound, Sound
<1>3. Holders'
  <2> SUFFICES ASSUME NEW b \in Batches
               PROVE  /\ holder'[Batch(b)] \in Gateways => GatewayHolds(holder[Batch(b)], b)'
                      /\ holder'[Batch(b)] \in Workers => WorkerHolds(holder[Batch(b)], b)'
                      /\ holder'[Reply(b)] # NoTx =>
                           holder'[Reply(b)] \in Workers
                             /\ holder'[Batch(b)] = holder'[Reply(b)]
    BY DEF Holders
  <2>1. ASSUME holder[Batch(b)] \in Gateways
        PROVE  GatewayHolds(holder[Batch(b)], b)'
    <3>1. new[Batch(b)].chat \in Chats
      BY <1>2, <2>1 DEF Holders, GatewayHolds, BatchSound, Committed
    <3>2. QED
      BY <3>1, <2>1 DEF Holders, GatewayHolds
  <2>2. ASSUME holder[Batch(b)] \in Workers
        PROVE  WorkerHolds(holder[Batch(b)], b)'
    <3>1. PICK w \in Workers : w = holder[Batch(b)]
      BY <2>2
    <3>2. WorkerHolds(w, b)
      BY <3>1 DEF Holders
    <3>3. WorkerHolds(w, b)'
      BY <1>1, <3>2 DEF WorkerHolds
    <3>4. QED
      BY <3>1, <3>3 DEF WorkerHolds, AtWork, Cur
  <2>3. QED
    BY <2>1, <2>2 DEF Holders
<1>4. Committed'
  BY DEF Committed
<1>5. Guarded'
  <2>1. ASSUME NEW g \in Gateways, Joining(g)'
        PROVE  holder'[Chat(ChatOf[Cur(g)'])] = g
    <3>1. CASE g = t
      BY <2>1, <3>1 DEF JoinsWithChat
    <3>2. CASE g # t
      <4>1. Joining(g) /\ Cur(g)' = Cur(g)
        BY <2>1, <3>2 DEF OthersSame, Joining, Cur
      <4>2. ChatOf[Cur(g)] \in Chats
        BY <4>1, CurIs, MessagesAre DEF Joining
      <4>3. QED
        BY <4>1, <4>2 DEF Guarded
    <3>3. QED
      BY <3>1, <3>2
  <2>2. ASSUME NEW g \in Gateways, proc'[g].pc = "extend"
        PROVE  FoundBatch(g)'
    <3>1. CASE g = t
      BY <2>2, <3>1 DEF JoinsWithChat, Joining
    <3>2. CASE g # t
      <4>1. proc'[g] = proc[g]
        BY <3>2 DEF OthersSame
      <4>2. FoundBatch(g) /\ proc[g].found \in Batches
        BY <2>2, <4>1 DEF Guarded, ProcsSound, ProcSound, GatewaySound
      <4>3. QED
        BY <4>1, <4>2 DEF FoundBatch, Cur
    <3>3. QED
      BY <3>1, <3>2
  <2>3. ASSUME NEW w \in Workers, AtWork(w)'
        PROVE  holder'[Batch(Cur(w)')] = w /\ new'[Batch(Cur(w)')].status = "SEALED"
    <3>1. AtWork(w) /\ Cur(w)' = Cur(w)
      BY <1>1, <2>3
    <3>2. Cur(w) \in Batches
      BY <3>1, CurIs DEF AtWork
    <3>3. QED
      BY <3>1, <3>2 DEF Guarded
  <2>4. QED
    BY <2>1, <2>2, <2>3 DEF Guarded
<1>6. OneMaybeOpen'
  BY DEF OneMaybeOpen, MaybeOpen
<1>7. QED
  BY <1>3, <1>4, <1>5, <1>6

LEMMA CountFrame ==
  ASSUME ProcsSound, CountInv, JoinedSame, MessagesSame,
         NEW t, OthersSame(t), t \in Gateways => JoinsOn(t)
  PROVE  CountInv'
<1> USE NoTxIsNoTx, TxsAre DEF JoinedSame, MessagesSame, Same, StillHeld, CountInv
<1>1. \A g \in Gateways : (Joining(g)' <=> Joining(g)) /\ (Joining(g) => Cur(g)' = Cur(g))
  BY DEF JoinsOn, OthersSame, Joining, Cur
<1>2. MessageHolders'
  BY DEF MessageHolders
<1>3. JoinedOnce'
  BY DEF JoinedOnce
<1>4. NoneForgotten'
  BY <1>1 DEF NoneForgotten
<1>5. JoinersAreNew'
  BY <1>1, CurIs DEF JoinersAreNew, Joining
<1>6. QED
  BY <1>2, <1>3, <1>4, <1>5

-----------------------------------------------------------------------------
(* The end of a transaction.                                               *)
LEMMA EndsAlone ==
  ASSUME ProcsSound, NEW t \in Txs, proc' = [proc EXCEPT ![t] = Idle]
  PROVE  /\ OthersSame(t) /\ proc'[t] = Idle
         /\ \A g \in Gateways : Joining(g)' => g # t /\ Joining(g) /\ proc'[g] = proc[g]
         /\ \A g \in Gateways \ {t} : Joining(g) => Joining(g)' /\ proc'[g] = proc[g]
         /\ \A w \in Workers : AtWork(w)' => w # t /\ AtWork(w) /\ proc'[w] = proc[w]
         /\ \A w \in Workers \ {t} : AtWork(w) => AtWork(w)' /\ proc'[w] = proc[w]
BY TxsAre DEF ProcsSound, ProcSound, OthersSame, Idle, Joining, AtWork

LEMMA RollbackKeeps ==
  ASSUME RowsSound, ProcsSound, SerialInv, CountInv,
         NEW t \in Txs, Rollback(t), proc' = [proc EXCEPT ![t] = Idle]
  PROVE  SerialInv' /\ CountInv'
<1> USE TxsAre, NoTxIsNoTx DEF SerialInv, CountInv
<1>1. /\ db' = db
      /\ \A x \in RowIds : /\ holder[x] = t => new'[x] = db[x] /\ holder'[x] = NoTx
                           /\ holder[x] # t => new'[x] = new[x] /\ holder'[x] = holder[x]
  BY DEF Rollback, Release, RowsSound
<1>2. \A b \in Batches : BatchSound(new[Batch(b)]) /\ BatchSound(db[Batch(b)])
  BY Names DEF RowsSound, Sound
<1>3. Holders'
  <2> SUFFICES ASSUME NEW b \in Batches
               PROVE  /\ holder'[Batch(b)] \in Gateways => GatewayHolds(holder[Batch(b)], b)'
                      /\ holder'[Batch(b)] \in Workers => WorkerHolds(holder[Batch(b)], b)'
                      /\ holder'[Reply(b)] # NoTx =>
                           holder'[Reply(b)] \in Workers
                             /\ holder'[Batch(b)] = holder'[Reply(b)]
    BY DEF Holders
  <2> Batch(b) \in RowIds /\ Reply(b) \in RowIds
    BY Names
  <2>1. ASSUME holder'[Batch(b)] \in Gateways
        PROVE  GatewayHolds(holder[Batch(b)], b)'
    <3>1. holder'[Batch(b)] = holder[Batch(b)] /\ new'[Batch(b)] = new[Batch(b)]
            /\ holder[Batch(b)] # t
      BY <1>1, <2>1
    <3>2. Chat(new[Batch(b)].chat) \in RowIds
      BY <1>2, <2>1, <3>1, Names DEF Holders, GatewayHolds, BatchSound, Committed
    <3>3. QED
      BY <1>1, <2>1, <3>1, <3>2 DEF Holders, GatewayHolds
  <2>2. ASSUME holder'[Batch(b)] \in Workers
        PROVE  WorkerHolds(holder[Batch(b)], b)'
    <3>1. holder'[Batch(b)] = holder[Batch(b)] /\ new'[Batch(b)] = new[Batch(b)]
            /\ holder[Batch(b)] # t
      BY <1>1, <2>2
    <3>2. PICK w \in Workers : w = holder[Batch(b)]
      BY <2>2, <3>1
    <3>3. AtWork(w) => AtWork(w)' /\ Cur(w)' = Cur(w)
      BY <3>1, <3>2, EndsAlone DEF Cur
    <3>4. WorkerHolds(w, b)
      BY <3>2 DEF Holders
    <3>5. WorkerHolds(w, b)'
      BY <1>1, <3>1, <3>3, <3>4 DEF WorkerHolds
    <3>6. QED
      BY <3>1, <3>2, <3>5 DEF WorkerHolds, AtWork, Cur
  <2>3. QED
    BY <1>1, <2>1, <2>2 DEF Holders
<1>4. Committed'
  BY <1>1, Names DEF Committed
<1>5. Guarded'
  <2>1. ASSUME NEW g \in Gateways, Joining(g)'
        PROVE  holder'[Chat(ChatOf[Cur(g)'])] = g /\ (proc'[g].pc = "extend" => FoundBatch(g)')
    <3>1. g # t /\ Joining(g) /\ proc'[g] = proc[g]
      BY <2>1, EndsAlone
    <3>2. Chat(ChatOf[Cur(g)]) \in RowIds
      BY <3>1, CurIs, MessagesAre, Names DEF Joining
    <3>3. proc[g].pc = "extend" => proc[g].found \in Batches /\ Batch(proc[g].found) \in RowIds
      BY Names DEF ProcsSound, ProcSound, GatewaySound
    <3>4. holder[Chat(ChatOf[Cur(g)])] = g /\ (proc[g].pc = "extend" => FoundBatch(g))
      BY <3>1 DEF Guarded
    <3>5. proc[g].pc = "extend" => FoundBatch(g)'
      BY <1>1, <3>1, <3>3, <3>4 DEF FoundBatch, Committed, Cur
    <3>6. QED
      BY <1>1, <3>1, <3>2, <3>4, <3>5 DEF Cur
  <2>2. ASSUME NEW w \in Workers, AtWork(w)'
        PROVE  holder'[Batch(Cur(w)')] = w /\ new'[Batch(Cur(w)')].status = "SEALED"
    <3>1. w # t /\ AtWork(w) /\ Cur(w)' = Cur(w)
      BY <2>2, EndsAlone DEF Cur
    <3>2. Batch(Cur(w)) \in RowIds
      BY <3>1, CurIs, Names DEF AtWork
    <3>3. QED
      BY <1>1, <3>1, <3>2 DEF Guarded
  <2>3. QED
    BY <2>1, <2>2 DEF Guarded, Joining
<1>6. OneMaybeOpen'
  <2>1. \A b \in Batches : MaybeOpen(b)' => MaybeOpen(b) /\ new'[Batch(b)].chat = new[Batch(b)].chat
    BY <1>1, Names DEF MaybeOpen, Committed
  <2>2. QED
    BY <2>1 DEF OneMaybeOpen
<1>7. MessageHolders'
  BY <1>1, Names DEF MessageHolders
<1>8. \A m \in Messages, b \in Batches :
        m \in new'[Batch(b)].joined => m \in new[Batch(b)].joined /\ holder[Msg(m)] # t
  BY <1>1, Names DEF JoinedOnce, MessageHolders
<1>9. JoinedOnce'
  BY <1>1, <1>8, Names DEF JoinedOnce
<1>10. NoneForgotten'
  <2> SUFFICES ASSUME NEW m \in Messages, Stored(new'[Msg(m)]), ~new'[Msg(m)].gated
               PROVE  \/ \E b \in Batches : m \in new'[Batch(b)].joined
                      \/ \E g \in Gateways : Joining(g)' /\ Cur(g)' = m
    BY DEF NoneForgotten
  <2>1. holder[Msg(m)] # t /\ new'[Msg(m)] = new[Msg(m)]
    BY <1>1, Names DEF MessageHolders
  <2>2. CASE \E b \in Batches : m \in new[Batch(b)].joined
    BY <1>1, <2>1, <2>2, Names DEF JoinedOnce
  <2>3. CASE \E g \in Gateways : Joining(g) /\ Cur(g) = m
    BY <2>1, <2>3, EndsAlone DEF JoinersAreNew, Cur
  <2>4. QED
    BY <2>1, <2>2, <2>3 DEF NoneForgotten
<1>11. JoinersAreNew'
  <2> SUFFICES ASSUME NEW g \in Gateways, Joining(g)'
               PROVE  /\ holder'[Msg(Cur(g)')] = g /\ ~new'[Msg(Cur(g)')].gated
                      /\ \A b \in Batches : Cur(g)' \notin new'[Batch(b)].joined
    BY DEF JoinersAreNew
  <2>1. g # t /\ Joining(g) /\ Cur(g)' = Cur(g)
    BY EndsAlone DEF Cur
  <2>2. Cur(g) \in Messages /\ Msg(Cur(g)) \in RowIds
    BY <2>1, CurIs, Names DEF Joining
  <2>3. QED
    BY <1>1, <1>8, <2>1, <2>2 DEF JoinersAreNew
<1>12. QED
  BY <1>3, <1>4, <1>5, <1>6, <1>7, <1>9, <1>10, <1>11

LEMMA CommitKeeps ==
  ASSUME RowsSound, ProcsSound, SerialInv, CountInv, NEW t \in Txs, Commit(t)
  PROVE  SerialInv' /\ CountInv'
<1> USE TxsAre, NoTxIsNoTx DEF SerialInv, CountInv
<1>0. proc' = [proc EXCEPT ![t] = Idle] /\ ~Joining(t) /\ ~AtWork(t)
  BY DEF Commit, Joining, AtWork
<1>1. /\ new' = new
      /\ \A x \in RowIds : /\ holder[x] = t => db'[x] = new[x] /\ holder'[x] = NoTx
                           /\ holder[x] # t => db'[x] = db[x] /\ holder'[x] = holder[x]
  BY DEF Commit, Publish, Release, RowsSound
<1>2. \A b \in Batches : BatchSound(new[Batch(b)]) /\ BatchSound(db[Batch(b)])
  BY Names DEF RowsSound, Sound
<1>3. Holders'
  <2> SUFFICES ASSUME NEW b \in Batches
               PROVE  /\ holder'[Batch(b)] \in Gateways => GatewayHolds(holder[Batch(b)], b)'
                      /\ holder'[Batch(b)] \in Workers => WorkerHolds(holder[Batch(b)], b)'
                      /\ holder'[Reply(b)] # NoTx =>
                           holder'[Reply(b)] \in Workers
                             /\ holder'[Batch(b)] = holder'[Reply(b)]
    BY DEF Holders
  <2> Batch(b) \in RowIds /\ Reply(b) \in RowIds
    BY Names
  <2>1. ASSUME holder'[Batch(b)] \in Gateways
        PROVE  GatewayHolds(holder[Batch(b)], b)'
    <3>1. holder'[Batch(b)] = holder[Batch(b)] /\ db'[Batch(b)] = db[Batch(b)]
            /\ holder[Batch(b)] # t
      BY <1>1, <2>1
    <3>2. Chat(new[Batch(b)].chat) \in RowIds
      BY <1>2, <2>1, <3>1, Names DEF Holders, GatewayHolds, BatchSound, Committed
    <3>3. QED
      BY <1>1, <2>1, <3>1, <3>2 DEF Holders, GatewayHolds
  <2>2. ASSUME holder'[Batch(b)] \in Workers
        PROVE  WorkerHolds(holder[Batch(b)], b)'
    <3>1. holder'[Batch(b)] = holder[Batch(b)] /\ db'[Batch(b)] = db[Batch(b)]
            /\ holder[Batch(b)] # t
      BY <1>1, <2>2
    <3>2. PICK w \in Workers : w = holder[Batch(b)]
      BY <2>2, <3>1
    <3>3. AtWork(w) => AtWork(w)' /\ Cur(w)' = Cur(w)
      BY <1>0, <3>1, <3>2, EndsAlone DEF Cur
    <3>4. WorkerHolds(w, b)
      BY <3>2 DEF Holders
    <3>5. WorkerHolds(w, b)'
      BY <1>1, <3>1, <3>3, <3>4 DEF WorkerHolds
    <3>6. QED
      BY <3>1, <3>2, <3>5 DEF WorkerHolds, AtWork, Cur
  <2>3. QED
    BY <1>1, <2>1, <2>2 DEF Holders
<1>4. Committed'
  <2> SUFFICES ASSUME NEW b \in Batches
               PROVE  /\ db'[Batch(b)].status \in {"NONE", "OPEN", "PROCESSED"}
                      /\ db'[Batch(b)].status # "NONE" =>
                           new[Batch(b)].status # "NONE"
                             /\ new[Batch(b)].chat = db'[Batch(b)].chat
    BY <1>1 DEF Committed
  <2>1. CASE holder[Batch(b)] # t
    BY <1>1, <2>1, Names DEF Committed
  <2>2. CASE holder[Batch(b)] = t
    <3>1. new[Batch(b)].status \in {"OPEN", "PROCESSED"}
      BY <1>0, <2>2 DEF Holders, GatewayHolds, WorkerHolds, Committed
    <3>2. QED
      BY <1>1, <2>2, <3>1, Names
  <2>3. QED
    BY <2>1, <2>2
<1>5. Guarded'
  <2>1. ASSUME NEW g \in Gateways, Joining(g)'
        PROVE  holder'[Chat(ChatOf[Cur(g)'])] = g /\ (proc'[g].pc = "extend" => FoundBatch(g)')
    <3>1. g # t /\ Joining(g) /\ proc'[g] = proc[g]
      BY <1>0, <2>1, EndsAlone
    <3>2. Chat(ChatOf[Cur(g)]) \in RowIds
      BY <3>1, CurIs, MessagesAre, Names DEF Joining
    <3>3. proc[g].pc = "extend" => proc[g].found \in Batches /\ Batch(proc[g].found) \in RowIds
      BY Names DEF ProcsSound, ProcSound, GatewaySound
    <3>4. holder[Chat(ChatOf[Cur(g)])] = g /\ (proc[g].pc = "extend" => FoundBatch(g))
      BY <3>1 DEF Guarded
    <3>5. proc[g].pc = "extend" => FoundBatch(g)'
      BY <1>1, <3>1, <3>3, <3>4 DEF FoundBatch, Committed, Cur
    <3>6. QED
      BY <1>1, <3>1, <3>2, <3>4, <3>5 DEF Cur
  <2>2. ASSUME NEW w \in Workers, AtWork(w)'
        PROVE  holder'[Batch(Cur(w)')] = w /\ new'[Batch(Cur(w)')].status = "SEALED"
    <3>1. w # t /\ AtWork(w) /\ Cur(w)' = Cur(w)
      BY <1>0, <2>2, EndsAlone DEF Cur
    <3>2. Batch(Cur(w)) \in RowIds
      BY <3>1, CurIs, Names DEF AtWork
    <3>3. QED
      BY <1>1, <3>1, <3>2 DEF Guarded
  <2>3. QED
    BY <2>1, <2>2 DEF Guarded, Joining
<1>6. OneMaybeOpen'
  <2>1. \A b \in Batches : MaybeOpen(b)' => MaybeOpen(b)
    BY <1>1, Names DEF MaybeOpen
  <2>2. QED
    BY <1>1, <2>1 DEF OneMaybeOpen
<1>7. MessageHolders'
  BY <1>1, Names DEF MessageHolders
<1>8. \A m \in Messages, b \in Batches :
        m \in db'[Batch(b)].joined => m \in new[Batch(b)].joined /\ Stored(db'[Msg(m)])
  BY <1>1, Names DEF JoinedOnce
<1>9. \A m \in Messages, b \in Batches :
        m \in new[Batch(b)].joined /\ m \notin db'[Batch(b)].joined =>
          holder'[Batch(b)] \in Gateways /\ holder'[Msg(m)] = holder'[Batch(b)]
  BY <1>1, Names DEF JoinedOnce
<1>10. JoinedOnce'
  BY <1>1, <1>8, <1>9 DEF JoinedOnce
<1>11. NoneForgotten'
  <2>1. \A g \in Gateways : Joining(g) => Joining(g)' /\ Cur(g)' = Cur(g)
    BY <1>0, EndsAlone DEF Cur
  <2>2. QED
    BY <1>1, <2>1 DEF NoneForgotten
<1>12. JoinersAreNew'
  <2> SUFFICES ASSUME NEW g \in Gateways, Joining(g)'
               PROVE  /\ holder'[Msg(Cur(g)')] = g /\ ~new'[Msg(Cur(g)')].gated
                      /\ \A b \in Batches : Cur(g)' \notin new'[Batch(b)].joined
    BY DEF JoinersAreNew
  <2>1. g # t /\ Joining(g) /\ Cur(g)' = Cur(g)
    BY <1>0, EndsAlone DEF Cur
  <2>2. Cur(g) \in Messages /\ Msg(Cur(g)) \in RowIds
    BY <2>1, CurIs, Names DEF Joining
  <2>3. QED
    BY <1>1, <2>1, <2>2 DEF JoinersAreNew
<1>13. QED
  BY <1>3, <1>4, <1>5, <1>6, <1>7, <1>10, <1>11, <1>12

-----------------------------------------------------------------------------
(* How a process goes on.                                                  *)
LEMMA ProcsKept ==
  ASSUME ProcsSound, NEW t \in Txs, DOMAIN proc' = Txs, OthersSame(t), ProcSound(t)',
         inflight' \subseteq Webhooks, blocked' \in BOOLEAN, faults' \in 0..MaxFaults
  PROVE  ProcsSound'
<1>1. ASSUME NEW u \in Txs \ {t} PROVE ProcSound(u)'
  <2>1. ProcSound(u) /\ proc'[u] = proc[u]
    BY <1>1 DEF ProcsSound, OthersSame
  <2>2. QED
    BY <2>1 DEF ProcSound, GatewaySound, WorkerSound
<1>2. QED
  BY <1>1 DEF ProcsSound

LEMMA Moves ==
  ASSUME ProcsSound, NEW t \in Txs, NEW p, proc' = [proc EXCEPT ![t] = p]
  PROVE  DOMAIN proc' = Txs /\ OthersSame(t) /\ proc'[t] = p
BY DEF ProcsSound, OthersSame

(* What a process remembers besides where it is.                           *)
Remembers(t) ==
  /\ DOMAIN proc'[t] = DOMAIN proc[t]
  /\ proc'[t].start = proc[t].start /\ proc'[t].webhook = proc[t].webhook
  /\ proc'[t].gate = proc[t].gate /\ proc'[t].found = proc[t].found
  /\ proc'[t].text = proc[t].text /\ proc'[t].answer = proc[t].answer

LEMMA GoesTo ==
  ASSUME ProcsSound, NEW t \in Txs, NEW l, Goto(t, l)
  PROVE  /\ DOMAIN proc' = Txs /\ OthersSame(t) /\ Remembers(t)
         /\ proc'[t].pc = l /\ proc'[t].todo = proc[t].todo /\ Cur(t)' = Cur(t)
<1>1. DOMAIN proc' = Txs /\ OthersSame(t) /\ proc'[t] = [proc[t] EXCEPT !.pc = l]
  BY DEF ProcsSound, OthersSame, Goto
<1>2. DOMAIN proc[t] = DOMAIN Idle
  BY DEF ProcsSound, ProcSound
<1>3. Remembers(t) /\ proc'[t].pc = l /\ proc'[t].todo = proc[t].todo
  BY <1>1, <1>2 DEF Remembers, Idle
<1>4. QED
  BY <1>1, <1>3 DEF Cur

LEMMA GoesOn ==
  ASSUME ProcsSound, NEW t \in Txs, NEW l, Continue(t, l)
  PROVE  /\ DOMAIN proc' = Txs /\ OthersSame(t) /\ Remembers(t)
         /\ proc'[t].todo = Tail(proc[t].todo)
         /\ proc'[t].pc = IF Tail(proc[t].todo) = <<>> THEN "commit" ELSE l
<1>1. /\ DOMAIN proc' = Txs /\ OthersSame(t)
      /\ proc'[t] = [proc[t] EXCEPT !.todo = Tail(proc[t].todo),
                       !.pc = IF Tail(proc[t].todo) = <<>> THEN "commit" ELSE l]
  BY DEF ProcsSound, OthersSame, Continue
<1>2. DOMAIN proc[t] = DOMAIN Idle
  BY DEF ProcsSound, ProcSound
<1>3. QED
  BY <1>1, <1>2 DEF Remembers, Idle

LEMMA GatewayGoesOn ==
  ASSUME ProcsSound, NEW g \in Gateways, Continue(g, "check"),
         proc[g].pc \notin {"idle", "commit"},
         UNCHANGED <<inflight, blocked, faults>>
  PROVE  ProcsSound' /\ OthersSame(g) /\ ~Joining(g)'
<1> g \in Txs /\ g \notin Workers
  BY TxsAre
<1>1. ProcSound(g)
  BY DEF ProcsSound
<1>2. Tail(proc[g].todo) \in Seq(Messages)
  BY <1>1, HeadTailProperties DEF ProcSound, GatewaySound
<1>3. /\ DOMAIN proc' = Txs /\ OthersSame(g) /\ Remembers(g)
      /\ proc'[g].todo = Tail(proc[g].todo)
      /\ proc'[g].pc = IF Tail(proc[g].todo) = <<>> THEN "commit" ELSE "check"
  BY GoesOn
<1>4. ProcSound(g)'
  BY <1>1, <1>2, <1>3 DEF ProcSound, GatewaySound, Remembers
<1>5. ~Joining(g)'
  BY <1>3 DEF Joining
<1>6. QED
  BY <1>3, <1>4, <1>5, ProcsKept DEF ProcsSound

LEMMA WorkerGoesOn ==
  ASSUME ProcsSound, NEW w \in Workers, Continue(w, "lock batch"),
         proc[w].pc \notin {"idle", "select", "commit"},
         UNCHANGED <<inflight, blocked, faults>>
  PROVE  ProcsSound' /\ OthersSame(w) /\ ~AtWork(w)'
<1> w \in Txs /\ w \notin Gateways
  BY TxsAre
<1>1. ProcSound(w)
  BY DEF ProcsSound
<1>2. Tail(proc[w].todo) \in Seq(Batches)
  BY <1>1, HeadTailProperties DEF ProcSound, WorkerSound
<1>3. /\ DOMAIN proc' = Txs /\ OthersSame(w) /\ Remembers(w)
      /\ proc'[w].todo = Tail(proc[w].todo)
      /\ proc'[w].pc = IF Tail(proc[w].todo) = <<>> THEN "commit" ELSE "lock batch"
  BY GoesOn
<1>4. ProcSound(w)'
  BY <1>1, <1>2, <1>3 DEF ProcSound, WorkerSound, Remembers
<1>5. ~AtWork(w)'
  BY <1>3 DEF AtWork
<1>6. QED
  BY <1>3, <1>4, <1>5, ProcsKept DEF ProcsSound

LEMMA WorkerGoesTo ==
  ASSUME ProcsSound, NEW w \in Workers, NEW l \in {"lock chat", "seal", "read"},
         Goto(w, l), proc[w].pc \notin {"idle", "select", "commit"},
         UNCHANGED <<inflight, blocked, faults>>
  PROVE  /\ ProcsSound' /\ OthersSame(w) /\ Cur(w)' = Cur(w)
         /\ l # "read" => ~AtWork(w)'
<1> w \in Txs /\ w \notin Gateways
  BY TxsAre
<1>1. ProcSound(w)
  BY DEF ProcsSound
<1>2. /\ DOMAIN proc' = Txs /\ OthersSame(w) /\ Remembers(w)
      /\ proc'[w].pc = l /\ proc'[w].todo = proc[w].todo /\ Cur(w)' = Cur(w)
  BY GoesTo
<1>3. ProcSound(w)'
  BY <1>1, <1>2 DEF ProcSound, WorkerSound, Remembers
<1>4. QED
  BY <1>2, <1>3, ProcsKept DEF ProcsSound, AtWork

-----------------------------------------------------------------------------
(* One action after the other: first those that only lock a row, or no row *)
(* that matters here.                                                      *)
LEMMA WriteAside ==
  ASSUME RowsSound, NEW t \in Txs, NEW x, NEW v, CanLock(t, x), Write(t, Row(x, v)),
         Sound(x, v), \A b \in Batches : x # Batch(b) /\ x # Reply(b),
         \A m \in Messages : x # Msg(m)
  PROVE  RowsSound' /\ BatchesSame /\ MessagesSame /\ ChatsStillHeld
<1>1. RowsSound'
  BY RowsKept DEF Row
<1>2. db' = db /\ \A y \in RowIds \ {x} : new'[y] = new[y] /\ holder'[y] = holder[y]
  BY WriteOne
<1>3. BatchesSame /\ MessagesSame
  BY <1>2, Names DEF BatchesSame, MessagesSame, Same
<1>4. ChatsStillHeld
  BY <1>2, WriteOne, Names DEF ChatsStillHeld, StillHeld, CanLock
<1>5. QED
  BY <1>1, <1>3, <1>4

LEMMA ReadsOnly ==
  ASSUME RowsSound, UNCHANGED dbVars
  PROVE  RowsSound' /\ BatchesSame /\ MessagesSame /\ ChatsStillHeld
BY RowsKeptSame DEF dbVars, BatchesSame, MessagesSame, ChatsStillHeld, Same, StillHeld

LEMMA QuietStep ==
  ASSUME Inv, RowsSound', BatchesSame, MessagesSame, ChatsStillHeld, ProcsSound',
         NEW t, OthersSame(t),
         t \in Gateways => (JoinsOn(t) /\ JoinsWithChat(t)),
         t \in Workers => WorksOn(t)
  PROVE  Inv'
<1>1. JoinedSame
  BY DEF BatchesSame, JoinedSame, Same, StillHeld
<1>2. SerialInv' /\ CountInv'
  BY <1>1, SerialFrame, CountFrame DEF Inv, TypeInv
<1>3. QED
  BY <1>2 DEF Inv, TypeInv

LEMMA AbandonKeeps ==
  ASSUME Inv, NEW t \in Txs, Abandon(t), proc[t].pc # "idle",
         blocked' = blocked, faults' \in 0..MaxFaults
  PROVE  Inv'
<1>1. Rollback(t) /\ proc' = [proc EXCEPT ![t] = Idle]
  BY DEF Abandon
<1>2. RowsSound' /\ SerialInv' /\ CountInv'
  BY <1>1, RollbackKeeps, RowsKeptAtEnd DEF Inv, TypeInv
<1>3. inflight' \subseteq Webhooks
  BY DEF Abandon, Inv, TypeInv, ProcsSound, ProcSound, GatewaySound
<1>4. ProcSound(t)'
  <2>1. DOMAIN proc = Txs /\ proc'[t] = Idle
    BY <1>1 DEF Inv, TypeInv, ProcsSound
  <2>2. QED
    BY <2>1 DEF ProcSound, GatewaySound, WorkerSound, Idle
<1>5. ProcsSound'
  BY <1>1, <1>3, <1>4, Moves, ProcsKept DEF Inv, TypeInv, ProcsSound
<1>6. QED
  BY <1>2, <1>5 DEF Inv, TypeInv

LEMMA CommitStep ==
  ASSUME Inv, NEW t \in Txs, Commit(t)
  PROVE  Inv'
<1>1. Publish(t) /\ proc' = [proc EXCEPT ![t] = Idle] /\ UNCHANGED <<inflight, blocked, faults>>
  BY DEF Commit
<1>2. RowsSound' /\ SerialInv' /\ CountInv'
  BY <1>1, CommitKeeps, RowsKeptAtEnd DEF Inv, TypeInv
<1>3. ProcSound(t)'
  <2>1. DOMAIN proc = Txs /\ proc'[t] = Idle
    BY <1>1 DEF Inv, TypeInv, ProcsSound
  <2>2. QED
    BY <2>1 DEF ProcSound, GatewaySound, WorkerSound, Idle
<1>4. ProcsSound'
  BY <1>1, <1>3, Moves, ProcsKept DEF Inv, TypeInv, ProcsSound
<1>5. QED
  BY <1>2, <1>4 DEF Inv, TypeInv

LEMMA CheckClientKeeps ==
  ASSUME Inv, NEW g \in Gateways, CheckClient(g)
  PROVE  Inv'
<1> g \in Txs /\ g \notin Workers
  BY TxsAre
<1>0. ProcsSound /\ ProcSound(g) /\ RowsSound /\ proc[g].pc = "check"
  BY DEF Inv, TypeInv, ProcsSound, CheckClient
<1>1. CASE CountMissing(g)
  BY <1>0, <1>1, AbandonKeeps DEF CheckClient, ProcsSound
<1>2. CASE ~CountMissing(g)
  <2>1. /\ proc' = [proc EXCEPT ![g].pc = "store", ![g].gate = blocked]
        /\ UNCHANGED <<dbVars, inflight, blocked, faults>>
    BY <1>2 DEF CheckClient
  <2>2. /\ DOMAIN proc' = Txs /\ OthersSame(g)
        /\ proc'[g] = [proc[g] EXCEPT !.pc = "store", !.gate = blocked]
    BY <1>0, <2>1 DEF ProcsSound, OthersSame
  <2>3. /\ DOMAIN proc'[g] = DOMAIN proc[g] /\ proc'[g].pc = "store" /\ proc'[g].gate = blocked
        /\ proc'[g].start = proc[g].start /\ proc'[g].webhook = proc[g].webhook
        /\ proc'[g].text = proc[g].text
        /\ proc'[g].todo = proc[g].todo
    BY <1>0, <2>2 DEF ProcSound, Idle
  <2>4. ProcSound(g)'
    BY <1>0, <2>3 DEF ProcSound, GatewaySound, ProcsSound
  <2>5. ProcsSound'
    BY <1>0, <2>1, <2>2, <2>4, ProcsKept DEF ProcsSound
  <2>6. JoinsOn(g) /\ JoinsWithChat(g)
    BY <1>0, <2>3 DEF JoinsOn, JoinsWithChat, Joining
  <2>7. QED
    BY <1>0, <2>1, <2>2, <2>5, <2>6, ReadsOnly, QuietStep
<1>3. QED
  BY <1>1, <1>2

LEMMA GatewayPaywallKeeps ==
  ASSUME Inv, NEW g \in Gateways, GatewayPaywall(g)
  PROVE  Inv'
<1> g \in Txs /\ g \notin Workers
  BY TxsAre
<1>1. /\ proc[g].pc = "paywall" /\ Continue(g, "check") /\ CanLock(g, Paywall)
      /\ UNCHANGED <<inflight, blocked, faults>>
      /\ UNCHANGED dbVars \/ Write(g, Row(Paywall, TRUE))
  BY DEF GatewayPaywall
<1>2. ProcsSound' /\ OthersSame(g) /\ ~Joining(g)'
  BY <1>1, GatewayGoesOn DEF Inv, TypeInv
<1>3. RowsSound' /\ BatchesSame /\ MessagesSame /\ ChatsStillHeld
  <2>1. Sound(Paywall, TRUE)
    BY Names DEF Sound
  <2>2. QED
    BY <1>1, <2>1, ReadsOnly, WriteAside, Names DEF Inv, TypeInv
<1>4. JoinsOn(g) /\ JoinsWithChat(g)
  BY <1>1, <1>2 DEF JoinsOn, JoinsWithChat, Joining
<1>5. QED
  BY <1>2, <1>3, <1>4, QuietStep

(* now() is later than the beginning of all things.                        *)
LEMMA ImageIsFinite ==
  ASSUME NEW f, IsFiniteSet(DOMAIN f)
  PROVE  IsFiniteSet({f[x] : x \in DOMAIN f})
<1> DEFINE T == {f[x] : x \in DOMAIN f}
           h == [x \in DOMAIN f |-> f[x]]
<1>1. h \in Surjection(DOMAIN f, T)
  BY DEF Surjection
<1>2. QED
  BY <1>1, FS_Surjection

LEMMA InstantsAreFinite ==
  ASSUME Inv
  PROVE  IsFiniteSet(Instants) /\ Instants \subseteq Nat /\ 0 \in Instants /\ Now \in Nat
<1> DEFINE starts == [t \in Txs |-> proc[t].start]
           ats == [m \in Messages |-> new[Msg(m)].at]
           opened == [b \in Batches |-> new[Batch(b)].opened]
           sealed == [b \in Batches |-> new[Batch(b)].sealed]
           Img(f) == {f[x] : x \in DOMAIN f}
<1>1. IsFiniteSet(Img(starts)) /\ IsFiniteSet(Img(ats))
        /\ IsFiniteSet(Img(opened)) /\ IsFiniteSet(Img(sealed))
  BY ImageIsFinite, TxsAre, MessagesAre, BatchesAre
<1>2. IsFiniteSet({0})
  BY FS_Singleton
<1>3. IsFiniteSet({0} \cup Img(starts))
  BY <1>1, <1>2, FS_Union
<1>4. IsFiniteSet(({0} \cup Img(starts)) \cup Img(ats))
  BY <1>1, <1>3, FS_Union
<1>5. IsFiniteSet(Img(opened) \cup Img(sealed))
  BY <1>1, FS_Union
<1>6. IsFiniteSet((({0} \cup Img(starts)) \cup Img(ats)) \cup (Img(opened) \cup Img(sealed)))
  BY <1>4, <1>5, FS_Union
<1>7. Instants = (({0} \cup Img(starts)) \cup Img(ats)) \cup (Img(opened) \cup Img(sealed))
  BY DEF Instants
<1>8. Instants \subseteq Nat
  <2>1. \A t \in Txs : proc[t].start \in Nat
    BY DEF Inv, TypeInv, ProcsSound, ProcSound
  <2>2. \A m \in Messages : new[Msg(m)].at \in Nat
    BY Names DEF Inv, TypeInv, RowsSound, Sound, MsgSound, MsgRecords
  <2>3. \A b \in Batches : new[Batch(b)].opened \in Nat /\ new[Batch(b)].sealed \in Nat
    BY Names DEF Inv, TypeInv, RowsSound, Sound, BatchSound, BatchRecords
  <2>4. QED
    BY <2>1, <2>2, <2>3 DEF Instants
<1>9. 0 \in Instants
  BY DEF Instants
<1>10. QED
  BY <1>6, <1>7, <1>8, <1>9, FS_CardinalityType DEF Now

LEMMA NowIsLater ==
  ASSUME Inv
  PROVE  Now \in Nat /\ Now > 0
<1>1. Now \in Nat /\ IsFiniteSet(Instants) /\ Instants # {}
  BY InstantsAreFinite
<1>2. QED
  BY <1>1, FS_EmptySet DEF Now

LEMMA ReceiveKeeps ==
  ASSUME Inv, NEW g \in Gateways, NEW h \in Webhooks, Receive(g, h)
  PROVE  Inv'
<1> g \in Txs /\ g \notin Workers
  BY TxsAre
<1>1. /\ proc[g].pc = "idle"
      /\ proc' = [proc EXCEPT ![g] = [Idle EXCEPT !.pc = "check", !.start = Now,
                                                  !.todo = h, !.webhook = h]]
      /\ inflight' \subseteq inflight /\ UNCHANGED <<dbVars, blocked, faults>>
  BY DEF Receive
<1>2. ProcsSound /\ RowsSound
  BY DEF Inv, TypeInv
<1>3. /\ DOMAIN proc' = Txs /\ OthersSame(g)
      /\ proc'[g] = [Idle EXCEPT !.pc = "check", !.start = Now, !.todo = h, !.webhook = h]
  BY <1>1, <1>2 DEF ProcsSound, OthersSame
<1>4. ProcSound(g)'
  BY <1>3, NowIsLater, WebhooksAre DEF ProcSound, GatewaySound, Idle
<1>5. ProcsSound'
  BY <1>1, <1>2, <1>3, <1>4, ProcsKept DEF ProcsSound
<1>6. JoinsOn(g) /\ JoinsWithChat(g)
  BY <1>1, <1>3 DEF JoinsOn, JoinsWithChat, Joining, Idle
<1>7. QED
  BY <1>1, <1>2, <1>3, <1>5, <1>6, ReadsOnly, QuietStep

LEMMA BeginTickKeeps ==
  ASSUME Inv, NEW w \in Workers, BeginTick(w)
  PROVE  Inv'
<1> w \in Txs /\ w \notin Gateways
  BY TxsAre
<1>1. /\ proc[w].pc = "idle"
      /\ proc' = [proc EXCEPT ![w] = [Idle EXCEPT !.pc = "select", !.start = Now]]
      /\ UNCHANGED <<dbVars, inflight, blocked, faults>>
  BY DEF BeginTick
<1>2. ProcsSound /\ RowsSound
  BY DEF Inv, TypeInv
<1>3. /\ DOMAIN proc' = Txs /\ OthersSame(w)
      /\ proc'[w] = [Idle EXCEPT !.pc = "select", !.start = Now]
  BY <1>1, <1>2 DEF ProcsSound, OthersSame
<1>4. ProcSound(w)'
  BY <1>3, NowIsLater DEF ProcSound, WorkerSound, Idle
<1>5. ProcsSound'
  BY <1>1, <1>2, <1>3, <1>4, ProcsKept DEF ProcsSound
<1>6. WorksOn(w)
  BY <1>1, <1>3 DEF WorksOn, AtWork, Idle
<1>7. QED
  BY <1>1, <1>2, <1>3, <1>5, <1>6, ReadsOnly, QuietStep

LEMMA NotEmpty ==
  ASSUME NEW n \in Nat, n # 0, NEW s, DOMAIN s = 1..n
  PROVE  s # <<>>
<1>1. 1 \in DOMAIN s
  OBVIOUS
<1>2. DOMAIN <<>> = {}
  OBVIOUS
<1>3. QED
  BY <1>1, <1>2

(* The SELECT: what it changes of the worker, and that it writes nothing.  *)
LEMMA SelectIs ==
  ASSUME ProcsSound, NEW w \in Workers, NEW D \in SUBSET Batches, SelectDue(w, D)
  PROVE  /\ DOMAIN proc' = Txs /\ OthersSame(w) /\ Remembers(w)
         /\ proc'[w].todo \in Seq(Batches)
         /\ \/ proc'[w].pc = "commit"
            \/ proc'[w].pc = "lock batch" /\ proc'[w].todo # <<>>
<1> w \in Txs
  BY TxsAre
<1>1. PICK order \in SetToSeqs(D), l \in {"commit", "lock batch"} :
        /\ proc' = [proc EXCEPT ![w].todo = order, ![w].pc = l]
        /\ l = "lock batch" => D # {}
  BY DEF SelectDue
<1>2. /\ DOMAIN proc' = Txs /\ OthersSame(w)
      /\ proc'[w] = [proc[w] EXCEPT !.todo = order, !.pc = l]
  BY <1>1 DEF ProcsSound, OthersSame
<1>3. DOMAIN proc[w] = DOMAIN Idle
  BY DEF ProcsSound, ProcSound
<1>4. Remembers(w) /\ proc'[w].todo = order /\ proc'[w].pc = l
  BY <1>2, <1>3 DEF Remembers, Idle
<1>5. order \in Seq(Batches) /\ (D # {} => order # <<>>)
  <2>1. IsFiniteSet(D)
    BY BatchesAre, FS_Subset
  <2>2. PICK n \in Nat : n = Cardinality(D) /\ (D # {} => n # 0)
    BY <2>1, FS_CardinalityType, FS_EmptySet
  <2>3. order \in [1..n -> Batches] /\ DOMAIN order = 1..n
    BY <2>2 DEF SetToSeqs
  <2>4. order \in Seq(Batches)
    BY <2>2, <2>3, SeqDef
  <2>5. n # 0 => order # <<>>
    BY <2>2, <2>3, NotEmpty
  <2>6. QED
    BY <2>2, <2>4, <2>5
<1>6. QED
  BY <1>1, <1>2, <1>4, <1>5

LEMMA SelectDueKeeps ==
  ASSUME Inv, NEW w \in Workers, NEW D \in SUBSET Batches, SelectDue(w, D)
  PROVE  Inv'
<1> w \in Txs /\ w \notin Gateways
  BY TxsAre
<1>1. proc[w].pc = "select" /\ UNCHANGED <<dbVars, inflight, blocked, faults>>
  BY DEF SelectDue
<1>2. ProcsSound /\ RowsSound /\ ProcSound(w)
  BY DEF Inv, TypeInv, ProcsSound
<1>3. /\ DOMAIN proc' = Txs /\ OthersSame(w) /\ Remembers(w)
      /\ proc'[w].todo \in Seq(Batches)
      /\ \/ proc'[w].pc = "commit"
         \/ proc'[w].pc = "lock batch" /\ proc'[w].todo # <<>>
  BY <1>2, SelectIs
<1>4. ProcSound(w)'
  BY <1>2, <1>3 DEF ProcSound, WorkerSound, Remembers
<1>5. ProcsSound'
  BY <1>1, <1>2, <1>3, <1>4, ProcsKept DEF ProcsSound
<1>6. WorksOn(w)
  BY <1>1, <1>3 DEF WorksOn, AtWork
<1>7. QED
  BY <1>1, <1>2, <1>3, <1>5, <1>6, ReadsOnly, QuietStep

LEMMA AcquireLockKeeps ==
  ASSUME Inv, NEW w \in Workers, NEW k, NEW l \in {"lock chat", "seal"},
         AcquireLock(w, k, l), proc[w].pc \in {"lock batch", "lock chat"}
  PROVE  Inv'
<1> w \in Txs /\ w \notin Gateways
  BY TxsAre
<1>1. PICK v : /\ CanLock(w, Lock(k)) /\ Write(w, Row(Lock(k), v))
               /\ Goto(w, l) \/ Continue(w, "lock batch")
               /\ UNCHANGED <<inflight, blocked, faults>>
  BY DEF AcquireLock
<1>2. ProcsSound' /\ OthersSame(w) /\ ~AtWork(w)'
  BY <1>1, WorkerGoesTo, WorkerGoesOn DEF Inv, TypeInv
<1>3. Sound(Lock(k), v)
  BY Names DEF Sound
<1>4. RowsSound' /\ BatchesSame /\ MessagesSame /\ ChatsStillHeld
  <2>1. /\ \A b \in Batches : Lock(k) # Batch(b) /\ Lock(k) # Reply(b)
        /\ \A m \in Messages : Lock(k) # Msg(m)
    BY Names
  <2>2. QED
    BY <1>1, <1>3, <2>1, WriteAside DEF Inv, TypeInv
<1>5. WorksOn(w)
  BY <1>2 DEF WorksOn, AtWork
<1>6. QED
  BY <1>2, <1>4, <1>5, QuietStep

LEMMA LocksKeep ==
  ASSUME Inv, NEW w \in Workers, LockBatch(w) \/ LockChat(w)
  PROVE  Inv'
BY AcquireLockKeeps DEF LockBatch, LockChat

LEMMA AskAIKeeps ==
  ASSUME Inv, NEW w \in Workers, AskAI(w)
  PROVE  Inv'
<1> w \in Txs /\ w \notin Gateways
  BY TxsAre
<1>1. PICK a \in Answers : proc' = [proc EXCEPT ![w].answer = a, ![w].pc = "apply"]
  BY DEF AskAI
<1>2. proc[w].pc = "ask" /\ UNCHANGED <<dbVars, inflight, blocked, faults>>
  BY DEF AskAI
<1>3. ProcsSound /\ RowsSound /\ ProcSound(w)
  BY DEF Inv, TypeInv, ProcsSound
<1>4. /\ DOMAIN proc' = Txs /\ OthersSame(w)
      /\ proc'[w] = [proc[w] EXCEPT !.answer = a, !.pc = "apply"]
  BY <1>1, <1>3 DEF ProcsSound, OthersSame
<1>5. /\ DOMAIN proc'[w] = DOMAIN proc[w] /\ proc'[w].pc = "apply" /\ proc'[w].answer = a
      /\ proc'[w].start = proc[w].start /\ proc'[w].gate = proc[w].gate
      /\ proc'[w].text = proc[w].text
      /\ proc'[w].todo = proc[w].todo
  BY <1>3, <1>4 DEF ProcSound, Idle
<1>6. ProcSound(w)'
  BY <1>2, <1>3, <1>5 DEF ProcSound, WorkerSound
<1>7. ProcsSound'
  BY <1>2, <1>3, <1>4, <1>6, ProcsKept DEF ProcsSound
<1>8. WorksOn(w)
  BY <1>2, <1>5 DEF WorksOn, AtWork, Cur
<1>9. QED
  BY <1>2, <1>3, <1>4, <1>7, <1>8, ReadsOnly, QuietStep

LEMMA OutsideKeeps ==
  ASSUME Inv,
         \/ \E h \in Webhooks : Redeliver(h)
         \/ \E k \in LockKeys : LockExpires(k)
         \/ \E c \in Chats : AgentTakes(c)
         \/ ServiceEnds
  PROVE  Inv'
<1>1. proc' = proc
  BY DEF Redeliver, LockExpires, AgentTakes, ServiceEnds
<1>2. ProcsSound'
  <2>1. inflight' \subseteq Webhooks /\ blocked' \in BOOLEAN /\ faults' \in 0..MaxFaults
    <3>1. /\ inflight \subseteq Webhooks /\ blocked \in BOOLEAN /\ faults \in 0..MaxFaults
          /\ MaxFaults \in Nat
      BY FaultsAreBounded DEF Inv, TypeInv, ProcsSound
    <3>2. CASE \E h \in Webhooks : Redeliver(h)
      BY <3>1, <3>2 DEF Redeliver, Fault
    <3>3. CASE \E k \in LockKeys : LockExpires(k)
      BY <3>1, <3>3 DEF LockExpires
    <3>4. CASE \E c \in Chats : AgentTakes(c)
      BY <3>1, <3>4 DEF AgentTakes
    <3>5. CASE ServiceEnds
      BY <3>1, <3>5 DEF ServiceEnds
    <3>6. QED
      BY <3>2, <3>3, <3>4, <3>5
  <2>2. \A t \in Txs : ProcSound(t)'
    BY <1>1 DEF Inv, TypeInv, ProcsSound, ProcSound, GatewaySound, WorkerSound
  <2>3. QED
    BY <1>1, <2>1, <2>2 DEF Inv, TypeInv, ProcsSound
<1>3. RowsSound' /\ BatchesSame /\ MessagesSame /\ ChatsStillHeld
  <2>1. CASE UNCHANGED dbVars
    BY <2>1, ReadsOnly DEF Inv, TypeInv
  <2>2. CASE \E k \in LockKeys : LockExpires(k)
    <3>1. PICK k : WriteNow(Lock(k), NoTx)
      BY <2>2 DEF LockExpires
    <3>2. Sound(Lock(k), NoTx)
      BY Names DEF Sound
    <3>3. RowsSound'
      BY <3>1, <3>2, RowsKeptNow DEF Inv, TypeInv
    <3>4. QED
      BY <3>1, <3>3, Names
         DEF WriteNow, BatchesSame, MessagesSame, ChatsStillHeld, Same, StillHeld
  <2>3. CASE \E c \in Chats : AgentTakes(c)
    <3>1. PICK c \in Chats : WriteNow(Chat(c), "AGENT_ACTIVE")
      BY <2>3 DEF AgentTakes
    <3>2. Sound(Chat(c), "AGENT_ACTIVE")
      BY Names DEF Sound, ChatState
    <3>3. RowsSound'
      BY <3>1, <3>2, RowsKeptNow DEF Inv, TypeInv
    <3>4. QED
      BY <3>1, <3>3, Names
         DEF WriteNow, BatchesSame, MessagesSame, ChatsStillHeld, Same, StillHeld
  <2>4. QED
    BY <2>1, <2>2, <2>3 DEF Redeliver, ServiceEnds
<1>4. \A t : JoinsOn(t) /\ WorksOn(t)
  BY <1>1 DEF JoinsOn, WorksOn, Joining, AtWork, Cur
<1>5. OthersSame(NoTx) /\ NoTx \notin Gateways /\ NoTx \notin Workers
  BY <1>1, NoTxIsNoTx, TxsAre DEF OthersSame
<1>6. QED
  BY <1>2, <1>3, <1>4, <1>5, QuietStep

(* The message is stored and the chat locked: the gateway comes to the     *)
(* batch.                                                                  *)
LEMMA StoreFreshKeeps ==
  ASSUME Inv, NEW g \in Gateways, StoreMessage(g), Fresh(g, Cur(g))
  PROVE  Inv'
<1> DEFINE m == Cur(g)
           c == ChatOf[m]
           v == IF new[Chat(c)] = "NONE" THEN "AI_ACTIVE" ELSE new[Chat(c)]
           stored == [at |-> proc[g].start, gated |-> proc[g].gate]
           ws == Both([x \in {Chat(c)} |-> v], Row(Msg(m), stored))
<1> g \in Txs /\ g \notin Workers
  BY TxsAre
<1>1. ProcsSound /\ RowsSound /\ ProcSound(g) /\ SerialInv /\ CountInv
  BY DEF Inv, TypeInv, ProcsSound
<1>2. /\ proc[g].pc = "store" /\ CanLock(g, Chat(c)) /\ CanLock(g, Msg(m))
      /\ new[Msg(m)] = NoMsg
      /\ Write(g, Both([x \in {Chat(c)} |-> IF new[x] = "NONE" THEN "AI_ACTIVE" ELSE new[x]],
                       Row(Msg(m), stored)))
      /\ proc' = [proc EXCEPT ![g].counted = TRUE,
                              ![g].pc = IF proc[g].gate THEN "paywall" ELSE "batch"]
      /\ UNCHANGED <<inflight, blocked, faults>>
  BY DEF StoreMessage, UpsertLocks, Fresh
<1>3. m \in Messages /\ c \in Chats
  BY <1>1, <1>2, CurIs, MessagesAre
<1>4. /\ db' = db
      /\ new'[Chat(c)] = v /\ holder'[Chat(c)] = g
      /\ new'[Msg(m)] = stored /\ holder'[Msg(m)] = g
      /\ \A x \in RowIds \ {Chat(c), Msg(m)} : new'[x] = new[x] /\ holder'[x] = holder[x]
  BY <1>2, <1>3, Names DEF Write, Both, Row
<1>5. /\ DOMAIN proc' = Txs /\ OthersSame(g)
      /\ proc'[g] = [proc[g] EXCEPT !.counted = TRUE,
                                    !.pc = IF proc[g].gate THEN "paywall" ELSE "batch"]
  BY <1>1, <1>2 DEF ProcsSound, OthersSame
<1>6. /\ DOMAIN proc'[g] = DOMAIN proc[g]
      /\ proc'[g].pc = IF proc[g].gate THEN "paywall" ELSE "batch"
      /\ proc'[g].start = proc[g].start /\ proc'[g].webhook = proc[g].webhook
      /\ proc'[g].gate = proc[g].gate
      /\ proc'[g].text = proc[g].text
      /\ proc'[g].todo = proc[g].todo
  BY <1>1, <1>5 DEF ProcSound, Idle
<1>7. ProcSound(g)'
  <2>1. proc'[g].pc \in {"paywall", "batch"}
    BY <1>6
  <2>2. /\ DOMAIN proc'[g] = DOMAIN Idle
        /\ proc'[g].start \in Nat /\ proc'[g].gate \in BOOLEAN
        /\ proc'[g].text \subseteq Messages
    BY <1>1, <1>6 DEF ProcSound
  <2>3. GatewaySound(g)'
    BY <1>1, <1>2, <1>6, <2>1 DEF ProcSound, GatewaySound
  <2>4. QED
    BY <2>2, <2>3 DEF ProcSound
<1>8. ProcsSound'
  BY <1>1, <1>2, <1>5, <1>7, ProcsKept DEF ProcsSound
<1>9. stored \in MsgRecords /\ Stored(stored)
  BY <1>1, <1>2 DEF ProcSound, GatewaySound, MsgRecords, Stored
<1>10. RowsSound'
  <2>1. v \in ChatState
    BY <1>1, <1>3, Names DEF RowsSound, Sound, ChatState
  <2>2. DOMAIN ws = {Chat(c), Msg(m)} /\ ws[Chat(c)] = v /\ ws[Msg(m)] = stored
    BY Names DEF Both, Row
  <2>3. Sound(Chat(c), v)
    BY <2>1, Names DEF Sound
  <2>4. Sound(Msg(m), stored)
    BY <1>9, Names DEF Sound, MsgSound, Stored
  <2>5. Write(g, ws)
    BY <1>2
  <2>6. QED
    BY <1>1, <2>2, <2>3, <2>4, <2>5, RowsKept
<1>11. BatchesSame /\ ChatsStillHeld
  BY <1>2, <1>3, <1>4, Names DEF BatchesSame, ChatsStillHeld, Same, StillHeld, CanLock
<1>12. Joining(g)' = ~proc[g].gate /\ proc'[g].pc # "extend" /\ Cur(g)' = m
  BY <1>1, <1>6 DEF Joining, Cur, ProcSound
<1>13. SerialInv'
  <2>1. JoinsWithChat(g)
    BY <1>3, <1>4, <1>12 DEF JoinsWithChat
  <2>2. QED
    BY <1>1, <1>5, <1>11, <2>1, SerialFrame
<1>14. holder[Msg(m)] = NoTx /\ ~Stored(db[Msg(m)]) /\ ~Stored(new[Msg(m)])
         /\ \A b \in Batches : m \notin new[Batch(b)].joined
  <2>1. ~Stored(new[Msg(m)])
    BY <1>2 DEF NoMsg, Stored
  <2>2. holder[Msg(m)] = NoTx
    BY <1>1, <1>2, <1>3, <2>1, NoTxIsNoTx DEF CanLock, CountInv, MessageHolders
  <2>3. QED
    BY <1>1, <1>3, <2>1, <2>2, Names
       DEF CountInv, JoinedOnce, RowsSound, UnlockedIsCommitted
<1>15. \A k \in Messages \ {m} : Same(Msg(k))
  BY <1>3, <1>4, Names DEF Same
<1>16. \A h \in Gateways \ {g} : (Joining(h)' <=> Joining(h)) /\ Cur(h)' = Cur(h)
  BY <1>5, TxsAre DEF OthersSame, Joining, Cur
<1>17. MessageHolders'
  BY <1>1, <1>4, <1>9, <1>14, <1>15 DEF CountInv, MessageHolders, Same
<1>18. JoinedOnce'
  BY <1>1, <1>11, <1>14, <1>15 DEF CountInv, JoinedOnce, BatchesSame, Same
<1>19. NoneForgotten'
  <2>1. ~Joining(g)
    BY <1>2 DEF Joining
  <2>2. ~new'[Msg(m)].gated => Joining(g)' /\ Cur(g)' = m
    <3>1. new'[Msg(m)].gated = proc[g].gate
      BY <1>4
    <3>2. QED
      BY <1>12, <3>1
  <2>3. QED
    BY <1>1, <1>11, <1>15, <1>16, <2>1, <2>2
       DEF CountInv, NoneForgotten, BatchesSame, Same
<1>20. JoinersAreNew'
  <2> SUFFICES ASSUME NEW h \in Gateways, Joining(h)'
               PROVE  /\ holder'[Msg(Cur(h)')] = h /\ ~new'[Msg(Cur(h)')].gated
                      /\ \A b \in Batches : Cur(h)' \notin new'[Batch(b)].joined
    BY DEF JoinersAreNew
  <2>1. CASE h = g
    <3>1. ~proc[g].gate
      BY <1>12, <2>1
    <3>2. new'[Msg(m)].gated = proc[g].gate
      BY <1>4
    <3>3. holder'[Msg(m)] = g /\ ~new'[Msg(m)].gated
      BY <1>4, <3>1, <3>2
    <3>4. \A b \in Batches : m \notin new'[Batch(b)].joined
      BY <1>11, <1>14 DEF BatchesSame, Same
    <3>5. QED
      BY <1>12, <2>1, <3>3, <3>4
  <2>2. CASE h # g
    <3>1. Joining(h) /\ Cur(h)' = Cur(h) /\ Cur(h) \in Messages
      BY <1>1, <1>16, <2>2, CurIs DEF Joining
    <3>2. Cur(h) # m
      BY <1>1, <1>14, <3>1, TxsAre, NoTxIsNoTx DEF CountInv, JoinersAreNew
    <3>3. QED
      BY <1>1, <1>11, <1>15, <3>1, <3>2 DEF CountInv, JoinersAreNew, BatchesSame, Same
  <2>3. QED
    BY <2>1, <2>2
<1>21. QED
  BY <1>8, <1>10, <1>13, <1>17, <1>18, <1>19, <1>20 DEF Inv, TypeInv, CountInv

LEMMA StoreMessageKeeps ==
  ASSUME Inv, NEW g \in Gateways, StoreMessage(g)
  PROVE  Inv'
<1> DEFINE c == ChatOf[Cur(g)]
           v == IF new[Chat(c)] = "NONE" THEN "AI_ACTIVE" ELSE new[Chat(c)]
<1> SUFFICES ASSUME ~Fresh(g, Cur(g))
             PROVE  Inv'
  BY StoreFreshKeeps
<1> g \in Txs /\ g \notin Workers
  BY TxsAre
<1>1. /\ proc[g].pc = "store" /\ CanLock(g, Chat(c)) /\ Continue(g, "check")
      /\ Write(g, [x \in {Chat(c)} |-> IF new[x] = "NONE" THEN "AI_ACTIVE" ELSE new[x]])
      /\ UNCHANGED <<inflight, blocked, faults>>
  BY DEF StoreMessage, UpsertLocks
<1>2. ProcsSound' /\ OthersSame(g) /\ ~Joining(g)'
  BY <1>1, GatewayGoesOn DEF Inv, TypeInv
<1>3. c \in Chats
  BY <1>1, CurIs, MessagesAre DEF Inv, TypeInv
<1>4. Write(g, Row(Chat(c), v))
  <2>1. [x \in {Chat(c)} |-> IF new[x] = "NONE" THEN "AI_ACTIVE" ELSE new[x]] = Row(Chat(c), v)
    BY DEF Row
  <2>2. QED
    BY <1>1, <2>1
<1>5. Sound(Chat(c), v)
  <2>1. v \in ChatState
    BY <1>3, Names DEF Inv, TypeInv, RowsSound, Sound, ChatState
  <2>2. QED
    BY <2>1, Names DEF Sound
<1>6. RowsSound' /\ BatchesSame /\ MessagesSame /\ ChatsStillHeld
  <2>1. /\ \A b \in Batches : Chat(c) # Batch(b) /\ Chat(c) # Reply(b)
        /\ \A m \in Messages : Chat(c) # Msg(m)
    BY Names
  <2>2. QED
    BY <1>1, <1>4, <1>5, <2>1, WriteAside DEF Inv, TypeInv
<1>7. JoinsOn(g) /\ JoinsWithChat(g)
  BY <1>1, <1>2 DEF JoinsOn, JoinsWithChat, Joining
<1>8. QED
  BY <1>2, <1>6, <1>7, QuietStep

-----------------------------------------------------------------------------
(* A message joins a batch.                                                *)
LEMMA JoinKeepsCount ==
  ASSUME ProcsSound, CountInv, NEW g \in Gateways, NEW b \in Batches,
         Joining(g), db' = db, MessagesSame,
         new'[Batch(b)].joined = new[Batch(b)].joined \cup {Cur(g)},
         holder'[Batch(b)] = g, StillHeld(Batch(b)),
         \A k \in Batches \ {b} : Same(Batch(k)),
         OthersSame(g), ~Joining(g)'
  PROVE  CountInv'
<1> USE NoTxIsNoTx, TxsAre DEF MessagesSame, Same, StillHeld, CountInv
<1> DEFINE m == Cur(g)
<1>1. m \in Messages
  BY CurIs DEF Joining
<1>2. /\ holder[Msg(m)] = g /\ ~new[Msg(m)].gated
      /\ \A k \in Batches : m \notin new[Batch(k)].joined
  BY DEF JoinersAreNew
<1>3. Stored(new[Msg(m)])
  BY <1>1, <1>2 DEF MessageHolders
<1>4. \A h \in Gateways \ {g} : (Joining(h)' <=> Joining(h)) /\ Cur(h)' = Cur(h)
  BY DEF OthersSame, Joining, Cur
<1>5. MessageHolders'
  BY DEF MessageHolders
<1>6. JoinedOnce'
  <2> SUFFICES ASSUME NEW n \in Messages, NEW k \in Batches
               PROVE  /\ n \in new'[Batch(k)].joined =>
                           /\ Stored(new'[Msg(n)]) /\ ~new'[Msg(n)].gated
                           /\ \A j \in Batches : n \in new'[Batch(j)].joined => j = k
                      /\ n \in db'[Batch(k)].joined =>
                           n \in new'[Batch(k)].joined /\ Stored(db'[Msg(n)])
                      /\ n \in new'[Batch(k)].joined /\ n \notin db'[Batch(k)].joined =>
                           /\ holder'[Batch(k)] \in Gateways
                           /\ holder'[Msg(n)] = holder'[Batch(k)]
    BY DEF JoinedOnce
  <2>1. CASE n = m
    BY <1>1, <1>2, <1>3, <2>1 DEF JoinedOnce
  <2>2. CASE n # m
    <3>1. /\ n \in new'[Batch(k)].joined <=> n \in new[Batch(k)].joined
          /\ \A j \in Batches : n \in new'[Batch(j)].joined <=> n \in new[Batch(j)].joined
      BY <2>2
    <3>2. QED
      BY <3>1 DEF JoinedOnce
  <2>3. QED
    BY <2>1, <2>2
<1>7. NoneForgotten'
  BY <1>4 DEF NoneForgotten
<1>8. JoinersAreNew'
  <2> SUFFICES ASSUME NEW h \in Gateways \ {g}, Joining(h)
               PROVE  /\ holder'[Msg(Cur(h))] = h /\ ~new'[Msg(Cur(h))].gated
                      /\ \A k \in Batches : Cur(h) \notin new'[Batch(k)].joined
    BY <1>4 DEF JoinersAreNew
  <2>1. Cur(h) \in Messages
    BY CurIs DEF Joining
  <2>2. Cur(h) # m
    BY <1>2 DEF JoinersAreNew
  <2>3. QED
    BY <2>1, <2>2 DEF JoinersAreNew
<1>9. QED
  BY <1>5, <1>6, <1>7, <1>8

(* There is a row for a batch: each opened batch has a message of its own. *)
LEMMA FreeBatch ==
  ASSUME Inv, NEW g \in Gateways, proc[g].pc = "batch"
  PROVE  NewBatch \in Batches /\ new[Batch(NewBatch)] = NoBatch
<1> SUFFICES ASSUME \A b \in Batches : new[Batch(b)] # NoBatch
             PROVE  FALSE
  BY DEF NewBatch
<1> DEFINE m == Cur(g)
           f == [b \in Batches |-> CHOOSE n : n \in new[Batch(b)].joined]
<1>1. m \in Messages /\ \A b \in Batches : m \notin new[Batch(b)].joined
  BY CurIs DEF Inv, TypeInv, CountInv, JoinersAreNew, Joining
<1>2. ASSUME NEW b \in Batches
      PROVE  f[b] \in new[Batch(b)].joined /\ f[b] \in Messages \ {m}
  <2>1. BatchSound(new[Batch(b)])
    BY Names DEF Inv, TypeInv, RowsSound, Sound
  <2>2. new[Batch(b)].joined # {} /\ new[Batch(b)].joined \subseteq Messages
    BY <2>1 DEF BatchSound, BatchRecords
  <2>3. QED
    BY <1>1, <2>2
<1>3. \A b, k \in Batches : f[b] = f[k] => b = k
  BY <1>2 DEF Inv, CountInv, JoinedOnce
<1>4. f \in Injection(Batches, Messages \ {m})
  BY <1>2, <1>3 DEF Injection, IsInjective
<1>5. IsFiniteSet(Messages \ {m})
        /\ Cardinality(Messages \ {m}) = Cardinality(Messages) - 1
  BY <1>1, MessagesAre, FS_RemoveElement
<1>6. Cardinality(Batches) <= Cardinality(Messages \ {m})
  BY <1>4, <1>5, FS_Injection
<1>7. QED
  BY <1>5, <1>6, BatchesAre

(* Nobody holds a batch that is not there.                                 *)
LEMMA FreeBatchIsFree ==
  ASSUME Inv, NEW b \in Batches, new[Batch(b)] = NoBatch
  PROVE  holder[Batch(b)] = NoTx /\ db[Batch(b)] = NoBatch /\ holder[Reply(b)] = NoTx
<1>1. new[Batch(b)].status = "NONE"
  BY DEF NoBatch
<1>2. holder[Batch(b)] \notin Gateways /\ holder[Batch(b)] \notin Workers
  BY <1>1 DEF Inv, SerialInv, Holders, GatewayHolds, WorkerHolds
<1>3. holder[Batch(b)] = NoTx
  BY <1>2, TxsAre, Names DEF Inv, TypeInv, RowsSound
<1>4. db[Batch(b)] = NoBatch
  BY <1>3, Names DEF Inv, TypeInv, RowsSound, UnlockedIsCommitted
<1>5. QED
  BY <1>2, <1>3, <1>4 DEF Inv, SerialInv, Holders

LEMMA FindBatchFound ==
  ASSUME Inv, NEW g \in Gateways, proc[g].pc = "batch",
         NEW b \in OpenBatches(g, ChatOf[Cur(g)]),
         proc' = [proc EXCEPT ![g].pc = "extend", ![g].found = b],
         UNCHANGED <<dbVars, inflight, blocked, faults>>
  PROVE  Inv'
<1> g \in Txs /\ g \notin Workers
  BY TxsAre
<1>1. ProcsSound /\ RowsSound /\ ProcSound(g) /\ SerialInv
  BY DEF Inv, TypeInv, ProcsSound
<1>2. /\ DOMAIN proc' = Txs /\ OthersSame(g)
      /\ proc'[g] = [proc[g] EXCEPT !.pc = "extend", !.found = b]
  BY <1>1 DEF ProcsSound, OthersSame
<1>3. /\ DOMAIN proc'[g] = DOMAIN proc[g] /\ proc'[g].pc = "extend" /\ proc'[g].found = b
      /\ proc'[g].start = proc[g].start /\ proc'[g].webhook = proc[g].webhook
      /\ proc'[g].gate = proc[g].gate
      /\ proc'[g].text = proc[g].text
      /\ proc'[g].todo = proc[g].todo
  BY <1>1, <1>2 DEF ProcSound, Idle
<1>4. b \in Batches /\ Sees(g, Batch(b)).status = "OPEN" /\ Sees(g, Batch(b)).chat = ChatOf[Cur(g)]
  BY DEF OpenBatches
<1>5. ProcSound(g)'
  BY <1>1, <1>3, <1>4 DEF ProcSound, GatewaySound
<1>6. ProcsSound'
  BY <1>1, <1>2, <1>5, ProcsKept DEF ProcsSound
<1>7. JoinsOn(g) /\ Cur(g)' = Cur(g)
  BY <1>3 DEF JoinsOn, Joining, Cur
<1>8. FoundBatch(g)'
  <2>1. /\ new[Batch(b)].status # "NONE" /\ new[Batch(b)].chat = ChatOf[Cur(g)]
        /\ holder[Batch(b)] = g \/ db[Batch(b)].status # "NONE"
    BY <1>1, <1>4 DEF Sees, SerialInv, Committed
  <2>2. QED
    BY <1>3, <1>7, <2>1 DEF FoundBatch, dbVars
<1>9. JoinsWithChat(g)
  <2>1. holder[Chat(ChatOf[Cur(g)])] = g
    BY <1>1 DEF SerialInv, Guarded, Joining
  <2>2. ChatOf[Cur(g)] \in Chats
    BY <1>1, CurIs, MessagesAre
  <2>3. QED
    BY <1>7, <1>8, <2>1, <2>2 DEF JoinsWithChat, dbVars
<1>10. QED
  BY <1>1, <1>2, <1>6, <1>7, <1>9, ReadsOnly, QuietStep

LEMMA FindBatchInsert ==
  ASSUME Inv, NEW g \in Gateways, proc[g].pc = "batch",
         OpenBatches(g, ChatOf[Cur(g)]) = {}, Continue(g, "check"),
         Write(g, Row(Batch(NewBatch),
                [NoBatch EXCEPT !.status = "OPEN", !.chat = ChatOf[Cur(g)],
                                !.opened = proc[g].start,
                                !.count = 1, !.joined = {Cur(g)}])),
         UNCHANGED <<inflight, blocked, faults>>
  PROVE  Inv'
<1> DEFINE m == Cur(g)
           c == ChatOf[m]
           row == [NoBatch EXCEPT !.status = "OPEN", !.chat = c, !.opened = proc[g].start,
                                  !.count = 1, !.joined = {m}]
<1> g \in Txs /\ g \notin Workers
  BY TxsAre
<1>1. ProcsSound /\ RowsSound /\ ProcSound(g) /\ SerialInv /\ CountInv /\ Joining(g)
  BY DEF Inv, TypeInv, ProcsSound, Joining
<1>2. m \in Messages /\ c \in Chats /\ holder[Chat(c)] = g
  BY <1>1, CurIs, MessagesAre DEF SerialInv, Guarded
<1>3. PICK n \in Batches :
        /\ n = NewBatch /\ new[Batch(n)] = NoBatch /\ db[Batch(n)] = NoBatch
        /\ holder[Batch(n)] = NoTx /\ holder[Reply(n)] = NoTx
  BY FreeBatch, FreeBatchIsFree
<1>4. /\ db' = db /\ new'[Batch(n)] = row /\ holder'[Batch(n)] = g
      /\ \A x \in RowIds \ {Batch(n)} : new'[x] = new[x] /\ holder'[x] = holder[x]
  BY <1>3, Names, WriteOne
<1>5. ProcsSound' /\ OthersSame(g) /\ ~Joining(g)'
  BY <1>1, GatewayGoesOn
<1>6. /\ row.status = "OPEN" /\ row.chat = c /\ row.joined = {m} /\ row.count = 1
      /\ row \in BatchRecords
  BY <1>1, <1>2 DEF NoBatch, BatchRecords, ProcSound
<1>7. RowsSound'
  <2>1. BatchSound(row)
    <3>1. Cardinality({m}) = 1
      BY FS_Singleton
    <3>2. QED
      BY <1>2, <1>6, <3>1 DEF BatchSound
  <2>2. Sound(Batch(n), row)
    BY <2>1, Names DEF Sound
  <2>3. Write(g, Row(Batch(n), row))
    BY <1>3
  <2>4. \A x \in DOMAIN Row(Batch(n), row) \cap RowIds : Sound(x, Row(Batch(n), row)[x])
    BY <2>2 DEF Row
  <2>5. QED
    BY <1>1, <2>3, <2>4, RowsKept
<1> HIDE DEF row
<1>8. /\ \A b \in Batches \ {n} : Same(Batch(b))
      /\ \A b \in Batches : Same(Reply(b))
      /\ MessagesSame /\ \A k \in Chats : Same(Chat(k))
  BY <1>3, <1>4, Names DEF Same, MessagesSame
<1>9. new[Batch(n)].status = "NONE" /\ db[Batch(n)].status = "NONE" /\ new[Batch(n)].joined = {}
  BY <1>3 DEF NoBatch
<1>10. CountInv'
  <2>1. new'[Batch(n)].joined = new[Batch(n)].joined \cup {m} /\ StillHeld(Batch(n))
    BY <1>3, <1>4, <1>6, <1>9 DEF StillHeld
  <2>2. QED
    BY <1>1, <1>3, <1>4, <1>5, <1>8, <2>1, JoinKeepsCount
<1>11. Holders'
  <2> SUFFICES ASSUME NEW b \in Batches
               PROVE  /\ holder'[Batch(b)] \in Gateways => GatewayHolds(holder[Batch(b)], b)'
                      /\ holder'[Batch(b)] \in Workers => WorkerHolds(holder[Batch(b)], b)'
                      /\ holder'[Reply(b)] # NoTx =>
                           holder'[Reply(b)] \in Workers
                             /\ holder'[Batch(b)] = holder'[Reply(b)]
    BY DEF Holders
  <2>1. CASE b = n
    <3>1. /\ holder'[Batch(n)] = g /\ g \notin Workers /\ holder'[Reply(n)] = NoTx
          /\ new'[Batch(n)].status = "OPEN" /\ new'[Batch(n)].chat = c
          /\ db'[Batch(n)].status = "NONE" /\ holder'[Chat(c)] = g
      BY <1>2, <1>3, <1>4, <1>6, <1>8, <1>9 DEF Same
    <3>2. GatewayHolds(g, n)'
      BY <3>1 DEF GatewayHolds
    <3>3. GatewayHolds(holder[Batch(n)], n)'
      BY <3>1, <3>2 DEF GatewayHolds
    <3>4. QED
      BY <2>1, <3>1, <3>3
  <2>2. CASE b # n
    <3>1. ASSUME holder[Batch(b)] \in Gateways
          PROVE  GatewayHolds(holder[Batch(b)], b)'
      <4>1. GatewayHolds(holder[Batch(b)], b)
        BY <1>1, <3>1 DEF SerialInv, Holders
      <4>2. new[Batch(b)].chat \in Chats
        <5>1. new[Batch(b)].status # "NONE"
          BY <1>1, <4>1 DEF SerialInv, Committed, GatewayHolds
        <5>2. QED
          BY <1>1, <5>1, Names DEF RowsSound, Sound, BatchSound
      <4>3. QED
        BY <1>8, <2>2, <4>1, <4>2 DEF GatewayHolds, Same
    <3>2. ASSUME holder[Batch(b)] \in Workers
          PROVE  WorkerHolds(holder[Batch(b)], b)'
      <4>1. PICK w \in Workers : w = holder[Batch(b)]
        BY <3>2
      <4>2. WorkerHolds(w, b)
        BY <1>1, <4>1 DEF SerialInv, Holders
      <4>3. AtWork(w)' = AtWork(w) /\ Cur(w)' = Cur(w)
        BY <1>5, <4>1, TxsAre DEF OthersSame, AtWork, Cur
      <4>4. WorkerHolds(w, b)'
        BY <1>8, <2>2, <4>2, <4>3 DEF WorkerHolds, Same
      <4>5. holder'[Batch(b)] = w
        BY <1>8, <2>2, <4>1 DEF Same
      <4>6. QED
        BY <4>1, <4>4, <4>5 DEF WorkerHolds, AtWork, Cur
    <3>3. QED
      BY <1>1, <1>8, <2>2, <3>1, <3>2 DEF SerialInv, Holders, Same
  <2>3. QED
    BY <2>1, <2>2
<1>12. Committed'
  BY <1>1, <1>4, <1>8, <1>9 DEF SerialInv, Committed, Same
<1>13. Guarded'
  <2>1. ASSUME NEW h \in Gateways, Joining(h)'
        PROVE  holder'[Chat(ChatOf[Cur(h)'])] = h /\ (proc'[h].pc = "extend" => FoundBatch(h)')
    <3>1. h # g /\ Joining(h) /\ proc'[h] = proc[h] /\ Cur(h)' = Cur(h)
      BY <1>5, <2>1, TxsAre DEF OthersSame, Joining, Cur
    <3>2. ChatOf[Cur(h)] \in Chats
      BY <1>1, <3>1, CurIs, MessagesAre DEF Joining
    <3>3. proc[h].pc = "extend" => FoundBatch(h) /\ proc[h].found \in Batches
      BY <1>1, TxsAre DEF SerialInv, Guarded, ProcsSound, ProcSound, GatewaySound
    <3>4. proc[h].pc = "extend" => FoundBatch(h)'
      <4>1. ASSUME proc[h].pc = "extend" PROVE proc[h].found # n
        BY <1>9, <3>3, <4>1 DEF FoundBatch
      <4>2. QED
        BY <1>8, <3>1, <3>3, <4>1 DEF FoundBatch, Same
    <3>5. QED
      BY <1>1, <1>8, <3>1, <3>2, <3>4 DEF SerialInv, Guarded, Same
  <2>2. ASSUME NEW w \in Workers, AtWork(w)'
        PROVE  holder'[Batch(Cur(w)')] = w /\ new'[Batch(Cur(w)')].status = "SEALED"
    <3>1. AtWork(w) /\ Cur(w)' = Cur(w)
      BY <1>5, <2>2, TxsAre DEF OthersSame, AtWork, Cur
    <3>2. Cur(w) \in Batches
      BY <1>1, <3>1, CurIs DEF AtWork
    <3>3. holder[Batch(Cur(w))] = w /\ new[Batch(Cur(w))].status = "SEALED"
      BY <1>1, <3>1 DEF SerialInv, Guarded
    <3>4. QED
      BY <1>8, <1>9, <3>1, <3>2, <3>3 DEF Same
  <2>3. QED
    BY <2>1, <2>2 DEF Guarded, Joining
<1>14. \A k \in Batches : ~(MaybeOpen(k) /\ new[Batch(k)].chat = c)
  <2> SUFFICES ASSUME NEW k \in Batches, MaybeOpen(k), new[Batch(k)].chat = c
               PROVE  FALSE
    OBVIOUS
  <2> k \notin OpenBatches(g, c)
    OBVIOUS
  <2>1. CASE holder[Batch(k)] = NoTx
    BY <1>1, <2>1, Names, NoTxIsNoTx
       DEF MaybeOpen, RowsSound, UnlockedIsCommitted, OpenBatches, Sees
  <2>2. CASE holder[Batch(k)] \in Gateways
    <3>1. GatewayHolds(holder[Batch(k)], k)
      BY <1>1, <2>2 DEF SerialInv, Holders
    <3>2. holder[Batch(k)] = g
      BY <1>2, <3>1 DEF GatewayHolds
    <3>3. new[Batch(k)].status = "OPEN"
      BY <3>1 DEF GatewayHolds, MaybeOpen
    <3>4. QED
      BY <3>2, <3>3 DEF OpenBatches, Sees
  <2>3. CASE holder[Batch(k)] \in Workers
    <3>1. db[Batch(k)].status = "OPEN"
      BY <1>1, <2>3 DEF SerialInv, Holders, WorkerHolds
    <3>2. db[Batch(k)].chat = c
      BY <1>1, <3>1 DEF SerialInv, Committed
    <3>3. holder[Batch(k)] # g
      BY <2>3
    <3>4. QED
      BY <3>1, <3>2, <3>3 DEF OpenBatches, Sees
  <2>4. QED
    BY <1>1, <2>1, <2>2, <2>3, TxsAre, Names DEF RowsSound
<1>15. OneMaybeOpen'
  <2>1. \A b \in Batches \ {n} : (MaybeOpen(b)' <=> MaybeOpen(b)) /\ new'[Batch(b)] = new[Batch(b)]
    BY <1>8 DEF MaybeOpen, Same
  <2>2. new'[Batch(n)].chat = c
    BY <1>4, <1>6
  <2>3. QED
    BY <1>1, <1>14, <2>1, <2>2 DEF SerialInv, OneMaybeOpen
<1>16. QED
  BY <1>5, <1>7, <1>10, <1>11, <1>12, <1>13, <1>15 DEF Inv, TypeInv, SerialInv

LEMMA FindBatchKeeps ==
  ASSUME Inv, NEW g \in Gateways, FindBatch(g)
  PROVE  Inv'
BY FindBatchFound, FindBatchInsert DEF FindBatch

(* A process writes one batch that is there.                               *)
LEMMA OneBatchWritten ==
  ASSUME RowsSound, ProcsSound, SerialInv, NEW t \in Txs, NEW b \in Batches,
         db' = db, holder'[Batch(b)] = t, StillHeld(Batch(b)),
         new[Batch(b)].status # "NONE", new'[Batch(b)].status # "NONE",
         new'[Batch(b)].chat = new[Batch(b)].chat,
         new'[Batch(b)].status = "OPEN" => MaybeOpen(b),
         \A k \in Batches \ {b} : Same(Batch(k)) /\ Same(Reply(k)),
         ChatsStillHeld, OthersSame(t),
         holder'[Reply(b)] # NoTx => t \in Workers /\ holder'[Reply(b)] = t,
         t \in Gateways => GatewayHolds(t, b)' /\ JoinsWithChat(t),
         t \in Workers => /\ WorkerHolds(t, b)'
                          /\ AtWork(t) => Cur(t) = b
                          /\ AtWork(t)' => Cur(t)' = b /\ new'[Batch(b)].status = "SEALED"
  PROVE  SerialInv'
<1> USE NoTxIsNoTx, TxsAre DEF SerialInv
<1>1. \A u \in Txs \ {t} : /\ (AtWork(u)' <=> AtWork(u)) /\ (Joining(u)' <=> Joining(u))
                           /\ Cur(u)' = Cur(u) /\ proc'[u] = proc[u]
  BY DEF OthersSame, AtWork, Joining, Cur
<1>2. \A k \in Batches : new[Batch(k)].status # "NONE" => new[Batch(k)].chat \in Chats
  BY Names DEF RowsSound, Sound, BatchSound
<1>3. Holders'
  <2> SUFFICES ASSUME NEW k \in Batches
               PROVE  /\ holder'[Batch(k)] \in Gateways => GatewayHolds(holder[Batch(k)], k)'
                      /\ holder'[Batch(k)] \in Workers => WorkerHolds(holder[Batch(k)], k)'
                      /\ holder'[Reply(k)] # NoTx =>
                           holder'[Reply(k)] \in Workers
                             /\ holder'[Batch(k)] = holder'[Reply(k)]
    BY DEF Holders
  <2>1. CASE k = b
    <3>1. t \in Gateways => GatewayHolds(holder[Batch(b)], b)'
      BY DEF GatewayHolds
    <3>2. t \in Workers => WorkerHolds(holder[Batch(b)], b)'
      BY DEF WorkerHolds, AtWork, Cur
    <3>3. QED
      BY <2>1, <3>1, <3>2
  <2>2. CASE k # b
    <3>1. ASSUME holder[Batch(k)] \in Gateways
          PROVE  GatewayHolds(holder[Batch(k)], k)'
      <4>1. GatewayHolds(holder[Batch(k)], k)
        BY <3>1 DEF Holders
      <4>2. new[Batch(k)].chat \in Chats
        BY <1>2, <4>1 DEF Committed, GatewayHolds
      <4>3. holder[Chat(new[Batch(k)].chat)] = holder[Batch(k)]
        BY <4>1 DEF GatewayHolds
      <4>4. holder'[Chat(new[Batch(k)].chat)] = holder[Batch(k)]
        BY <3>1, <4>2, <4>3 DEF ChatsStillHeld, StillHeld
      <4>5. Same(Batch(k))
        BY <2>2
      <4>6. QED
        BY <4>1, <4>4, <4>5 DEF GatewayHolds, Same
    <3>2. ASSUME holder[Batch(k)] \in Workers
          PROVE  WorkerHolds(holder[Batch(k)], k)'
      <4>1. PICK w \in Workers : w = holder[Batch(k)]
        BY <3>2
      <4>2. WorkerHolds(w, k)
        BY <4>1 DEF Holders
      <4>3. AtWork(w) /\ Cur(w) = k => AtWork(w)' /\ Cur(w)' = k
        BY <1>1, <2>2
      <4>4. WorkerHolds(w, k)'
        BY <2>2, <4>2, <4>3 DEF WorkerHolds, Same
      <4>5. holder'[Batch(k)] = w
        BY <2>2, <4>1 DEF Same
      <4>6. QED
        BY <4>1, <4>4, <4>5 DEF WorkerHolds, AtWork, Cur
    <3>3. QED
      BY <2>2, <3>1, <3>2 DEF Holders, Same
  <2>3. QED
    BY <2>1, <2>2
<1>4. Committed'
  BY DEF Committed, Same
<1>5. Guarded'
  <2>1. ASSUME NEW h \in Gateways, Joining(h)'
        PROVE  holder'[Chat(ChatOf[Cur(h)'])] = h /\ (proc'[h].pc = "extend" => FoundBatch(h)')
    <3>1. CASE h = t
      BY <2>1, <3>1 DEF JoinsWithChat
    <3>2. CASE h # t
      <4>1. Joining(h) /\ Cur(h)' = Cur(h) /\ proc'[h] = proc[h]
        BY <1>1, <2>1, <3>2
      <4>2. ChatOf[Cur(h)] \in Chats
        BY <4>1, CurIs, MessagesAre DEF Joining
      <4>3. proc[h].pc = "extend" => FoundBatch(h) /\ proc[h].found \in Batches
        BY DEF Guarded, ProcsSound, ProcSound, GatewaySound
      <4>4. proc[h].pc = "extend" => FoundBatch(h)'
        BY <4>1, <4>3 DEF FoundBatch, Same, StillHeld
      <4>5. QED
        BY <4>1, <4>2, <4>4 DEF Guarded, ChatsStillHeld, StillHeld
    <3>3. QED
      BY <3>1, <3>2
  <2>2. ASSUME NEW w \in Workers, AtWork(w)'
        PROVE  holder'[Batch(Cur(w)')] = w /\ new'[Batch(Cur(w)')].status = "SEALED"
    <3>1. CASE w = t
      BY <2>2, <3>1
    <3>2. CASE w # t
      <4>1. AtWork(w) /\ Cur(w)' = Cur(w)
        BY <1>1, <2>2, <3>2
      <4>2. Cur(w) \in Batches
        BY <4>1, CurIs DEF AtWork
      <4>3. holder[Batch(Cur(w))] = w /\ new[Batch(Cur(w))].status = "SEALED"
        BY <4>1 DEF Guarded
      <4>4. Cur(w) # b
        BY <3>2, <4>3 DEF StillHeld
      <4>5. QED
        BY <4>1, <4>2, <4>3, <4>4 DEF Same
    <3>3. QED
      BY <3>1, <3>2
  <2>3. QED
    BY <2>1, <2>2 DEF Guarded, Joining
<1>6. OneMaybeOpen'
  <2>1. \A k \in Batches : /\ MaybeOpen(k)' => MaybeOpen(k)
                           /\ new'[Batch(k)].chat = new[Batch(k)].chat
    BY DEF MaybeOpen, Same
  <2>2. QED
    BY <2>1 DEF OneMaybeOpen
<1>7. QED
  BY <1>3, <1>4, <1>5, <1>6

LEMMA ExtendBatchKeeps ==
  ASSUME Inv, NEW g \in Gateways, ExtendBatch(g)
  PROVE  Inv'
<1> DEFINE m == Cur(g)
<1> g \in Txs /\ g \notin Workers
  BY TxsAre
<1>0. PICK b \in Batches : b = proc[g].found
  BY DEF Inv, TypeInv, ProcsSound, ProcSound, GatewaySound, ExtendBatch
<1> DEFINE row == [new[Batch(b)] EXCEPT !.count = @ + 1, !.joined = @ \cup {m}]
<1>1. ProcsSound /\ RowsSound /\ ProcSound(g) /\ SerialInv /\ CountInv
  BY DEF Inv, TypeInv, ProcsSound
<1>2. /\ proc[g].pc = "extend" /\ CanLock(g, Batch(b)) /\ Write(g, Row(Batch(b), row))
      /\ Continue(g, "check") /\ UNCHANGED <<inflight, blocked, faults>>
  BY <1>0 DEF ExtendBatch
<1>3. Joining(g) /\ m \in Messages /\ ChatOf[m] \in Chats
  BY <1>1, <1>2, CurIs, MessagesAre DEF Joining
<1>4. ProcsSound' /\ OthersSame(g) /\ ~Joining(g)'
  BY <1>1, <1>2, GatewayGoesOn
<1>5. /\ holder[Chat(ChatOf[m])] = g
      /\ new[Batch(b)].status # "NONE" /\ new[Batch(b)].chat = ChatOf[m]
      /\ holder[Batch(b)] = g \/ db[Batch(b)].status # "NONE"
  BY <1>0, <1>1, <1>2, <1>3 DEF SerialInv, Guarded, FoundBatch
<1>6. m \notin new[Batch(b)].joined
  BY <1>1, <1>3 DEF CountInv, JoinersAreNew
<1>7. BatchSound(new[Batch(b)])
  BY <1>1, <1>3, Names DEF RowsSound, Sound
<1>8. /\ row \in BatchRecords /\ row.joined = new[Batch(b)].joined \cup {m}
      /\ row.count = new[Batch(b)].count + 1
      /\ row.status = new[Batch(b)].status /\ row.chat = new[Batch(b)].chat
      /\ row.asked = new[Batch(b)].asked /\ row.text = new[Batch(b)].text
  <2>1. new[Batch(b)] \in BatchRecords
    BY <1>7 DEF BatchSound
  <2>2. /\ row.joined = new[Batch(b)].joined \cup {m}
        /\ row.count = new[Batch(b)].count + 1
        /\ row.status = new[Batch(b)].status /\ row.chat = new[Batch(b)].chat
        /\ row.asked = new[Batch(b)].asked /\ row.text = new[Batch(b)].text
    BY <2>1 DEF BatchRecords
  <2>3. new[Batch(b)].count + 1 \in Nat /\ new[Batch(b)].joined \cup {m} \in SUBSET Messages
    BY <1>3, <2>1 DEF BatchRecords
  <2>4. row \in BatchRecords
    BY <2>1, <2>3 DEF BatchRecords
  <2>5. QED
    BY <2>2, <2>4
<1>9. BatchSound(row)
  <2>1. IsFiniteSet(new[Batch(b)].joined)
    BY <1>7, MessagesAre, FS_Subset DEF BatchSound, BatchRecords
  <2>2. Cardinality(row.joined) = Cardinality(new[Batch(b)].joined) + 1
    BY <1>6, <1>8, <2>1, FS_AddElement
  <2>3. row.count = Cardinality(row.joined)
    BY <1>7, <1>8, <2>2 DEF BatchSound
  <2>4. \A k \in row.joined : ChatOf[k] = row.chat
    BY <1>5, <1>7, <1>8 DEF BatchSound
  <2>5. row.status # "NONE" /\ row.chat \in Chats /\ row.joined # {}
    BY <1>3, <1>5, <1>8
  <2>6. QED
    BY <1>8, <2>3, <2>4, <2>5 DEF BatchSound
<1>10. /\ db' = db /\ new'[Batch(b)] = row /\ holder'[Batch(b)] = g
       /\ \A x \in RowIds \ {Batch(b)} : new'[x] = new[x] /\ holder'[x] = holder[x]
  BY <1>2, <1>3, Names, WriteOne
<1> HIDE DEF row
<1>11. RowsSound'
  <2>1. \A x \in DOMAIN Row(Batch(b), row) \cap RowIds : Sound(x, Row(Batch(b), row)[x])
    BY <1>9, Names DEF Sound, Row
  <2>2. QED
    BY <1>1, <1>2, <2>1, RowsKept
<1>12. /\ \A k \in Batches \ {b} : Same(Batch(k)) /\ Same(Reply(k))
       /\ holder'[Reply(b)] = holder[Reply(b)]
       /\ MessagesSame /\ ChatsStillHeld /\ \A k \in Chats : Same(Chat(k))
  BY <1>3, <1>10, Names DEF Same, StillHeld, ChatsStillHeld, MessagesSame
<1>13. StillHeld(Batch(b)) /\ holder[Batch(b)] \in {NoTx, g}
  BY <1>2, <1>10 DEF StillHeld, CanLock
<1>14. CountInv'
  BY <1>1, <1>3, <1>4, <1>8, <1>10, <1>12, <1>13, JoinKeepsCount
<1>15. /\ db[Batch(b)].status = "NONE" => new[Batch(b)].status = "OPEN"
       /\ db[Batch(b)].status # "NONE" =>
            /\ new[Batch(b)].status = db[Batch(b)].status
            /\ new[Batch(b)].asked = db[Batch(b)].asked
            /\ new[Batch(b)].text = db[Batch(b)].text
  <2>1. CASE holder[Batch(b)] = g
    BY <1>1, <1>3, <2>1 DEF SerialInv, Holders, GatewayHolds
  <2>2. CASE holder[Batch(b)] = NoTx
    BY <1>1, <1>3, <1>5, <2>2, Names DEF RowsSound, UnlockedIsCommitted
  <2>3. QED
    BY <1>13, <2>1, <2>2
<1>16. GatewayHolds(g, b)'
  BY <1>3, <1>5, <1>8, <1>10, <1>12, <1>15 DEF GatewayHolds, Same
<1>17. holder'[Reply(b)] = NoTx
  BY <1>1, <1>3, <1>12, <1>13, NoTxIsNoTx, TxsAre DEF SerialInv, Holders
<1>18. SerialInv'
  <2>1. JoinsWithChat(g)
    BY <1>4 DEF JoinsWithChat
  <2>2. new'[Batch(b)].status = "OPEN" => MaybeOpen(b)
    BY <1>8, <1>10 DEF MaybeOpen
  <2>3. QED
    BY <1>1, <1>3, <1>4, <1>5, <1>8, <1>10, <1>12, <1>13, <1>16, <1>17, <2>1, <2>2,
       OneBatchWritten
<1>19. QED
  BY <1>4, <1>11, <1>14, <1>18 DEF Inv, TypeInv

(* What a worker at work knows of his batch.                               *)
LEMMA AtWorkHolds ==
  ASSUME Inv, NEW w \in Workers, AtWork(w)
  PROVE  /\ Cur(w) \in Batches /\ holder[Batch(Cur(w))] = w
         /\ new[Batch(Cur(w))].status = "SEALED" /\ db[Batch(Cur(w))].status = "OPEN"
         /\ BatchSound(new[Batch(Cur(w))]) /\ new[Batch(Cur(w))].chat \in Chats
         /\ holder[Reply(Cur(w))] \in {NoTx, w}
<1>1. Cur(w) \in Batches
  BY CurIs DEF Inv, TypeInv, AtWork
<1>2. holder[Batch(Cur(w))] = w /\ new[Batch(Cur(w))].status = "SEALED"
  BY DEF Inv, SerialInv, Guarded
<1>3. db[Batch(Cur(w))].status = "OPEN"
  BY <1>1, <1>2 DEF Inv, SerialInv, Holders, WorkerHolds
<1>4. BatchSound(new[Batch(Cur(w))])
  BY <1>1, Names DEF Inv, TypeInv, RowsSound, Sound
<1>5. new[Batch(Cur(w))].chat \in Chats
  BY <1>2, <1>4 DEF BatchSound
<1>6. holder[Reply(Cur(w))] \in {NoTx, w}
  BY <1>1, <1>2 DEF Inv, SerialInv, Holders
<1>7. QED
  BY <1>1, <1>2, <1>3, <1>4, <1>5, <1>6

(* The worker is done with his batch, whatever else he writes.             *)
LEMMA DoneWithBatch ==
  ASSUME Inv, NEW w \in Workers, AtWork(w), NEW b \in Batches, b = Cur(w),
         NEW ws, Write(w, ws), Batch(b) \in DOMAIN ws,
         ws[Batch(b)] \in BatchRecords, ws[Batch(b)].status = "PROCESSED",
         ws[Batch(b)].chat = new[Batch(b)].chat,
         ws[Batch(b)].joined = new[Batch(b)].joined,
         ws[Batch(b)].count = new[Batch(b)].count,
         DOMAIN ws \subseteq {Batch(b), Reply(b), Paywall} \cup {Chat(c) : c \in Chats},
         Reply(b) \in DOMAIN ws => ws[Reply(b)] \in Answers \cap {"REPLY", "NEEDS_OWNER_DATA"},
         \A c \in Chats : Chat(c) \in DOMAIN ws =>
           CanLock(w, Chat(c)) /\ ws[Chat(c)] \in ChatState,
         Continue(w, "lock batch"), UNCHANGED <<inflight, blocked, faults>>
  PROVE  Inv'
<1> w \in Txs /\ w \notin Gateways
  BY TxsAre
<1>1. ProcsSound /\ RowsSound /\ SerialInv /\ CountInv
  BY DEF Inv, TypeInv
<1>2. /\ holder[Batch(b)] = w /\ new[Batch(b)].status = "SEALED"
      /\ db[Batch(b)].status = "OPEN" /\ BatchSound(new[Batch(b)])
      /\ holder[Reply(b)] \in {NoTx, w}
  BY AtWorkHolds
<1>3. ProcsSound' /\ OthersSame(w) /\ ~AtWork(w)'
  BY <1>1, WorkerGoesOn DEF AtWork
<1>4. /\ db' = db /\ new'[Batch(b)] = ws[Batch(b)] /\ holder'[Batch(b)] = w
      /\ \A x \in RowIds : x \in DOMAIN ws => holder'[x] = w
      /\ \A x \in RowIds : x \notin DOMAIN ws => new'[x] = new[x] /\ holder'[x] = holder[x]
  BY Names DEF Write
<1>5. BatchSound(ws[Batch(b)])
  BY <1>2 DEF BatchSound
<1>6. RowsSound'
  <2>1. ASSUME NEW x \in DOMAIN ws PROVE Sound(x, ws[x])
    <3>1. CASE x = Batch(b)
      BY <1>5, <3>1, Names DEF Sound
    <3>2. CASE x = Reply(b)
      BY <2>1, <3>2, Names DEF Sound
    <3>3. CASE x = Paywall
      BY <3>3, Names DEF Sound
    <3>4. CASE \E c \in Chats : x = Chat(c)
      <4>1. PICK c \in Chats : x = Chat(c)
        BY <3>4
      <4>2. ws[Chat(c)] \in ChatState
        BY <2>1, <4>1
      <4>3. QED
        BY <4>1, <4>2, Names DEF Sound
    <3>5. QED
      BY <2>1, <3>1, <3>2, <3>3, <3>4
  <2>2. QED
    BY <1>1, <2>1, RowsKept
<1>7. \A k \in Batches \ {b} : Same(Batch(k)) /\ Same(Reply(k))
  <2>1. ASSUME NEW k \in Batches \ {b}
        PROVE  Batch(k) \notin DOMAIN ws /\ Reply(k) \notin DOMAIN ws
    <3>1. \A c \in Chats : Batch(k) # Chat(c) /\ Reply(k) # Chat(c)
      BY Names
    <3>2. /\ Batch(k) \notin {Batch(b), Reply(b), Paywall}
          /\ Reply(k) \notin {Batch(b), Reply(b), Paywall}
      BY Names
    <3>3. QED
      BY <3>1, <3>2
  <2>2. QED
    BY <1>4, <2>1, Names DEF Same
<1>8. MessagesSame
  <2>1. ASSUME NEW m \in Messages PROVE Msg(m) \notin DOMAIN ws
    <3>1. \A c \in Chats : Msg(m) # Chat(c)
      BY Names
    <3>2. Msg(m) \notin {Batch(b), Reply(b), Paywall}
      BY Names
    <3>3. QED
      BY <3>1, <3>2
  <2>2. QED
    BY <1>4, <2>1, Names DEF MessagesSame, Same
<1>9. ChatsStillHeld /\ StillHeld(Batch(b))
  BY <1>2, <1>4, Names DEF ChatsStillHeld, StillHeld, CanLock
<1>10. holder'[Reply(b)] \in {NoTx, w}
  BY <1>2, <1>4, Names
<1>11. JoinedSame
  BY <1>4, <1>7, <1>9 DEF JoinedSame, Same, StillHeld
<1>12. CountInv'
  BY <1>1, <1>3, <1>8, <1>11, CountFrame
<1>13. WorkerHolds(w, b)'
  BY <1>2, <1>4 DEF WorkerHolds
<1>14. SerialInv'
  BY <1>1, <1>2, <1>3, <1>4, <1>7, <1>9, <1>10, <1>13, OneBatchWritten
<1>15. QED
  BY <1>3, <1>6, <1>12, <1>14 DEF Inv, TypeInv

LEMMA SealKeeps ==
  ASSUME Inv, NEW w \in Workers, Seal(w)
  PROVE  Inv'
<1> w \in Txs /\ w \notin Gateways
  BY TxsAre
<1>1. ProcsSound /\ RowsSound /\ SerialInv /\ CountInv /\ ProcSound(w)
  BY DEF Inv, TypeInv, ProcsSound
<1>2. proc[w].pc = "seal" /\ ~AtWork(w) /\ UNCHANGED <<inflight, blocked, faults>>
  BY DEF Seal, AtWork
<1>3. PICK b \in Batches : b = Cur(w)
  BY <1>1, <1>2, CurIs
<1>4. CASE UNCHANGED dbVars /\ Continue(w, "lock batch")
  <2>1. ProcsSound' /\ OthersSame(w) /\ ~AtWork(w)'
    BY <1>1, <1>2, <1>4, WorkerGoesOn
  <2>2. WorksOn(w)
    BY <1>2, <2>1 DEF WorksOn
  <2>3. QED
    BY <1>1, <1>4, <2>1, <2>2, ReadsOnly, QuietStep
<1>5. CASE ~(UNCHANGED dbVars /\ Continue(w, "lock batch"))
  <2> DEFINE row == [new[Batch(b)] EXCEPT !.status = "SEALED", !.sealed = proc[w].start]
  <2>1. /\ new[Batch(b)].status = "OPEN" /\ CanLock(w, Batch(b))
        /\ Write(w, Row(Batch(b), row)) /\ Goto(w, "read")
    BY <1>3, <1>5 DEF Seal, Sealable
  <2>2. BatchSound(new[Batch(b)])
    BY <1>1, Names DEF RowsSound, Sound
  <2>3. /\ row \in BatchRecords /\ row.status = "SEALED"
        /\ row.chat = new[Batch(b)].chat /\ row.joined = new[Batch(b)].joined
        /\ row.count = new[Batch(b)].count
    <3>1. new[Batch(b)] \in BatchRecords /\ proc[w].start \in Nat
      BY <1>1, <2>2 DEF BatchSound, ProcSound
    <3>2. QED
      BY <3>1 DEF BatchRecords
  <2>4. BatchSound(row)
    BY <2>1, <2>2, <2>3 DEF BatchSound
  <2>5. /\ db' = db /\ new'[Batch(b)] = row /\ holder'[Batch(b)] = w
        /\ \A x \in RowIds \ {Batch(b)} : new'[x] = new[x] /\ holder'[x] = holder[x]
    BY <2>1, Names, WriteOne
  <2> HIDE DEF row
  <2>6. RowsSound'
    <3>1. \A x \in DOMAIN Row(Batch(b), row) \cap RowIds : Sound(x, Row(Batch(b), row)[x])
      BY <2>4, Names DEF Sound, Row
    <3>2. QED
      BY <1>1, <2>1, <3>1, RowsKept
  <2>7. ProcsSound' /\ OthersSame(w) /\ Cur(w)' = b
    BY <1>1, <1>2, <1>3, <2>1, WorkerGoesTo
  <2>8. holder[Batch(b)] = NoTx
    <3>1. holder[Batch(b)] # w
      BY <1>1, <1>2, <2>1 DEF SerialInv, Holders, WorkerHolds
    <3>2. QED
      BY <2>1, <3>1 DEF CanLock
  <2>9. db[Batch(b)].status = "OPEN"
    BY <1>1, <2>1, <2>8, Names DEF RowsSound, UnlockedIsCommitted
  <2>10. /\ \A k \in Batches \ {b} : Same(Batch(k)) /\ Same(Reply(k))
         /\ holder'[Reply(b)] = holder[Reply(b)]
         /\ MessagesSame /\ ChatsStillHeld /\ StillHeld(Batch(b))
    BY <2>5, <2>8, Names DEF Same, StillHeld, ChatsStillHeld, MessagesSame
  <2>11. holder'[Reply(b)] = NoTx
    BY <1>1, <2>8, <2>10, NoTxIsNoTx, TxsAre DEF SerialInv, Holders
  <2>12. JoinedSame
    BY <2>3, <2>5, <2>10 DEF JoinedSame, Same, StillHeld
  <2>13. CountInv'
    BY <1>1, <2>7, <2>10, <2>12, CountFrame
  <2>14. proc'[w].pc = "read" /\ AtWork(w)'
    BY <1>1, <2>1, GoesTo DEF AtWork
  <2>15. WorkerHolds(w, b)'
    BY <2>3, <2>5, <2>7, <2>9, <2>14 DEF WorkerHolds
  <2>16. SerialInv'
    BY <1>1, <1>2, <2>1, <2>3, <2>5, <2>7, <2>10, <2>11, <2>15, OneBatchWritten
  <2>17. QED
    BY <2>6, <2>7, <2>13, <2>16 DEF Inv, TypeInv
<1>6. QED
  BY <1>4, <1>5

LEMMA ReadChatKeeps ==
  ASSUME Inv, NEW w \in Workers, ReadChat(w)
  PROVE  Inv'
<1> w \in Txs /\ w \notin Gateways
  BY TxsAre
<1>1. ProcsSound /\ RowsSound /\ ProcSound(w) /\ proc[w].pc = "read" /\ AtWork(w)
  BY DEF Inv, TypeInv, ProcsSound, ReadChat, AtWork
<1>2. PICK b \in Batches : b = Cur(w)
  BY <1>1, CurIs
<1>3. BatchSound(new[Batch(b)]) /\ UNCHANGED <<inflight, blocked, faults>>
  BY <1>1, <1>2, AtWorkHolds DEF ReadChat
<1>4. CASE Sees(w, Chat(new[Batch(b)].chat)) # "AI_ACTIVE"
  <2> DEFINE row == [new[Batch(b)] EXCEPT !.status = Skipped]
             ws == Row(Batch(b), row)
  <2>1. Write(w, ws) /\ Continue(w, "lock batch")
    BY <1>2, <1>4 DEF ReadChat
  <2>2. /\ row \in BatchRecords /\ row.status = "PROCESSED"
        /\ row.chat = new[Batch(b)].chat /\ row.joined = new[Batch(b)].joined
        /\ row.count = new[Batch(b)].count
    <3>1. new[Batch(b)] \in BatchRecords
      BY <1>3 DEF BatchSound
    <3>2. QED
      BY <3>1 DEF BatchRecords, Skipped
  <2>3. DOMAIN ws = {Batch(b)} /\ ws[Batch(b)] = row
    BY DEF Row
  <2> HIDE DEF row, ws
  <2>4. Reply(b) \notin DOMAIN ws /\ \A c \in Chats : Chat(c) \notin DOMAIN ws
    BY <2>3, Names
  <2>5. QED
    BY <1>1, <1>2, <1>3, <2>1, <2>2, <2>3, <2>4, DoneWithBatch
<1>5. CASE Sees(w, Chat(new[Batch(b)].chat)) = "AI_ACTIVE"
  <2>1. PICK T \in SUBSET Messages, l \in {"paywall", "ask"} :
          proc' = [proc EXCEPT ![w].text = T, ![w].pc = l]
    <3> DEFINE T == {m \in Messages : ChatOf[m] = new[Batch(b)].chat
                                        /\ InWindow(w, Batch(b), m)}
               l == IF blocked THEN "paywall" ELSE "ask"
    <3>1. proc' = [proc EXCEPT ![w].text = T, ![w].pc = l]
      BY <1>2, <1>5 DEF ReadChat
    <3>2. T \in SUBSET Messages /\ l \in {"paywall", "ask"}
      OBVIOUS
    <3>3. QED
      BY <3>1, <3>2
  <2>2. UNCHANGED dbVars
    BY <1>2, <1>5 DEF ReadChat
  <2>3. /\ DOMAIN proc' = Txs /\ OthersSame(w)
        /\ proc'[w] = [proc[w] EXCEPT !.text = T, !.pc = l]
    BY <1>1, <2>1 DEF ProcsSound, OthersSame
  <2>4. /\ DOMAIN proc'[w] = DOMAIN proc[w] /\ proc'[w].pc = l /\ proc'[w].text = T
        /\ proc'[w].start = proc[w].start /\ proc'[w].gate = proc[w].gate
        /\ proc'[w].todo = proc[w].todo
    BY <1>1, <2>3 DEF ProcSound, Idle
  <2>5. ProcSound(w)'
    BY <1>1, <2>4 DEF ProcSound, WorkerSound
  <2>6. ProcsSound'
    BY <1>1, <1>3, <2>3, <2>5, ProcsKept DEF ProcsSound
  <2>7. WorksOn(w)
    BY <1>1, <2>4 DEF WorksOn, AtWork, Cur
  <2>8. QED
    BY <1>1, <2>2, <2>3, <2>6, <2>7, ReadsOnly, QuietStep
<1>6. QED
  BY <1>4, <1>5

LEMMA WorkerPaywallKeeps ==
  ASSUME Inv, NEW w \in Workers, WorkerPaywall(w)
  PROVE  Inv'
<1>1. ProcsSound /\ AtWork(w) /\ Continue(w, "lock batch") /\ UNCHANGED <<inflight, blocked, faults>>
  BY DEF Inv, TypeInv, WorkerPaywall, AtWork
<1>2. PICK b \in Batches : b = Cur(w)
  BY <1>1, CurIs DEF AtWork
<1>3. new[Batch(b)] \in BatchRecords
  BY <1>1, <1>2, AtWorkHolds DEF BatchSound
<1> DEFINE row == [new[Batch(b)] EXCEPT !.status = "PROCESSED"]
           wall == IF new[Paywall] THEN NoRow ELSE Row(Paywall, TRUE)
           ws == Both(Row(Batch(b), row), wall)
<1>4. Write(w, ws)
  BY <1>2 DEF WorkerPaywall
<1>5. /\ row \in BatchRecords /\ row.status = "PROCESSED"
      /\ row.chat = new[Batch(b)].chat /\ row.joined = new[Batch(b)].joined
      /\ row.count = new[Batch(b)].count
  BY <1>3 DEF BatchRecords
<1> HIDE DEF row
<1>6. DOMAIN wall \subseteq {Paywall}
  BY DEF NoRow, Row
<1> HIDE DEF wall
<1>7. /\ Batch(b) \in DOMAIN ws /\ DOMAIN ws \subseteq {Batch(b), Paywall}
      /\ ws[Batch(b)] = row
  BY <1>6 DEF Both, Row
<1> HIDE DEF ws
<1>8. Reply(b) \notin DOMAIN ws /\ \A c \in Chats : Chat(c) \notin DOMAIN ws
  BY <1>7, Names
<1>9. QED
  BY <1>1, <1>2, <1>4, <1>5, <1>7, <1>8, DoneWithBatch

LEMMA ApplyAnswerKeeps ==
  ASSUME Inv, NEW w \in Workers, ApplyAnswer(w)
  PROVE  Inv'
<1> w \in Txs
  BY TxsAre
<1>1. ProcsSound /\ AtWork(w) /\ Continue(w, "lock batch") /\ UNCHANGED <<inflight, blocked, faults>>
  BY DEF Inv, TypeInv, ApplyAnswer, AtWork
<1>2. PICK b \in Batches : b = Cur(w)
  BY <1>1, CurIs DEF AtWork
<1>3. new[Batch(b)] \in BatchRecords /\ new[Batch(b)].chat \in Chats
  BY <1>1, <1>2, AtWorkHolds DEF BatchSound
<1>4. PICK a \in Answers : a = proc[w].answer
  BY <1>1 DEF ProcsSound, ProcSound, WorkerSound, ApplyAnswer
<1> DEFINE row == [new[Batch(b)] EXCEPT !.status = "PROCESSED", !.asked = TRUE,
                                        !.text = proc[w].text,
                                        !.ready = {m \in new[Batch(b)].joined :
                                          Sees(w, Msg(m)).at <= new[Batch(b)].sealed}]
           c == Chat(new[Batch(b)].chat)
           answered == Row(Batch(b), row)
           state == Row(c, StateAfter(a))
           reply == Row(Reply(b), a)
<1>5. PICK ws :
        /\ Write(w, ws)
        /\ \/ a = "REPLY" /\ ws = Both(answered, reply)
           \/ a = "EMPTY" /\ ws = answered
           \/ a = "HANDOFF" /\ CanLock(w, c) /\ ws = Both(answered, state)
           \/ a = "NEEDS_OWNER_DATA" /\ CanLock(w, c) /\ ws = Both(answered, Both(state, reply))
  BY <1>2, <1>4 DEF ApplyAnswer, Answers
<1>6. /\ row \in BatchRecords /\ row.status = "PROCESSED"
      /\ row.chat = new[Batch(b)].chat /\ row.joined = new[Batch(b)].joined
      /\ row.count = new[Batch(b)].count
  <2>1. /\ proc[w].text \in SUBSET Messages
        /\ {m \in new[Batch(b)].joined : Sees(w, Msg(m)).at <= new[Batch(b)].sealed}
             \in SUBSET Messages
    BY <1>1, <1>3 DEF ProcsSound, ProcSound, BatchRecords
  <2>2. QED
    BY <1>3, <2>1 DEF BatchRecords
<1> HIDE DEF row
<1>7. Reply(b) # c /\ Batch(b) # c /\ Batch(b) # Reply(b)
  BY Names
<1>8. /\ Batch(b) \in DOMAIN ws /\ ws[Batch(b)] = row
      /\ DOMAIN ws \subseteq {Batch(b), Reply(b), c}
      /\ Reply(b) \in DOMAIN ws =>
           a \in {"REPLY", "NEEDS_OWNER_DATA"} /\ ws[Reply(b)] = a
      /\ c \in DOMAIN ws => CanLock(w, c) /\ ws[c] = StateAfter(a)
  <2>1. CASE a = "REPLY"
    BY <1>5, <1>7, <2>1 DEF Both, Row
  <2>2. CASE a = "EMPTY"
    BY <1>5, <1>7, <2>2 DEF Both, Row
  <2>3. CASE a = "HANDOFF"
    BY <1>5, <1>7, <2>3 DEF Both, Row
  <2>4. CASE a = "NEEDS_OWNER_DATA"
    BY <1>5, <1>7, <2>4 DEF Both, Row
  <2>5. QED
    BY <2>1, <2>2, <2>3, <2>4 DEF Answers
<1>9. \A k \in Chats : Chat(k) \in DOMAIN ws => CanLock(w, Chat(k)) /\ ws[Chat(k)] \in ChatState
  <2> SUFFICES ASSUME NEW k \in Chats, Chat(k) \in DOMAIN ws
               PROVE  CanLock(w, Chat(k)) /\ ws[Chat(k)] \in ChatState
    OBVIOUS
  <2>1. Chat(k) = c
    BY <1>8, Names
  <2>2. QED
    BY <1>8, <2>1 DEF StateAfter, ChatState
<1>10. DOMAIN ws \subseteq {Batch(b), Reply(b), Paywall} \cup {Chat(k) : k \in Chats}
  BY <1>3, <1>8
<1>11. QED
  BY <1>1, <1>2, <1>5, <1>6, <1>8, <1>9, <1>10, DoneWithBatch

-----------------------------------------------------------------------------
(* Numbering the instants again keeps what is stored stored, and all else  *)
(* as it is.                                                               *)
LEMMA RankIs ==
  ASSUME Inv, NEW n \in Nat
  PROVE  Rank(n) \in Nat /\ (Rank(n) = 0 <=> n = 0)
<1> DEFINE below == {k \in Instants : k < n}
<1>1. IsFiniteSet(Instants) /\ Instants \subseteq Nat /\ 0 \in Instants
  BY InstantsAreFinite
<1>2. IsFiniteSet(below)
  BY <1>1, FS_Subset
<1>3. Cardinality(below) \in Nat /\ (Cardinality(below) = 0 <=> below = {})
  BY <1>2, FS_CardinalityType, FS_EmptySet
<1>4. n = 0 <=> below = {}
  <2>1. ASSUME n # 0 PROVE 0 \in below
    <3>1. 0 < n /\ 0 \in Instants
      BY <1>1, <2>1
    <3>2. QED
      BY ONLY <3>1
  <2>2. ASSUME n = 0 PROVE below = {}
    <3>1. \A k \in Instants : k \in Nat /\ ~(k < n)
      BY <1>1, <2>2
    <3>2. QED
      BY ONLY <3>1
  <2>3. QED
    BY <2>1, <2>2
<1>5. QED
  BY <1>3, <1>4 DEF Rank

LEMMA RenumberedIs ==
  /\ \A m, r : Renumbered(Msg(m), r) = [r EXCEPT !.at = Rank(@)]
  /\ \A b, r : Renumbered(Batch(b), r) = [r EXCEPT !.opened = Rank(@), !.sealed = Rank(@)]
  /\ \A b, v : Renumbered(Reply(b), v) = v
  /\ \A c, v : Renumbered(Chat(c), v) = v
BY DEF Renumbered, Msg, Batch, Reply, Chat

LEMMA RenumberedSound ==
  ASSUME Inv, NEW x, NEW v, Sound(x, v)
  PROVE  Sound(x, Renumbered(x, v))
<1>1. ASSUME NEW m \in Messages, x = Msg(m)
      PROVE  MsgSound(Renumbered(x, v))
  <2>1. v \in MsgRecords /\ (v.at = 0 => v = NoMsg)
    BY <1>1 DEF Sound, MsgSound
  <2>2. Renumbered(x, v) = [v EXCEPT !.at = Rank(@)]
    BY <1>1, <2>1, RenumberedIs
  <2>3. /\ Renumbered(x, v) \in MsgRecords /\ Renumbered(x, v).at = Rank(v.at)
        /\ Rank(v.at) = 0 <=> v.at = 0
    BY <2>1, <2>2, RankIs DEF MsgRecords
  <2>4. v = NoMsg => Renumbered(x, v) = NoMsg
    BY <2>2, RankIs DEF NoMsg
  <2>5. QED
    BY <2>1, <2>3, <2>4 DEF MsgSound
<1>2. ASSUME NEW b \in Batches, x = Batch(b)
      PROVE  BatchSound(Renumbered(x, v))
  <2>1. BatchSound(v) /\ v \in BatchRecords
    BY <1>2 DEF Sound, BatchSound
  <2>2. Renumbered(x, v) = [v EXCEPT !.opened = Rank(@), !.sealed = Rank(@)]
    BY <1>2, <2>1, RenumberedIs
  <2>3. Rank(v.opened) \in Nat /\ Rank(v.sealed) \in Nat /\ Rank(0) = 0
    BY <2>1, RankIs DEF BatchRecords
  <2>4. /\ Renumbered(x, v) \in BatchRecords
        /\ Renumbered(x, v).status = v.status /\ Renumbered(x, v).chat = v.chat
        /\ Renumbered(x, v).joined = v.joined /\ Renumbered(x, v).count = v.count
    BY <2>1, <2>2, <2>3 DEF BatchRecords
  <2>5. v = NoBatch => Renumbered(x, v) = NoBatch
    <3>1. SUFFICES ASSUME v = NoBatch PROVE Renumbered(x, v) = NoBatch
      OBVIOUS
    <3>2. v.opened = 0 /\ v.sealed = 0
      BY <3>1 DEF NoBatch
    <3>3. Renumbered(x, v) = [v EXCEPT !.opened = 0, !.sealed = 0]
      BY <2>2, <2>3, <3>2
    <3>4. QED
      BY <3>1, <3>3 DEF NoBatch
  <2>6. QED
    BY <2>1, <2>4, <2>5 DEF BatchSound
<1>3. ASSUME NEW b \in Batches, x = Reply(b)
      PROVE  Renumbered(x, v) = v
  BY <1>3, RenumberedIs
<1>4. ASSUME NEW c \in Chats, x = Chat(c)
      PROVE  Renumbered(x, v) = v
  BY <1>4, RenumberedIs
<1>5. QED
  BY <1>1, <1>2, <1>3, <1>4 DEF Sound

LEMMA RenumberBatches ==
  ASSUME Inv, Renumber, NEW b \in Batches
  PROVE  /\ db'[Batch(b)].status = db[Batch(b)].status
         /\ db'[Batch(b)].chat = db[Batch(b)].chat
         /\ db'[Batch(b)].joined = db[Batch(b)].joined
         /\ db'[Batch(b)].asked = db[Batch(b)].asked
         /\ db'[Batch(b)].text = db[Batch(b)].text
         /\ new'[Batch(b)].status = new[Batch(b)].status
         /\ new'[Batch(b)].chat = new[Batch(b)].chat
         /\ new'[Batch(b)].joined = new[Batch(b)].joined
         /\ new'[Batch(b)].asked = new[Batch(b)].asked
         /\ new'[Batch(b)].text = new[Batch(b)].text
         /\ db'[Reply(b)] = db[Reply(b)]
<1>1. db[Batch(b)] \in BatchRecords /\ new[Batch(b)] \in BatchRecords
  BY Names DEF Inv, TypeInv, RowsSound, Sound, BatchSound
<1>2. /\ db'[Batch(b)] = [db[Batch(b)] EXCEPT !.opened = Rank(@), !.sealed = Rank(@)]
      /\ new'[Batch(b)] = [new[Batch(b)] EXCEPT !.opened = Rank(@), !.sealed = Rank(@)]
      /\ db'[Reply(b)] = db[Reply(b)]
  <2>1. /\ db'[Batch(b)] = Renumbered(Batch(b), db[Batch(b)])
        /\ new'[Batch(b)] = Renumbered(Batch(b), new[Batch(b)])
        /\ db'[Reply(b)] = Renumbered(Reply(b), db[Reply(b)])
    BY Names DEF Renumber
  <2>2. QED
    BY <1>1, <2>1, RenumberedIs
<1>3. QED
  BY <1>1, <1>2 DEF BatchRecords

LEMMA RenumberKeeps ==
  ASSUME Inv, Renumber
  PROVE  Inv'
<1>1. ProcsSound /\ RowsSound /\ SerialInv /\ CountInv
  BY DEF Inv, TypeInv
<1>2. /\ \A x \in RowIds : db'[x] = Renumbered(x, db[x]) /\ new'[x] = Renumbered(x, new[x])
      /\ DOMAIN db' = RowIds /\ DOMAIN new' = RowIds
      /\ UNCHANGED <<holder, inflight, blocked, faults>>
  BY DEF Renumber
<1>3. RowsSound'
  BY <1>1, <1>2, RenumberedSound DEF RowsSound, UnlockedIsCommitted
<1>4. ASSUME NEW t \in Txs
      PROVE  /\ proc'[t].start = Rank(proc[t].start) /\ proc'[t].start \in Nat
             /\ proc'[t].start = 0 <=> proc[t].start = 0
             /\ proc'[t].pc = proc[t].pc /\ proc'[t].todo = proc[t].todo
             /\ proc'[t].found = proc[t].found
             /\ ProcSound(t)'
  <2>1. proc'[t] = [proc[t] EXCEPT !.start = Rank(@)]
    BY DEF Renumber
  <2>2. ProcSound(t)
    BY <1>1 DEF ProcsSound
  <2>3. /\ DOMAIN proc'[t] = DOMAIN proc[t] /\ proc'[t].start = Rank(proc[t].start)
        /\ proc'[t].pc = proc[t].pc /\ proc'[t].todo = proc[t].todo
        /\ proc'[t].webhook = proc[t].webhook /\ proc'[t].gate = proc[t].gate
        /\ proc'[t].found = proc[t].found /\ proc'[t].text = proc[t].text
        /\ proc'[t].answer = proc[t].answer
    BY <2>1, <2>2 DEF ProcSound, Idle
  <2>4. proc'[t].start \in Nat /\ (proc'[t].start = 0 <=> proc[t].start = 0)
    BY <2>2, <2>3, RankIs DEF ProcSound
  <2>5. t \in Gateways => GatewaySound(t)'
    BY <2>2, <2>3, <2>4 DEF ProcSound, GatewaySound
  <2>6. t \in Workers => WorkerSound(t)'
    BY <2>2, <2>3 DEF ProcSound, WorkerSound
  <2>7. QED
    BY <2>2, <2>3, <2>4, <2>5, <2>6 DEF ProcSound
<1>5. ProcsSound'
  BY <1>1, <1>2, <1>4 DEF ProcsSound, Renumber
<1>6. ASSUME NEW b \in Batches
      PROVE  /\ db'[Batch(b)].status = db[Batch(b)].status
             /\ db'[Batch(b)].chat = db[Batch(b)].chat
             /\ db'[Batch(b)].joined = db[Batch(b)].joined
             /\ db'[Batch(b)].asked = db[Batch(b)].asked
             /\ db'[Batch(b)].text = db[Batch(b)].text
             /\ new'[Batch(b)].status = new[Batch(b)].status
             /\ new'[Batch(b)].chat = new[Batch(b)].chat
             /\ new'[Batch(b)].joined = new[Batch(b)].joined
             /\ new'[Batch(b)].asked = new[Batch(b)].asked
             /\ new'[Batch(b)].text = new[Batch(b)].text
             /\ db'[Reply(b)] = db[Reply(b)]
  BY RenumberBatches
<1>7. ASSUME NEW m \in Messages
      PROVE  /\ Stored(db'[Msg(m)]) <=> Stored(db[Msg(m)])
             /\ Stored(new'[Msg(m)]) <=> Stored(new[Msg(m)])
             /\ new'[Msg(m)].gated = new[Msg(m)].gated
  <2>1. db[Msg(m)] \in MsgRecords /\ new[Msg(m)] \in MsgRecords
    BY <1>1, Names DEF RowsSound, Sound, MsgSound
  <2>2. /\ db'[Msg(m)] = [db[Msg(m)] EXCEPT !.at = Rank(@)]
        /\ new'[Msg(m)] = [new[Msg(m)] EXCEPT !.at = Rank(@)]
    <3>1. /\ db'[Msg(m)] = Renumbered(Msg(m), db[Msg(m)])
          /\ new'[Msg(m)] = Renumbered(Msg(m), new[Msg(m)])
      BY <1>2, Names
    <3>2. QED
      BY <2>1, <3>1, RenumberedIs
  <2>3. /\ db'[Msg(m)].at = Rank(db[Msg(m)].at) /\ new'[Msg(m)].at = Rank(new[Msg(m)].at)
        /\ new'[Msg(m)].gated = new[Msg(m)].gated
    BY <2>1, <2>2 DEF MsgRecords
  <2>4. /\ db[Msg(m)].at \in Nat /\ new[Msg(m)].at \in Nat
        /\ Rank(db[Msg(m)].at) \in Nat /\ (Rank(db[Msg(m)].at) = 0 <=> db[Msg(m)].at = 0)
        /\ Rank(new[Msg(m)].at) \in Nat /\ (Rank(new[Msg(m)].at) = 0 <=> new[Msg(m)].at = 0)
    BY <2>1, RankIs DEF MsgRecords
  <2>5. QED
    BY <2>3, <2>4 DEF Stored
<1>8. \A t \in Txs : /\ AtWork(t)' <=> AtWork(t)
                     /\ Joining(t)' <=> Joining(t)
                     /\ Cur(t)' = Cur(t)
  BY <1>4 DEF AtWork, Joining, Cur
<1>9. holder' = holder
  BY <1>2
<1>10. Holders'
  <2>1. ASSUME NEW b \in Batches, holder[Batch(b)] \in Workers
        PROVE  WorkerHolds(holder[Batch(b)], b)'
    <3>1. PICK w \in Workers : w = holder[Batch(b)]
      BY <2>1
    <3>2. WorkerHolds(w, b)
      BY <1>1, <3>1 DEF SerialInv, Holders
    <3>3. WorkerHolds(w, b)'
      BY <1>6, <1>8, <3>2, TxsAre DEF WorkerHolds
    <3>4. QED
      BY <1>9, <3>1, <3>3 DEF WorkerHolds, AtWork, Cur
  <2>2. ASSUME NEW b \in Batches, holder[Batch(b)] \in Gateways
        PROVE  GatewayHolds(holder[Batch(b)], b)'
    BY <1>1, <1>6, <1>9, <2>2 DEF SerialInv, Holders, GatewayHolds
  <2>3. QED
    BY <1>1, <1>9, <2>1, <2>2 DEF SerialInv, Holders
<1>11. Committed'
  BY <1>1, <1>6 DEF SerialInv, Committed
<1>12. Guarded'
  <2>1. ASSUME NEW g \in Gateways
        PROVE  /\ Joining(g)' => holder'[Chat(ChatOf[Cur(g)'])] = g
               /\ proc'[g].pc = "extend" => FoundBatch(g)'
    <3>1. g \in Txs
      BY TxsAre
    <3>2. Joining(g)' => holder'[Chat(ChatOf[Cur(g)'])] = g
      BY <1>1, <1>8, <1>9, <3>1 DEF SerialInv, Guarded
    <3>3. ASSUME proc[g].pc = "extend" PROVE FoundBatch(g)'
      <4>1. FoundBatch(g) /\ proc[g].found \in Batches
        BY <1>1, <3>1, <3>3 DEF SerialInv, Guarded, ProcsSound, ProcSound, GatewaySound
      <4>2. QED
        BY <1>4, <1>6, <1>8, <1>9, <3>1, <4>1 DEF FoundBatch
    <3>4. QED
      BY <1>4, <3>1, <3>2, <3>3
  <2>2. ASSUME NEW w \in Workers, AtWork(w)'
        PROVE  holder'[Batch(Cur(w)')] = w /\ new'[Batch(Cur(w)')].status = "SEALED"
    <3>1. w \in Txs /\ AtWork(w) /\ Cur(w)' = Cur(w)
      BY <1>8, <2>2, TxsAre
    <3>2. Cur(w) \in Batches
      BY <1>1, <3>1, CurIs DEF AtWork
    <3>3. QED
      BY <1>1, <1>6, <1>9, <3>1, <3>2 DEF SerialInv, Guarded
  <2>3. QED
    BY <2>1, <2>2 DEF Guarded
<1>13. OneMaybeOpen'
  BY <1>1, <1>6 DEF SerialInv, OneMaybeOpen, MaybeOpen
<1>14. MessageHolders'
  BY <1>1, <1>7, <1>9 DEF CountInv, MessageHolders
<1>15. JoinedOnce'
  BY <1>1, <1>6, <1>7, <1>9 DEF CountInv, JoinedOnce
<1>16. NoneForgotten'
  BY <1>1, <1>6, <1>7, <1>8, TxsAre DEF CountInv, NoneForgotten
<1>17. JoinersAreNew'
  <2> SUFFICES ASSUME NEW g \in Gateways, Joining(g)'
               PROVE  /\ holder'[Msg(Cur(g)')] = g /\ ~new'[Msg(Cur(g)')].gated
                      /\ \A b \in Batches : Cur(g)' \notin new'[Batch(b)].joined
    BY DEF JoinersAreNew
  <2>1. Joining(g) /\ Cur(g)' = Cur(g)
    BY <1>8, TxsAre
  <2>2. Cur(g) \in Messages
    BY <1>1, <2>1, CurIs DEF Joining
  <2>3. QED
    BY <1>1, <1>6, <1>7, <1>9, <2>1, <2>2 DEF CountInv, JoinersAreNew
<1>18. QED
  BY <1>3, <1>5, <1>10, <1>11, <1>12, <1>13, <1>14, <1>15, <1>16, <1>17
     DEF Inv, TypeInv, SerialInv, CountInv

-----------------------------------------------------------------------------
LEMMA InitInv ==
  ASSUME Init
  PROVE  Inv
<1>1. /\ \A b \in Batches : db[Batch(b)] = NoBatch /\ db[Reply(b)] = "NONE"
      /\ \A c \in Chats : db[Chat(c)] = "NONE"
      /\ \A m \in Messages : db[Msg(m)] = NoMsg
  <2>1. \A b \in Batches : db[Batch(b)] = NoBatch
    BY Names DEF Init, Batch
  <2>2. \A b \in Batches : db[Reply(b)] = "NONE"
    BY Names DEF Init, Reply
  <2>3. \A c \in Chats : db[Chat(c)] = "NONE"
    BY Names DEF Init, Chat
  <2>4. \A m \in Messages : db[Msg(m)] = NoMsg
    BY Names DEF Init, Msg
  <2>5. QED
    BY <2>1, <2>2, <2>3, <2>4
<1>2. /\ new = db /\ DOMAIN db = RowIds /\ DOMAIN holder = RowIds
      /\ \A x \in RowIds : holder[x] = NoTx
      /\ DOMAIN proc = Txs /\ \A t \in Txs : proc[t] = Idle
      /\ inflight = Webhooks /\ blocked = FALSE /\ faults = MaxFaults
  BY DEF Init
<1>3. BatchSound(NoBatch) /\ MsgSound(NoMsg)
  <2>1. NoBatch \in BatchRecords /\ NoBatch.joined = {} /\ NoBatch.count = 0
          /\ NoBatch.status = "NONE"
    BY DEF NoBatch, BatchRecords
  <2>2. NoMsg \in MsgRecords
    BY DEF NoMsg, MsgRecords
  <2>3. QED
    BY <2>1, <2>2, FS_EmptySet DEF BatchSound, MsgSound
<1>4. RowsSound
  <2>1. ASSUME NEW x \in RowIds PROVE Sound(x, db[x])
    <3>1. ASSUME NEW b \in Batches
          PROVE  /\ x = Batch(b) => BatchSound(db[x])
                 /\ x = Reply(b) => db[x] = "NONE"
      BY <1>1, <1>3
    <3>2. ASSUME NEW m \in Messages, x = Msg(m) PROVE MsgSound(db[x])
      BY <1>1, <1>3, <3>2
    <3>3. ASSUME NEW c \in Chats, x = Chat(c) PROVE db[x] \in ChatState
      BY <1>1, <3>3 DEF ChatState
    <3>4. QED
      BY <3>1, <3>2, <3>3 DEF Sound
  <2>2. QED
    BY <1>2, <2>1 DEF RowsSound, UnlockedIsCommitted
<1>5. ProcsSound
  <2>1. ASSUME NEW t \in Txs PROVE ProcSound(t)
    <3>1. proc[t] = Idle
      BY <1>2
    <3>2. QED
      BY <3>1 DEF ProcSound, GatewaySound, WorkerSound, Idle
  <2>2. faults \in 0..MaxFaults
    BY <1>2, FaultsAreBounded
  <2>3. QED
    BY <1>2, <2>1, <2>2 DEF ProcsSound
<1>6. \A t \in Txs : ~Joining(t) /\ ~AtWork(t) /\ proc[t].pc = "idle"
  BY <1>2 DEF Joining, AtWork, Idle
<1>7. SerialInv
  <2>1. Holders
    BY <1>2, NoTxIsNoTx, TxsAre, Names DEF Holders
  <2>2. Committed /\ OneMaybeOpen
    BY <1>1, <1>2 DEF Committed, OneMaybeOpen, MaybeOpen, NoBatch
  <2>3. Guarded
    BY <1>6, TxsAre DEF Guarded
  <2>4. QED
    BY <2>1, <2>2, <2>3 DEF SerialInv
<1>8. CountInv
  BY <1>1, <1>2, <1>6, TxsAre, Names
     DEF CountInv, MessageHolders, JoinedOnce, NoneForgotten, JoinersAreNew, NoBatch, NoMsg, Stored
<1>9. QED
  BY <1>4, <1>5, <1>7, <1>8 DEF Inv, TypeInv

LEMMA UnchangedInv ==
  ASSUME Inv, UNCHANGED vars
  PROVE  Inv'
<1>1. UNCHANGED dbVars /\ proc' = proc /\ UNCHANGED <<inflight, blocked, faults>>
  BY DEF vars
<1>2. ProcsSound'
  BY <1>1 DEF Inv, TypeInv, ProcsSound, ProcSound, GatewaySound, WorkerSound
<1>3. RowsSound' /\ BatchesSame /\ MessagesSame /\ ChatsStillHeld
  BY <1>1, ReadsOnly DEF Inv, TypeInv
<1>4. OthersSame(NoTx) /\ NoTx \notin Gateways /\ NoTx \notin Workers
  BY <1>1, NoTxIsNoTx, TxsAre DEF OthersSame
<1>5. QED
  BY <1>2, <1>3, <1>4, QuietStep

LEMMA NextInv ==
  ASSUME Inv, [Next]_vars
  PROVE  Inv'
<1>1. CASE \E g \in Gateways : GatewayStep(g) \/ \E h \in Webhooks : Receive(g, h)
  <2>1. PICK g \in Gateways : GatewayStep(g) \/ \E h \in Webhooks : Receive(g, h)
    BY <1>1
  <2>2. g \in Txs
    BY TxsAre
  <2>3. CASE GatewayStep(g)
    BY <2>2, <2>3, CheckClientKeeps, StoreMessageKeeps, FindBatchKeeps, ExtendBatchKeeps,
       GatewayPaywallKeeps, CommitStep DEF GatewayStep
  <2>4. CASE \E h \in Webhooks : Receive(g, h)
    BY <2>4, ReceiveKeeps
  <2>5. QED
    BY <2>1, <2>3, <2>4
<1>2. CASE \E w \in Workers : WorkerStep(w) \/ \E D \in SUBSET Batches : SelectDue(w, D)
  <2>1. PICK w \in Workers : WorkerStep(w) \/ \E D \in SUBSET Batches : SelectDue(w, D)
    BY <1>2
  <2>2. w \in Txs
    BY TxsAre
  <2>3. CASE WorkerStep(w)
    BY <2>2, <2>3, BeginTickKeeps, LocksKeep, SealKeeps, ReadChatKeeps, WorkerPaywallKeeps,
       AskAIKeeps, ApplyAnswerKeeps, CommitStep DEF WorkerStep
  <2>4. CASE \E D \in SUBSET Batches : SelectDue(w, D)
    BY <2>4, SelectDueKeeps
  <2>5. QED
    BY <2>1, <2>3, <2>4
<1>3. CASE \E t \in Txs : BreakDeadlock(t) \/ Crash(t)
  <2>1. PICK t \in Txs : BreakDeadlock(t) \/ Crash(t)
    BY <1>3
  <2>2. faults \in 0..MaxFaults /\ MaxFaults \in Nat
    BY FaultsAreBounded DEF Inv, TypeInv, ProcsSound
  <2>3. CASE BreakDeadlock(t)
    <3>1. proc[t].pc # "idle"
      BY <2>3 DEF BreakDeadlock, Deadlocked, Wants
    <3>2. QED
      BY <2>2, <2>3, <3>1, AbandonKeeps DEF BreakDeadlock
  <2>4. CASE Crash(t)
    BY <2>2, <2>4, AbandonKeeps DEF Crash, Fault
  <2>5. QED
    BY <2>1, <2>3, <2>4
<1>4. CASE Renumber
  BY <1>4, RenumberKeeps
<1>5. CASE UNCHANGED vars
  BY <1>5, UnchangedInv
<1>6. CASE \/ \E h \in Webhooks : Redeliver(h)
           \/ \E k \in LockKeys : LockExpires(k)
           \/ \E c \in Chats : AgentTakes(c)
           \/ ServiceEnds
  BY <1>6, OutsideKeeps
<1>7. QED
  BY <1>1, <1>2, <1>3, <1>4, <1>5, <1>6 DEF Next

(* The inductive invariant holds in every behaviour.                       *)
THEOREM Invariance == Spec => []Inv
<1>1. Init => Inv
  BY InitInv
<1>2. Inv /\ [Next]_vars => Inv'
  BY NextInv
<1>3. QED
  BY <1>1, <1>2, PTL DEF Spec

(* Every row keeps to its columns' values, every process is at a statement *)
(* of its program.                                                         *)
THEOREM TypeCorrect == Spec => []TypeOK
<1>1. Inv => TypeOK
  <2> SUFFICES ASSUME Inv PROVE TypeOK
    OBVIOUS
  <2>1. \A x \in RowIds : holder[x] \in Txs \cup {NoTx} /\ Sound(x, db[x])
    BY DEF Inv, TypeInv, RowsSound
  <2>2. ASSUME NEW c \in Chats PROVE db[Chat(c)] \in ChatState
    BY <2>1, Names DEF Sound
  <2>3. ASSUME NEW m \in Messages PROVE db[Msg(m)] \in [at : Nat, gated : BOOLEAN]
    BY <2>1, Names DEF Sound, MsgSound, MsgRecords
  <2>4. ASSUME NEW b \in Batches
        PROVE  /\ db[Batch(b)].status \in {"NONE", "OPEN", "SEALED", "PROCESSED"}
               /\ db[Reply(b)] \in {"NONE", "REPLY", "NEEDS_OWNER_DATA"}
    BY <2>1, Names DEF Sound, BatchSound, BatchRecords
  <2>5. QED
    BY <2>1, <2>2, <2>3, <2>4 DEF TypeOK, Inv, TypeInv, ProcsSound
<1>2. QED
  BY <1>1, Invariance, PTL

(* A chat never has two OPEN batches: the lock on the chat's row makes the *)
(* gateways take turns, and a worker never opens a batch again.            *)
THEOREM OneBatchPerChat == Spec => []OneOpenBatch
<1>1. Inv => OneOpenBatch
  BY DEF Inv, SerialInv, Committed, OneMaybeOpen, MaybeOpen, OneOpenBatch
<1>2. QED
  BY <1>1, Invariance, PTL

(* The SEALED of a worker at work is seen by nobody, crash or not.         *)
THEOREM NothingStranded == Spec => []NeverLeftSealed
<1>1. Inv => NeverLeftSealed
  BY DEF Inv, SerialInv, Committed, NeverLeftSealed
<1>2. QED
  BY <1>1, Invariance, PTL

(* Each stored message is counted by one batch and once.                   *)
THEOREM EachCountedOnce == Spec => []CountedOnce
<1>1. Inv => CountedOnce
  <2> SUFFICES ASSUME Inv PROVE CountedOnce
    OBVIOUS
  <2> DEFINE In(m) == {b \in Batches : m \in db[Batch(b)].joined}
  <2>1. ASSUME NEW m \in Messages
        PROVE  Cardinality(In(m)) = IF db[Msg(m)] = NoMsg \/ db[Msg(m)].gated THEN 0 ELSE 1
    <3>1. \A b \in In(m), k \in In(m) : b = k
      BY DEF Inv, CountInv, JoinedOnce
    <3>2. MsgSound(db[Msg(m)])
      BY Names DEF Inv, TypeInv, RowsSound, Sound
    <3>3. CASE holder[Msg(m)] # NoTx
      <4>1. ~Stored(db[Msg(m)])
        BY <3>3 DEF Inv, CountInv, MessageHolders
      <4>2. db[Msg(m)] = NoMsg
        BY <3>2, <4>1 DEF MsgSound, MsgRecords, Stored
      <4>3. In(m) = {}
        BY <4>1 DEF Inv, CountInv, JoinedOnce
      <4>4. QED
        BY <4>2, <4>3, FS_EmptySet
    <3>4. CASE holder[Msg(m)] = NoTx
      <4>1. new[Msg(m)] = db[Msg(m)]
        BY <3>4, Names DEF Inv, TypeInv, RowsSound, UnlockedIsCommitted
      <4>2. Stored(db[Msg(m)]) <=> db[Msg(m)] # NoMsg
        BY <3>2 DEF MsgSound, MsgRecords, Stored, NoMsg
      <4>3. \A b \in Batches : m \in new[Batch(b)].joined => b \in In(m)
        BY <3>4, NoTxIsNoTx, TxsAre DEF Inv, CountInv, JoinedOnce
      <4>4. \A g \in Gateways : ~(Joining(g) /\ Cur(g) = m)
        BY <3>4, NoTxIsNoTx, TxsAre DEF Inv, CountInv, JoinersAreNew
      <4>5. CASE db[Msg(m)] = NoMsg \/ db[Msg(m)].gated
        <5>1. In(m) = {}
          BY <4>1, <4>2, <4>5 DEF Inv, CountInv, JoinedOnce
        <5>2. QED
          BY <4>5, <5>1, FS_EmptySet
      <4>6. CASE ~(db[Msg(m)] = NoMsg \/ db[Msg(m)].gated)
        <5>1. PICK b \in Batches : b \in In(m)
          BY <4>1, <4>2, <4>3, <4>4, <4>6 DEF Inv, CountInv, NoneForgotten
        <5>2. In(m) = {b}
          BY <3>1, <5>1
        <5>3. QED
          BY <4>6, <5>2, FS_Singleton
      <4>7. QED
        BY <4>5, <4>6
    <3>5. QED
      BY <3>3, <3>4
  <2>2. \A b \in Batches : db[Batch(b)].count = Cardinality(db[Batch(b)].joined)
    BY Names DEF Inv, TypeInv, RowsSound, Sound, BatchSound
  <2>3. QED
    BY <2>1, <2>2 DEF CountedOnce
<1>2. QED
  BY <1>1, Invariance, PTL

-----------------------------------------------------------------------------
(* What a step does to a batch that was PROCESSED: nothing.                *)
Settled(b) ==
  /\ db'[Batch(b)].status = db[Batch(b)].status
  /\ db'[Batch(b)].asked = db[Batch(b)].asked
  /\ db'[Batch(b)].text = db[Batch(b)].text
  /\ db'[Reply(b)] = db[Reply(b)]

LEMMA CommitSettles ==
  ASSUME Inv, NEW t \in Txs, Commit(t), NEW b \in Batches, db[Batch(b)].status = "PROCESSED"
  PROVE  Settled(b)
<1>1. \A x \in RowIds : db'[x] = IF holder[x] = t THEN new[x] ELSE db[x]
  BY DEF Commit, Publish
<1>2. holder[Batch(b)] \notin Workers
  BY DEF Inv, SerialInv, Holders, WorkerHolds
<1>3. holder[Reply(b)] # t
  BY <1>2, NoTxIsNoTx DEF Inv, SerialInv, Holders
<1>4. CASE holder[Batch(b)] = t
  <2>1. GatewayHolds(t, b)
    BY <1>2, <1>4, TxsAre DEF Inv, SerialInv, Holders
  <2>2. QED
    BY <1>1, <1>3, <1>4, <2>1, Names DEF GatewayHolds, Settled
<1>5. CASE holder[Batch(b)] # t
  BY <1>1, <1>3, <1>5, Names DEF Settled
<1>6. QED
  BY <1>4, <1>5

LEMMA WritesLeaveCommitted ==
  ASSUME NEW t, \/ CheckClient(t) \/ StoreMessage(t) \/ FindBatch(t) \/ ExtendBatch(t)
                \/ GatewayPaywall(t) \/ LockBatch(t) \/ LockChat(t) \/ Seal(t) \/ ReadChat(t)
                \/ WorkerPaywall(t) \/ AskAI(t) \/ ApplyAnswer(t)
                \/ (\E h \in Webhooks : Receive(t, h))
                \/ BeginTick(t) \/ (\E D \in SUBSET Batches : SelectDue(t, D))
                \/ BreakDeadlock(t) \/ Crash(t),
         proc[t].pc = "apply" => proc[t].answer \in Answers
  PROVE  db' = db
<1>1. CASE CheckClient(t)
  BY <1>1 DEF CheckClient, Abandon, Rollback, dbVars
<1>2. CASE StoreMessage(t)
  BY <1>2 DEF StoreMessage, Write
<1>3. CASE FindBatch(t)
  BY <1>3 DEF FindBatch, Write, dbVars
<1>4. CASE ExtendBatch(t)
  BY <1>4 DEF ExtendBatch, Write
<1>5. CASE GatewayPaywall(t)
  BY <1>5 DEF GatewayPaywall, Write, dbVars
<1>6. CASE LockBatch(t) \/ LockChat(t)
  BY <1>6 DEF LockBatch, LockChat, AcquireLock, Write
<1>7. CASE Seal(t)
  BY <1>7 DEF Seal, Write, dbVars
<1>8. CASE ReadChat(t)
  BY <1>8 DEF ReadChat, Write, dbVars
<1>9. CASE WorkerPaywall(t)
  BY <1>9 DEF WorkerPaywall, Write
<1>10. CASE AskAI(t)
  BY <1>10 DEF AskAI, dbVars
<1>11. CASE ApplyAnswer(t)
  BY <1>11 DEF ApplyAnswer, Write, Answers
<1>12. CASE \E h \in Webhooks : Receive(t, h)
  BY <1>12 DEF Receive, dbVars
<1>13. CASE BeginTick(t) \/ \E D \in SUBSET Batches : SelectDue(t, D)
  BY <1>13 DEF BeginTick, SelectDue, dbVars
<1>14. CASE BreakDeadlock(t) \/ Crash(t)
  BY <1>14 DEF BreakDeadlock, Crash, Abandon, Rollback
<1>15. QED
  BY <1>1, <1>2, <1>3, <1>4, <1>5, <1>6, <1>7, <1>8, <1>9, <1>10, <1>11, <1>12, <1>13, <1>14

LEMMA StepSettles ==
  ASSUME Inv, [Next]_vars, NEW b \in Batches, db[Batch(b)].status = "PROCESSED"
  PROVE  Settled(b)
<1>1. CASE db' = db
  BY <1>1 DEF Settled
<1>2. CASE \E t \in Txs : Commit(t)
  BY <1>2, CommitSettles
<1>3. CASE \/ \E k \in LockKeys : LockExpires(k)
           \/ \E c \in Chats : AgentTakes(c)
  <2>1. PICK x, v : WriteNow(x, v) /\ x # Batch(b) /\ x # Reply(b)
    BY <1>3, Names DEF LockExpires, AgentTakes
  <2>2. db'[Batch(b)] = db[Batch(b)] /\ db'[Reply(b)] = db[Reply(b)]
    BY <2>1 DEF WriteNow
  <2>3. QED
    BY <2>2 DEF Settled
<1>4. CASE Renumber
  BY <1>4, RenumberBatches DEF Settled
<1>5. ASSUME NEW t \in Txs
      PROVE  t \in Workers /\ proc[t].pc = "apply" => proc[t].answer \in Answers
  BY DEF Inv, TypeInv, ProcsSound, ProcSound, WorkerSound
<1>6. ASSUME NEW g \in Gateways, GatewayStep(g) \/ \E h \in Webhooks : Receive(g, h)
      PROVE  Settled(b)
  <2>1. g \in Txs /\ proc[g].pc # "apply"
    BY TxsAre DEF Inv, TypeInv, ProcsSound, ProcSound, GatewaySound
  <2>2. db' = db \/ Commit(g)
    BY <1>6, <2>1, WritesLeaveCommitted DEF GatewayStep
  <2>3. QED
    BY <1>1, <1>2, <2>1, <2>2
<1>7. ASSUME NEW w \in Workers, WorkerStep(w) \/ \E D \in SUBSET Batches : SelectDue(w, D)
      PROVE  Settled(b)
  <2>1. w \in Txs
    BY TxsAre
  <2>2. db' = db \/ Commit(w)
    BY <1>5, <1>7, <2>1, WritesLeaveCommitted DEF WorkerStep
  <2>3. QED
    BY <1>1, <1>2, <2>1, <2>2
<1>8. ASSUME NEW t \in Txs, BreakDeadlock(t) \/ Crash(t)
      PROVE  Settled(b)
  BY <1>1, <1>8 DEF BreakDeadlock, Crash, Abandon, Rollback
<1>9. CASE (\E h \in Webhooks : Redeliver(h)) \/ ServiceEnds \/ UNCHANGED vars
  BY <1>1, <1>9 DEF Redeliver, ServiceEnds, vars, dbVars
<1>10. QED
  BY <1>3, <1>4, <1>6, <1>7, <1>8, <1>9 DEF Next

(* What the AI was asked about a batch, and what came of it, is settled    *)
(* once and for all: no step touches a processed batch or its reply.       *)
THEOREM ProcessedIsSettled == Spec => ProcessedOnce
<1>1. Inv /\ [Next]_vars =>
        [\A b \in Batches :
           db[Batch(b)].status = "PROCESSED" =>
             /\ \A f \in {"status", "asked", "text"} :
                  db'[Batch(b)][f] = db[Batch(b)][f]
             /\ db'[Reply(b)] = db[Reply(b)]]_vars
  BY StepSettles DEF Settled
<1>2. QED
  BY <1>1, Invariance, PTL DEF ProcessedOnce, Spec
-----------------------------------------------------------------------------
(* The times of messages and batches, with one gateway process: what it    *)
(* finds committed began before its own transaction did.                   *)
GatewayTimed(g) ==
  proc[g].pc # "idle" =>
    /\ \A m \in Messages : db[Msg(m)].at < proc[g].start
    /\ \A b \in Batches : /\ db[Batch(b)].opened <= proc[g].start
                          /\ new[Batch(b)].opened <= proc[g].start

MessageTimed(m) ==
  LET g == holder[Msg(m)]
  IN g # NoTx => proc[g].pc # "idle" /\ new[Msg(m)].at = proc[g].start

(* A text has messages of the batch's chat that were committed, and not    *)
(* before the batch was opened.                                            *)
TextTimed(r, text) ==
  \A m \in text :
    Stored(db[Msg(m)]) /\ ChatOf[m] = r.chat /\ r.opened <= db[Msg(m)].at
RowTimed(r) == TextTimed(r, r.text) /\ (r.asked => r.ready \subseteq r.text)

BatchTimed(b) ==
  LET old == db[Batch(b)]
      row == new[Batch(b)]
  IN /\ RowTimed(old) /\ RowTimed(row)
     /\ old.status # "NONE" => row.opened = old.opened
     /\ row.status # "NONE" => row.opened > 0
     /\ \A m \in row.joined : row.opened <= new[Msg(m)].at

(* The window of the batch a worker is at ends where its transaction       *)
(* began; once it has read the messages, it has all that are in time.      *)
InTime(w, row) ==
  \A m \in row.joined : db[Msg(m)].at <= row.sealed => m \in proc[w].text
WorkTimed(w) ==
  LET row == new[Batch(Cur(w))]
  IN AtWork(w) =>
       /\ row.sealed = proc[w].start
       /\ proc[w].pc # "read" => TextTimed(row, proc[w].text) /\ InTime(w, row)

(* Of two batches of a chat one was opened when the other was settled, and *)
(* later than all that the AI was asked about.                             *)
OpenedAfter(k, b) ==
  /\ db[Batch(b)].status = "PROCESSED"
  /\ \A m \in db[Batch(b)].text : db[Msg(m)].at < new[Batch(k)].opened
InTurn ==
  \A b, k \in Batches :
    /\ b # k /\ new[Batch(b)].chat = new[Batch(k)].chat
    /\ new[Batch(b)].status # "NONE" /\ new[Batch(k)].status # "NONE"
    => OpenedAfter(k, b) \/ OpenedAfter(b, k)

Timed ==
  /\ \A g \in Gateways : GatewayTimed(g)
  /\ \A m \in Messages : MessageTimed(m)
  /\ \A b \in Batches : BatchTimed(b)
  /\ \A w \in Workers : WorkTimed(w)
TimesInv == Timed /\ InTurn

OneGateway == \A g, h \in Gateways : g = h

(* The numbers that are compared.                                          *)
LEMMA TimesAre ==
  ASSUME Inv
  PROVE  /\ \A m \in Messages : /\ db[Msg(m)] \in MsgRecords /\ new[Msg(m)] \in MsgRecords
                                /\ db[Msg(m)].at \in Nat /\ new[Msg(m)].at \in Nat
         /\ \A b \in Batches :
              /\ db[Batch(b)] \in BatchRecords /\ new[Batch(b)] \in BatchRecords
              /\ db[Batch(b)].opened \in Nat /\ new[Batch(b)].opened \in Nat
              /\ db[Batch(b)].sealed \in Nat /\ new[Batch(b)].sealed \in Nat
         /\ \A t \in Txs : proc[t].start \in Nat
<1>1. /\ \A m \in Messages : db[Msg(m)] \in MsgRecords /\ new[Msg(m)] \in MsgRecords
      /\ \A b \in Batches : db[Batch(b)] \in BatchRecords /\ new[Batch(b)] \in BatchRecords
  BY Names DEF Inv, TypeInv, RowsSound, Sound, MsgSound, BatchSound
<1>2. \A t \in Txs : proc[t].start \in Nat
  BY DEF Inv, TypeInv, ProcsSound, ProcSound
<1>3. QED
  BY <1>1, <1>2 DEF MsgRecords, BatchRecords

(* A message that is committed is nobody's any more.                       *)
LEMMA StoredIsFree ==
  ASSUME Inv, NEW m \in Messages, Stored(db[Msg(m)])
  PROVE  holder[Msg(m)] = NoTx /\ new[Msg(m)] = db[Msg(m)]
BY Names DEF Inv, CountInv, MessageHolders, TypeInv, RowsSound, UnlockedIsCommitted

(* ... and what is in the batch a worker is at is committed.               *)
LEMMA JoinedAreStored ==
  ASSUME Inv, NEW w \in Workers, AtWork(w), NEW m \in new[Batch(Cur(w))].joined
  PROVE  m \in Messages /\ Stored(db[Msg(m)]) /\ new[Msg(m)] = db[Msg(m)]
<1>1. Cur(w) \in Batches /\ holder[Batch(Cur(w))] = w /\ w \notin Gateways
  BY AtWorkHolds, TxsAre
<1>2. m \in Messages
  BY <1>1, TimesAre DEF BatchRecords
<1>3. m \in db[Batch(Cur(w))].joined
  BY <1>1, <1>2 DEF Inv, CountInv, JoinedOnce
<1>4. Stored(db[Msg(m)])
  BY <1>1, <1>2, <1>3 DEF Inv, CountInv, JoinedOnce
<1>5. QED
  BY <1>2, <1>4, StoredIsFree

(* A step that commits nothing: the messages and batches it writes are     *)
(* timed, and so is the process that made it.                              *)
MessageKept(m) ==
  Same(Msg(m)) \/ (MessageTimed(m)' /\ \A b \in Batches : m \notin new'[Batch(b)].joined)
BatchKept(t, b) ==
  \/ Same(Batch(b))
  \/ /\ holder'[Batch(b)] = t /\ BatchTimed(b)'
     /\ \A g \in Gateways \ {t} :
          proc[g].pc # "idle" => new'[Batch(b)].opened <= proc[g].start
StillTimed(t) ==
  /\ t \in Gateways => GatewayTimed(t)'
  /\ t \in Workers => WorkTimed(t)'
  /\ \A m \in Messages : t \in Txs /\ holder[Msg(m)] = t =>
       proc'[t].pc # "idle" /\ proc'[t].start = proc[t].start

LEMMA TimedStep ==
  ASSUME Inv, Inv', Timed,
         \A m \in Messages : db'[Msg(m)] = db[Msg(m)] /\ MessageKept(m),
         \A b \in Batches : db'[Batch(b)] = db[Batch(b)],
         NEW t, OthersSame(t), StillTimed(t), \A b \in Batches : BatchKept(t, b)
  PROVE  Timed'
<1> USE NoTxIsNoTx, TxsAre
<1>1. ASSUME NEW g \in Gateways PROVE GatewayTimed(g)'
  <2>1. CASE g = t
    BY <2>1 DEF StillTimed
  <2>2. CASE g # t
    <3>1. proc'[g] = proc[g] /\ GatewayTimed(g)
      BY <2>2 DEF OthersSame, Timed
    <3>2. ASSUME NEW b \in Batches, proc[g].pc # "idle"
          PROVE  new'[Batch(b)].opened <= proc[g].start
      BY <2>2, <3>1, <3>2 DEF BatchKept, Same, GatewayTimed
    <3>3. QED
      BY <3>1, <3>2 DEF GatewayTimed
  <2>3. QED
    BY <2>1, <2>2
<1>2. ASSUME NEW m \in Messages PROVE MessageTimed(m)'
  <2>1. CASE Same(Msg(m))
    <3>1. MessageTimed(m)
      BY DEF Timed
    <3>2. holder[Msg(m)] # NoTx => holder[Msg(m)] \in Txs
      BY Names DEF Inv, TypeInv, RowsSound
    <3>3. QED
      BY <2>1, <3>1, <3>2 DEF MessageTimed, Same, StillTimed, OthersSame
  <2>2. QED
    BY <2>1 DEF MessageKept
<1>3. ASSUME NEW b \in Batches PROVE BatchTimed(b)'
  <2>1. CASE Same(Batch(b))
    <3>1. BatchTimed(b) /\ new[Batch(b)] \in BatchRecords /\ db[Batch(b)] \in BatchRecords
      BY TimesAre DEF Timed
    <3>2. new[Batch(b)].joined \subseteq Messages /\ new[Batch(b)].text \subseteq Messages
            /\ db[Batch(b)].text \subseteq Messages
      BY <3>1 DEF BatchRecords
    <3>3. \A m \in new[Batch(b)].joined : new'[Msg(m)] = new[Msg(m)]
      BY <2>1, <3>2 DEF MessageKept, Same
    <3>4. RowTimed(db[Batch(b)])' /\ RowTimed(new[Batch(b)])'
      BY <2>1, <3>1, <3>2 DEF BatchTimed, RowTimed, TextTimed, Same
    <3>5. QED
      BY <2>1, <3>1, <3>3, <3>4 DEF BatchTimed, Same
  <2>2. QED
    BY <2>1 DEF BatchKept
<1>4. ASSUME NEW w \in Workers PROVE WorkTimed(w)'
  <2>1. CASE w = t
    BY <2>1 DEF StillTimed
  <2>2. CASE w # t
    <3>1. proc'[w] = proc[w] /\ WorkTimed(w)
      BY <2>2 DEF OthersSame, Timed
    <3>2. proc[w].text \subseteq Messages
      BY DEF Inv, TypeInv, ProcsSound, ProcSound
    <3>4. ASSUME AtWork(w)' PROVE WorkTimed(w)'
      <4>1. AtWork(w) /\ Cur(w)' = Cur(w)
        BY <3>1, <3>4 DEF AtWork, Cur
      <4>2. Cur(w) \in Batches /\ holder[Batch(Cur(w))] = w
        BY <4>1, AtWorkHolds
      <4>3. holder'[Batch(Cur(w)')] = w
        BY <3>4 DEF Inv, SerialInv, Guarded
      <4>4. new'[Batch(Cur(w))] = new[Batch(Cur(w))]
        BY <2>2, <4>1, <4>2, <4>3 DEF BatchKept, Same
      <4>5. new[Batch(Cur(w))].joined \subseteq Messages
        BY <4>1, JoinedAreStored
      <4>6. QED
        BY <3>1, <3>2, <4>1, <4>4, <4>5 DEF WorkTimed, TextTimed, InTime
    <3>5. QED
      BY <3>4 DEF WorkTimed
  <2>3. QED
    BY <2>1, <2>2
<1>5. QED
  BY <1>1, <1>2, <1>3, <1>4 DEF Timed

(* ... and the batches of a chat stay in turn, if it opens none.           *)
SameBatch(b) ==
  /\ db'[Batch(b)] = db[Batch(b)]
  /\ new'[Batch(b)].status # "NONE" =>
       /\ new[Batch(b)].status # "NONE"
       /\ new'[Batch(b)].chat = new[Batch(b)].chat
       /\ new'[Batch(b)].opened = new[Batch(b)].opened

LEMMA TurnsKept ==
  ASSUME Inv, InTurn, \A m \in Messages : db'[Msg(m)] = db[Msg(m)],
         \A b \in Batches : SameBatch(b)
  PROVE  InTurn'
<1> SUFFICES ASSUME NEW b \in Batches, NEW k \in Batches, b # k,
                    new'[Batch(b)].chat = new'[Batch(k)].chat,
                    new'[Batch(b)].status # "NONE", new'[Batch(k)].status # "NONE"
             PROVE  OpenedAfter(k, b)' \/ OpenedAfter(b, k)'
  BY DEF InTurn
<1>1. OpenedAfter(k, b) \/ OpenedAfter(b, k)
  BY DEF InTurn, SameBatch
<1>2. db[Batch(b)].text \subseteq Messages /\ db[Batch(k)].text \subseteq Messages
  BY TimesAre DEF BatchRecords
<1>3. QED
  BY <1>1, <1>2 DEF OpenedAfter, SameBatch

-----------------------------------------------------------------------------
(* The end of a transaction.                                               *)
LEMMA CommitTimed ==
  ASSUME Inv, Inv', TimesInv, OneGateway, NEW t \in Txs, Commit(t)
  PROVE  TimesInv'
<1> USE NoTxIsNoTx, TxsAre DEF TimesInv
<1>0. /\ proc' = [proc EXCEPT ![t] = Idle] /\ OthersSame(t) /\ proc'[t] = Idle
      /\ Inv /\ ProcsSound
  BY EndsAlone DEF Commit, Inv, TypeInv
<1>1. /\ new' = new
      /\ \A x \in RowIds : /\ holder[x] = t => db'[x] = new[x] /\ holder'[x] = NoTx
                           /\ holder[x] # t => db'[x] = db[x] /\ holder'[x] = holder[x]
  BY DEF Commit, Publish, Release, Inv, TypeInv, RowsSound
<1>2. \A m \in Messages : Stored(db[Msg(m)]) => db'[Msg(m)] = db[Msg(m)]
  BY <1>1, StoredIsFree, Names
<1>3. \A b \in Batches : db'[Batch(b)] \in {db[Batch(b)], new[Batch(b)]}
  BY <1>1, Names
<1>4. \A b \in Batches : /\ db[Batch(b)].text \subseteq Messages /\ new[Batch(b)].text \subseteq Messages
                         /\ new[Batch(b)].joined \subseteq Messages
  BY TimesAre DEF BatchRecords
<1>5. ASSUME NEW g \in Gateways PROVE GatewayTimed(g)'
  <2>1. CASE g = t
    BY <1>0, <2>1 DEF GatewayTimed, Idle
  <2>2. CASE g # t
    <3>1. t \in Workers
      BY <2>2 DEF OneGateway
    <3>2. \A m \in Messages : db'[Msg(m)] = db[Msg(m)]
      BY <1>1, <3>1, Names DEF Inv, CountInv, MessageHolders
    <3>3. proc'[g] = proc[g] /\ GatewayTimed(g)
      BY <1>0, <2>2 DEF OthersSame, Timed
    <3>4. QED
      BY <1>1, <1>3, <3>2, <3>3 DEF GatewayTimed
  <2>3. QED
    BY <2>1, <2>2
<1>6. ASSUME NEW m \in Messages PROVE MessageTimed(m)'
  <2>1. MessageTimed(m)
    BY DEF Timed
  <2>2. holder'[Msg(m)] # NoTx =>
          holder'[Msg(m)] = holder[Msg(m)] /\ holder[Msg(m)] \in Txs \ {t}
    BY <1>1, Names DEF Inv, TypeInv, RowsSound
  <2>3. QED
    BY <1>0, <1>1, <2>1, <2>2 DEF MessageTimed, OthersSame
<1>7. ASSUME NEW b \in Batches PROVE BatchTimed(b)'
  <2>1. BatchTimed(b)
    BY DEF Timed
  <2>2. RowTimed(new[Batch(b)])'
    BY <1>1, <1>2, <1>4, <2>1 DEF BatchTimed, RowTimed, TextTimed
  <2>3. RowTimed(db[Batch(b)])'
    BY <1>1, <1>2, <1>3, <1>4, <2>1 DEF BatchTimed, RowTimed, TextTimed
  <2>4. QED
    BY <1>1, <1>3, <2>1, <2>2, <2>3 DEF BatchTimed
<1>8. ASSUME NEW w \in Workers PROVE WorkTimed(w)'
  <2>1. CASE w = t
    BY <1>0, <2>1 DEF WorkTimed, AtWork, Idle
  <2>2. CASE w # t
    <3>1. proc'[w] = proc[w] /\ WorkTimed(w)
      BY <1>0, <2>2 DEF OthersSame, Timed
    <3>2. proc[w].text \subseteq Messages
      BY <1>0 DEF ProcsSound, ProcSound
    <3>3. AtWork(w) => \A m \in new[Batch(Cur(w))].joined : db'[Msg(m)] = db[Msg(m)]
      BY <1>0, <1>2, JoinedAreStored
    <3>4. QED
      BY <1>1, <1>2, <3>1, <3>2, <3>3 DEF WorkTimed, TextTimed, InTime, AtWork, Cur
  <2>3. QED
    BY <2>1, <2>2
<1>9. InTurn'
  <2>1. ASSUME NEW b \in Batches, NEW k \in Batches, OpenedAfter(k, b)
        PROVE  OpenedAfter(k, b)'
    <3>1. db'[Batch(b)].status = db[Batch(b)].status /\ db'[Batch(b)].text = db[Batch(b)].text
      <4>1. CASE holder[Batch(b)] = t
        <5>1. t \notin Workers
          BY <2>1, <4>1 DEF OpenedAfter, Inv, SerialInv, Holders, WorkerHolds
        <5>2. GatewayHolds(t, b)
          BY <4>1, <5>1 DEF Inv, SerialInv, Holders
        <5>3. QED
          BY <1>1, <2>1, <4>1, <5>2, Names DEF GatewayHolds, OpenedAfter
      <4>2. CASE holder[Batch(b)] # t
        BY <1>1, <4>2, Names
      <4>3. QED
        BY <4>1, <4>2
    <3>2. \A m \in db[Batch(b)].text : m \in Messages /\ Stored(db[Msg(m)])
      BY <1>4 DEF Timed, BatchTimed, RowTimed, TextTimed
    <3>3. QED
      BY <1>1, <1>2, <2>1, <3>1, <3>2 DEF OpenedAfter
  <2>2. QED
    BY <1>1, <2>1 DEF InTurn
<1>10. QED
  BY <1>5, <1>6, <1>7, <1>8, <1>9 DEF Timed

LEMMA AbandonTimed ==
  ASSUME Inv, Inv', TimesInv, NEW t \in Txs, Abandon(t)
  PROVE  TimesInv'
<1> USE NoTxIsNoTx, TxsAre DEF TimesInv
<1>0. /\ proc' = [proc EXCEPT ![t] = Idle] /\ OthersSame(t) /\ proc'[t] = Idle
      /\ Inv /\ ProcsSound
  BY EndsAlone DEF Abandon, Inv, TypeInv
<1>1. /\ db' = db
      /\ \A x \in RowIds : /\ holder[x] = t => new'[x] = db[x] /\ holder'[x] = NoTx
                           /\ holder[x] # t => new'[x] = new[x] /\ holder'[x] = holder[x]
  BY DEF Abandon, Rollback, Release, Inv, TypeInv, RowsSound
<1>2. \A b \in Batches : new'[Batch(b)] \in {db[Batch(b)], new[Batch(b)]}
  BY <1>1, Names
<1>3. \A b \in Batches : /\ db[Batch(b)].text \subseteq Messages /\ new[Batch(b)].text \subseteq Messages
                         /\ new[Batch(b)].joined \subseteq Messages
                         /\ db[Batch(b)].joined \subseteq Messages
  BY TimesAre DEF BatchRecords
<1>4. ASSUME NEW g \in Gateways PROVE GatewayTimed(g)'
  <2>1. GatewayTimed(g)
    BY DEF Timed
  <2>2. proc'[g].pc # "idle" => proc'[g] = proc[g]
    BY <1>0 DEF OthersSame, Idle
  <2>3. QED
    BY <1>1, <1>2, <2>1, <2>2 DEF GatewayTimed
<1>5. ASSUME NEW m \in Messages PROVE MessageTimed(m)'
  <2>1. MessageTimed(m)
    BY DEF Timed
  <2>2. holder'[Msg(m)] # NoTx =>
          /\ holder'[Msg(m)] = holder[Msg(m)] /\ holder[Msg(m)] \in Txs \ {t}
          /\ new'[Msg(m)] = new[Msg(m)]
    BY <1>1, Names DEF Inv, TypeInv, RowsSound
  <2>3. QED
    BY <1>0, <2>1, <2>2 DEF MessageTimed, OthersSame
<1>6. ASSUME NEW b \in Batches PROVE BatchTimed(b)'
  <2>1. BatchTimed(b)
    BY DEF Timed
  <2>2. RowTimed(db[Batch(b)])' /\ RowTimed(new[Batch(b)])'
    BY <1>1, <1>2, <1>3, <2>1 DEF BatchTimed, RowTimed, TextTimed
  <2>3. ASSUME NEW m \in new'[Batch(b)].joined
        PROVE  new'[Batch(b)].opened <= new'[Msg(m)].at
    <3>1. m \in Messages /\ m \in new[Batch(b)].joined /\ new'[Msg(m)] = new[Msg(m)]
      <4>1. CASE m \in db[Batch(b)].joined
        <5>1. m \in Messages /\ m \in new[Batch(b)].joined /\ Stored(db[Msg(m)])
          BY <1>3, <4>1 DEF Inv, CountInv, JoinedOnce
        <5>2. QED
          BY <1>1, <5>1, StoredIsFree, Names
      <4>2. CASE m \notin db[Batch(b)].joined
        <5>1. holder[Batch(b)] # t /\ m \in new[Batch(b)].joined /\ m \in Messages
          BY <1>1, <1>3, <2>3, <4>2, Names
        <5>2. holder[Msg(m)] = holder[Batch(b)]
          BY <4>2, <5>1 DEF Inv, CountInv, JoinedOnce
        <5>3. QED
          BY <1>1, <5>1, <5>2, Names
      <4>3. QED
        BY <4>1, <4>2
    <3>2. new'[Batch(b)].opened = new[Batch(b)].opened
      <4>1. CASE holder[Batch(b)] # t
        BY <1>1, <4>1, Names
      <4>2. CASE holder[Batch(b)] = t
        <5>1. new'[Batch(b)] = db[Batch(b)] /\ db[Batch(b)].joined # {}
          BY <1>1, <2>3, <4>2, Names
        <5>2. BatchSound(db[Batch(b)])
          BY Names DEF Inv, TypeInv, RowsSound, Sound
        <5>3. db[Batch(b)].status # "NONE"
          BY <5>1, <5>2 DEF BatchSound, NoBatch
        <5>4. QED
          BY <2>1, <5>1, <5>3 DEF BatchTimed
      <4>3. QED
        BY <4>1, <4>2
    <3>3. QED
      BY <2>1, <3>1, <3>2 DEF BatchTimed
  <2>4. /\ db'[Batch(b)].status # "NONE" => new'[Batch(b)].opened = db'[Batch(b)].opened
        /\ new'[Batch(b)].status # "NONE" => new'[Batch(b)].opened > 0
    BY <1>1, <1>2, <2>1 DEF BatchTimed, Inv, SerialInv, Committed
  <2>5. QED
    BY <2>2, <2>3, <2>4 DEF BatchTimed
<1>7. ASSUME NEW w \in Workers PROVE WorkTimed(w)'
  <2>1. CASE w = t
    BY <1>0, <2>1 DEF WorkTimed, AtWork, Idle
  <2>2. CASE w # t
    <3>1. proc'[w] = proc[w] /\ WorkTimed(w)
      BY <1>0, <2>2 DEF OthersSame, Timed
    <3>2. AtWork(w) => new'[Batch(Cur(w))] = new[Batch(Cur(w))]
      BY <1>1, <2>2, AtWorkHolds, Names
    <3>3. QED
      BY <1>1, <3>1, <3>2 DEF WorkTimed, TextTimed, InTime, AtWork, Cur
  <2>3. QED
    BY <2>1, <2>2
<1>8. InTurn'
  <2>1. ASSUME NEW b \in Batches PROVE SameBatch(b)
    BY <1>1, <1>2 DEF SameBatch, Timed, BatchTimed, Inv, SerialInv, Committed
  <2>2. QED
    BY <1>1, <2>1, TurnsKept
<1>9. QED
  BY <1>4, <1>5, <1>6, <1>7, <1>8 DEF Timed

(* Ranks are in the order of the instants.                                 *)
LEMMA RankIsMonotone ==
  ASSUME Inv, NEW a \in Nat, NEW n \in Nat
  PROVE  /\ a <= n => Rank(a) <= Rank(n)
         /\ a < n /\ a \in Instants => Rank(a) < Rank(n)
<1> DEFINE below(i) == {k \in Instants : k < i}
<1>1. IsFiniteSet(Instants) /\ Instants \subseteq Nat
  BY InstantsAreFinite
<1>2. /\ IsFiniteSet(below(a)) /\ IsFiniteSet(below(n))
      /\ Cardinality(below(a)) \in Nat /\ Cardinality(below(n)) \in Nat
  BY <1>1, FS_Subset, FS_CardinalityType
<1>3. ASSUME a <= n
      PROVE  below(a) \subseteq below(n) /\ Cardinality(below(a)) <= Cardinality(below(n))
  <2>1. \A k \in Instants : k < a => k < n
    BY <1>1, <1>3
  <2>2. below(a) \subseteq below(n)
    BY <2>1
  <2>3. QED
    BY <1>2, <2>2, FS_Subset
<1>4. ASSUME a < n, a \in Instants
      PROVE  Cardinality(below(a)) < Cardinality(below(n))
  <2>1. a \in below(n) /\ a \notin below(a)
    BY <1>4
  <2>2. below(a) \subseteq below(n)
    <3>1. a <= n
      BY <1>4
    <3>2. QED
      BY <1>3, <3>1
  <2>3. Cardinality(below(a)) <= Cardinality(below(n)) /\ Cardinality(below(a)) # Cardinality(below(n))
    BY <1>2, <2>1, <2>2, FS_Subset
  <2>4. QED
    BY <1>2, <2>3
<1>5. QED
  BY <1>3, <1>4 DEF Rank

LEMMA RenumberTimes ==
  ASSUME Inv, Renumber
  PROVE  /\ holder' = holder
         /\ \A m \in Messages : /\ db'[Msg(m)].at = Rank(db[Msg(m)].at)
                                /\ new'[Msg(m)].at = Rank(new[Msg(m)].at)
         /\ \A b \in Batches :
              /\ db'[Batch(b)].opened = Rank(db[Batch(b)].opened)
              /\ new'[Batch(b)].opened = Rank(new[Batch(b)].opened)
              /\ new'[Batch(b)].sealed = Rank(new[Batch(b)].sealed)
              /\ db'[Batch(b)].ready = db[Batch(b)].ready
              /\ new'[Batch(b)].ready = new[Batch(b)].ready
         /\ \A t \in Txs :
              /\ proc'[t].start = Rank(proc[t].start)
              /\ proc'[t].pc = proc[t].pc /\ proc'[t].text = proc[t].text
              /\ Cur(t)' = Cur(t)
<1>1. /\ \A x \in RowIds : db'[x] = Renumbered(x, db[x]) /\ new'[x] = Renumbered(x, new[x])
      /\ holder' = holder
      /\ \A t \in Txs : proc'[t] = [proc[t] EXCEPT !.start = Rank(@)]
  BY DEF Renumber
<1>2. ASSUME NEW m \in Messages
      PROVE  /\ db'[Msg(m)].at = Rank(db[Msg(m)].at) /\ new'[Msg(m)].at = Rank(new[Msg(m)].at)
  <2>1. db[Msg(m)] \in MsgRecords /\ new[Msg(m)] \in MsgRecords
    BY TimesAre
  <2>2. /\ db'[Msg(m)] = [db[Msg(m)] EXCEPT !.at = Rank(@)]
        /\ new'[Msg(m)] = [new[Msg(m)] EXCEPT !.at = Rank(@)]
    <3>1. /\ db'[Msg(m)] = Renumbered(Msg(m), db[Msg(m)])
          /\ new'[Msg(m)] = Renumbered(Msg(m), new[Msg(m)])
      BY <1>1, Names
    <3>2. QED
      BY <2>1, <3>1, RenumberedIs
  <2>3. QED
    BY <2>1, <2>2 DEF MsgRecords
<1>3. ASSUME NEW b \in Batches
      PROVE  /\ db'[Batch(b)].opened = Rank(db[Batch(b)].opened)
             /\ new'[Batch(b)].opened = Rank(new[Batch(b)].opened)
             /\ new'[Batch(b)].sealed = Rank(new[Batch(b)].sealed)
             /\ db'[Batch(b)].ready = db[Batch(b)].ready
             /\ new'[Batch(b)].ready = new[Batch(b)].ready
  <2>1. db[Batch(b)] \in BatchRecords /\ new[Batch(b)] \in BatchRecords
    BY TimesAre
  <2>2. /\ db'[Batch(b)] = [db[Batch(b)] EXCEPT !.opened = Rank(@), !.sealed = Rank(@)]
        /\ new'[Batch(b)] = [new[Batch(b)] EXCEPT !.opened = Rank(@), !.sealed = Rank(@)]
    <3>1. /\ db'[Batch(b)] = Renumbered(Batch(b), db[Batch(b)])
          /\ new'[Batch(b)] = Renumbered(Batch(b), new[Batch(b)])
      BY <1>1, Names
    <3>2. QED
      BY <2>1, <3>1, RenumberedIs
  <2>3. QED
    BY <2>1, <2>2 DEF BatchRecords
<1>4. ASSUME NEW t \in Txs
      PROVE  /\ proc'[t].start = Rank(proc[t].start)
             /\ proc'[t].pc = proc[t].pc /\ proc'[t].text = proc[t].text
             /\ Cur(t)' = Cur(t)
  <2>1. DOMAIN proc[t] = DOMAIN Idle
    BY DEF Inv, TypeInv, ProcsSound, ProcSound
  <2>2. /\ proc'[t].start = Rank(proc[t].start)
        /\ proc'[t].pc = proc[t].pc /\ proc'[t].text = proc[t].text
        /\ proc'[t].todo = proc[t].todo
    BY <1>1, <2>1 DEF Idle
  <2>3. QED
    BY <2>2 DEF Cur
<1>5. QED
  BY <1>1, <1>2, <1>3, <1>4

LEMMA RenumberTimed ==
  ASSUME Inv, TimesInv, Renumber
  PROVE  TimesInv'
<1> USE TxsAre, NoTxIsNoTx DEF TimesInv
<1>1. /\ holder' = holder
      /\ \A m \in Messages : /\ db'[Msg(m)].at = Rank(db[Msg(m)].at)
                             /\ new'[Msg(m)].at = Rank(new[Msg(m)].at)
      /\ \A b \in Batches :
           /\ db'[Batch(b)].opened = Rank(db[Batch(b)].opened)
           /\ new'[Batch(b)].opened = Rank(new[Batch(b)].opened)
           /\ new'[Batch(b)].sealed = Rank(new[Batch(b)].sealed)
           /\ db'[Batch(b)].ready = db[Batch(b)].ready
           /\ new'[Batch(b)].ready = new[Batch(b)].ready
      /\ \A t \in Txs :
           /\ proc'[t].start = Rank(proc[t].start)
           /\ proc'[t].pc = proc[t].pc /\ proc'[t].text = proc[t].text
           /\ Cur(t)' = Cur(t)
  BY RenumberTimes
<1>2. \A b \in Batches :
        /\ db'[Batch(b)].status = db[Batch(b)].status
        /\ db'[Batch(b)].chat = db[Batch(b)].chat
        /\ db'[Batch(b)].asked = db[Batch(b)].asked
        /\ db'[Batch(b)].text = db[Batch(b)].text
        /\ new'[Batch(b)].status = new[Batch(b)].status
        /\ new'[Batch(b)].chat = new[Batch(b)].chat
        /\ new'[Batch(b)].joined = new[Batch(b)].joined
        /\ new'[Batch(b)].asked = new[Batch(b)].asked
        /\ new'[Batch(b)].text = new[Batch(b)].text
  BY RenumberBatches
<1>3. /\ \A m \in Messages : db[Msg(m)].at \in Nat /\ new[Msg(m)].at \in Nat
      /\ \A b \in Batches : /\ db[Batch(b)].opened \in Nat /\ new[Batch(b)].opened \in Nat
                            /\ new[Batch(b)].sealed \in Nat
                            /\ db[Batch(b)].text \subseteq Messages
                            /\ new[Batch(b)].text \subseteq Messages
                            /\ new[Batch(b)].joined \subseteq Messages
      /\ \A t \in Txs : proc[t].start \in Nat /\ proc[t].text \subseteq Messages
  BY TimesAre DEF BatchRecords, Inv, TypeInv, ProcsSound, ProcSound
<1>4. \A a, n \in Nat : a <= n => Rank(a) <= Rank(n)
  BY RankIsMonotone
<1>5. ASSUME NEW m \in Messages, NEW n \in Nat, db[Msg(m)].at < n
      PROVE  Rank(db[Msg(m)].at) < Rank(n)
  <2>1. db[Msg(m)].at \in Instants
    <3>1. CASE Stored(db[Msg(m)])
      BY <3>1, StoredIsFree DEF Instants
    <3>2. CASE ~Stored(db[Msg(m)])
      <4>1. db[Msg(m)].at = 0
        BY <1>3, <3>2 DEF Stored
      <4>2. QED
        BY <4>1 DEF Instants
    <3>3. QED
      BY <3>1, <3>2
  <2>2. QED
    BY <1>3, <1>5, <2>1, RankIsMonotone
<1>6. \A m \in Messages : Stored(db[Msg(m)])' <=> Stored(db[Msg(m)])
  <2> SUFFICES ASSUME NEW m \in Messages PROVE Stored(db'[Msg(m)]) <=> Stored(db[Msg(m)])
    OBVIOUS
  <2>1. Rank(db[Msg(m)].at) \in Nat /\ (Rank(db[Msg(m)].at) = 0 <=> db[Msg(m)].at = 0)
    BY <1>3, RankIs
  <2>2. QED
    BY <1>1, <1>3, <2>1 DEF Stored
<1>7. ASSUME NEW g \in Gateways PROVE GatewayTimed(g)'
  <2>1. GatewayTimed(g) /\ g \in Txs
    BY DEF Timed
  <2>2. SUFFICES ASSUME proc[g].pc # "idle"
                 PROVE  /\ \A m \in Messages : db'[Msg(m)].at < proc'[g].start
                        /\ \A b \in Batches : /\ db'[Batch(b)].opened <= proc'[g].start
                                              /\ new'[Batch(b)].opened <= proc'[g].start
    BY <1>1, <2>1 DEF GatewayTimed
  <2>3. \A m \in Messages : db'[Msg(m)].at < proc'[g].start
    BY <1>1, <1>3, <1>5, <2>1, <2>2 DEF GatewayTimed
  <2>4. \A b \in Batches : /\ db'[Batch(b)].opened <= proc'[g].start
                           /\ new'[Batch(b)].opened <= proc'[g].start
    BY <1>1, <1>3, <1>4, <2>1, <2>2 DEF GatewayTimed
  <2>5. QED
    BY <2>3, <2>4
<1>8. ASSUME NEW m \in Messages PROVE MessageTimed(m)'
  <2>1. MessageTimed(m)
    BY DEF Timed
  <2>2. holder[Msg(m)] # NoTx => holder[Msg(m)] \in Txs
    BY Names DEF Inv, TypeInv, RowsSound
  <2>3. QED
    BY <1>1, <2>1, <2>2 DEF MessageTimed
<1>9. ASSUME NEW b \in Batches PROVE BatchTimed(b)'
  <2>1. BatchTimed(b)
    BY DEF Timed
  <2>2. RowTimed(db[Batch(b)])'
    BY <1>1, <1>2, <1>3, <1>4, <1>6, <2>1 DEF BatchTimed, RowTimed, TextTimed
  <2>3. RowTimed(new[Batch(b)])'
    BY <1>1, <1>2, <1>3, <1>4, <1>6, <2>1 DEF BatchTimed, RowTimed, TextTimed
  <2>4. \A m \in new[Batch(b)].joined : new'[Batch(b)].opened <= new'[Msg(m)].at
    BY <1>1, <1>3, <1>4, <2>1 DEF BatchTimed
  <2>5. new[Batch(b)].status # "NONE" => new'[Batch(b)].opened > 0
    <3>1. Rank(new[Batch(b)].opened) \in Nat
            /\ (Rank(new[Batch(b)].opened) = 0 <=> new[Batch(b)].opened = 0)
      BY <1>3, RankIs
    <3>2. QED
      BY <1>1, <1>3, <2>1, <3>1 DEF BatchTimed
  <2>6. QED
    BY <1>1, <1>2, <2>1, <2>2, <2>3, <2>4, <2>5 DEF BatchTimed
<1>10. ASSUME NEW w \in Workers PROVE WorkTimed(w)'
  <2>1. WorkTimed(w) /\ w \in Txs
    BY DEF Timed
  <2>3. ASSUME AtWork(w) PROVE WorkTimed(w)'
    <3>1. Cur(w) \in Batches
      BY <2>3, AtWorkHolds
    <3>2. PICK b \in Batches : b = Cur(w)
      BY <3>1
    <3>3. /\ new[Batch(b)].sealed = proc[w].start
          /\ proc[w].pc # "read" =>
               TextTimed(new[Batch(b)], proc[w].text) /\ InTime(w, new[Batch(b)])
      BY <2>1, <2>3, <3>2 DEF WorkTimed
    <3>4. proc[w].pc # "read" => TextTimed(new[Batch(b)], proc[w].text)'
      BY <1>1, <1>2, <1>3, <1>4, <1>6, <2>1, <3>3 DEF TextTimed
    <3>5. Cur(w)' = b
      BY <1>1, <2>1, <3>2
    <3>6. ASSUME proc[w].pc # "read", NEW m \in new[Batch(b)].joined,
                 db'[Msg(m)].at <= new'[Batch(b)].sealed
          PROVE  m \in proc[w].text
      <4>1. m \in Messages /\ new[Batch(b)].sealed \in Instants
        BY <1>3 DEF Instants
      <4>2. ~(new[Batch(b)].sealed < db[Msg(m)].at)
        <5>1. new[Batch(b)].sealed < db[Msg(m)].at =>
                Rank(new[Batch(b)].sealed) < Rank(db[Msg(m)].at)
          BY <1>3, <4>1, RankIsMonotone
        <5>2. Rank(db[Msg(m)].at) \in Nat /\ Rank(new[Batch(b)].sealed) \in Nat
          BY <1>3, <4>1, RankIs
        <5>3. QED
          BY <1>1, <3>6, <4>1, <5>1, <5>2
      <4>3. QED
        BY <1>3, <3>3, <3>6, <4>1, <4>2 DEF InTime
    <3>7. proc[w].pc # "read" => InTime(w, new[Batch(b)])'
      BY <1>1, <1>2, <2>1, <3>6 DEF InTime
    <3>8. QED
      BY <1>1, <1>2, <2>1, <3>3, <3>4, <3>5, <3>7 DEF WorkTimed, TextTimed, InTime
  <2>4. QED
    BY <1>1, <2>1, <2>3 DEF WorkTimed, AtWork
<1>11. InTurn'
  <2>1. ASSUME NEW b \in Batches, NEW k \in Batches, OpenedAfter(k, b)
        PROVE  OpenedAfter(k, b)'
    BY <1>1, <1>2, <1>3, <1>5, <2>1 DEF OpenedAfter
  <2>2. QED
    BY <1>2, <2>1 DEF InTurn
<1>12. QED
  BY <1>7, <1>8, <1>9, <1>10, <1>11 DEF Timed

-----------------------------------------------------------------------------
(* Steps that write no message and no batch.                               *)
LEMMA QuietTimed ==
  ASSUME Inv, Inv', TimesInv, BatchesSame, MessagesSame,
         NEW t, OthersSame(t), StillTimed(t)
  PROVE  TimesInv'
<1>1. /\ \A m \in Messages : db'[Msg(m)] = db[Msg(m)] /\ MessageKept(m)
      /\ \A b \in Batches : db'[Batch(b)] = db[Batch(b)] /\ BatchKept(t, b)
  BY DEF BatchesSame, MessagesSame, Same, MessageKept, BatchKept
<1>2. Timed'
  BY <1>1, TimedStep DEF TimesInv
<1>3. InTurn'
  <2>1. \A b \in Batches : SameBatch(b)
    BY DEF BatchesSame, Same, SameBatch
  <2>2. QED
    BY <1>1, <2>1, TurnsKept DEF TimesInv
<1>4. QED
  BY <1>2, <1>3 DEF TimesInv

LEMMA GatewayMoves ==
  ASSUME Inv, Inv', TimesInv, BatchesSame, MessagesSame, NEW g \in Gateways, OthersSame(g),
         proc[g].pc # "idle", proc'[g].pc # "idle", proc'[g].start = proc[g].start
  PROVE  TimesInv'
<1>1. GatewayTimed(g)'
  BY DEF TimesInv, Timed, GatewayTimed, BatchesSame, MessagesSame, Same
<1>2. StillTimed(g)
  BY <1>1, TxsAre DEF StillTimed
<1>3. QED
  BY <1>2, QuietTimed

LEMMA NoWorkersMessage ==
  ASSUME Inv, NEW w \in Workers, NEW m \in Messages
  PROVE  holder[Msg(m)] # w
BY NoTxIsNoTx, TxsAre DEF Inv, CountInv, MessageHolders

LEMMA WorkerMoves ==
  ASSUME Inv, Inv', TimesInv, BatchesSame, MessagesSame, NEW w \in Workers, OthersSame(w),
         proc[w].pc # "idle",
         proc'[w].start = proc[w].start,
         AtWork(w)' => /\ AtWork(w) /\ Cur(w)' = Cur(w) /\ proc'[w].text = proc[w].text
                       /\ proc'[w].pc # "read" => proc[w].pc # "read"
  PROVE  TimesInv'
<1>1. WorkTimed(w)
  BY DEF TimesInv, Timed
<1>2. proc[w].text \subseteq Messages
  BY TxsAre DEF Inv, TypeInv, ProcsSound, ProcSound
<1>4. WorkTimed(w)'
  <2> SUFFICES ASSUME AtWork(w)' PROVE WorkTimed(w)'
    BY DEF WorkTimed
  <2>1. Cur(w) \in Batches
    BY AtWorkHolds
  <2>2. new'[Batch(Cur(w))] = new[Batch(Cur(w))]
    BY <2>1 DEF BatchesSame, Same
  <2>3. new[Batch(Cur(w))].joined \subseteq Messages
    BY JoinedAreStored
  <2>4. QED
    BY <1>1, <1>2, <2>1, <2>2, <2>3 DEF WorkTimed, TextTimed, InTime, MessagesSame, Same
<1>5. StillTimed(w)
  BY <1>4, TxsAre, NoWorkersMessage DEF StillTimed
<1>6. QED
  BY <1>5, QuietTimed

(* What is numbered up to now is earlier.                                  *)
LEMMA NowIsNext ==
  ASSUME Inv, Timed, Compact
  PROVE  /\ Now \in Nat
         /\ \A m \in Messages : db[Msg(m)].at < Now
         /\ \A b \in Batches : db[Batch(b)].opened < Now /\ new[Batch(b)].opened < Now
<1>1. Now \in Nat /\ Now > 0
  BY NowIsLater
<1>2. \A n \in Instants : n \in Nat /\ n < Now
  BY <1>1 DEF Compact
<1>3. ASSUME NEW m \in Messages PROVE db[Msg(m)].at < Now
  <2>1. CASE Stored(db[Msg(m)])
    <3>1. db[Msg(m)].at \in Instants
      BY <2>1, StoredIsFree DEF Instants
    <3>2. QED
      BY <1>2, <3>1
  <2>2. CASE ~Stored(db[Msg(m)])
    BY <1>1, <2>2, TimesAre DEF Stored
  <2>3. QED
    BY <2>1, <2>2
<1>4. ASSUME NEW b \in Batches
      PROVE  db[Batch(b)].opened < Now /\ new[Batch(b)].opened < Now
  <2>1. new[Batch(b)].opened \in Instants
    BY DEF Instants
  <2>2. db[Batch(b)].opened \in {0, new[Batch(b)].opened}
    <3>1. BatchSound(db[Batch(b)])
      BY Names DEF Inv, TypeInv, RowsSound, Sound
    <3>2. CASE db[Batch(b)].status = "NONE"
      BY <3>1, <3>2 DEF BatchSound, NoBatch
    <3>3. CASE db[Batch(b)].status # "NONE"
      BY <3>3 DEF Timed, BatchTimed
    <3>4. QED
      BY <3>2, <3>3
  <2>3. QED
    BY <1>1, <1>2, <2>1, <2>2
<1>5. QED
  BY <1>1, <1>3, <1>4

LEMMA ReceiveTimed ==
  ASSUME Inv, Inv', TimesInv, NEW g \in Gateways, NEW h \in Webhooks, Receive(g, h)
  PROVE  TimesInv'
<1> g \in Txs /\ g \notin Workers
  BY TxsAre
<1>1. /\ proc[g].pc = "idle" /\ Compact /\ UNCHANGED dbVars
      /\ proc' = [proc EXCEPT ![g] = [Idle EXCEPT !.pc = "check", !.start = Now,
                                                  !.todo = h, !.webhook = h]]
  BY DEF Receive
<1>2. OthersSame(g) /\ proc'[g].pc = "check" /\ proc'[g].start = Now
  BY <1>1, Moves DEF Inv, TypeInv, Idle
<1>3. BatchesSame /\ MessagesSame
  BY <1>1, ReadsOnly DEF Inv, TypeInv
<1>4. GatewayTimed(g)'
  <2>1. \A m \in Messages : db'[Msg(m)].at < proc'[g].start
    BY <1>1, <1>2, NowIsNext DEF TimesInv, dbVars
  <2>2. \A b \in Batches : db[Batch(b)].opened <= Now /\ new[Batch(b)].opened <= Now
    BY <1>1, NowIsNext, TimesAre DEF TimesInv
  <2>3. QED
    BY <1>1, <1>2, <2>1, <2>2 DEF GatewayTimed, dbVars
<1>5. \A m \in Messages : holder[Msg(m)] # g
  BY <1>1, NoTxIsNoTx DEF TimesInv, Timed, MessageTimed
<1>6. StillTimed(g)
  BY <1>4, <1>5 DEF StillTimed
<1>7. QED
  BY <1>2, <1>3, <1>6, QuietTimed

LEMMA BeginTickTimed ==
  ASSUME Inv, Inv', TimesInv, NEW w \in Workers, BeginTick(w)
  PROVE  TimesInv'
<1> w \in Txs /\ w \notin Gateways
  BY TxsAre
<1>1. /\ UNCHANGED dbVars
      /\ proc' = [proc EXCEPT ![w] = [Idle EXCEPT !.pc = "select", !.start = Now]]
  BY DEF BeginTick
<1>2. OthersSame(w) /\ proc'[w].pc = "select"
  BY <1>1, Moves DEF Inv, TypeInv, Idle
<1>3. BatchesSame /\ MessagesSame
  BY <1>1, ReadsOnly DEF Inv, TypeInv
<1>4. WorkTimed(w)'
  BY <1>2 DEF WorkTimed, AtWork
<1>5. StillTimed(w)
  BY <1>4, NoWorkersMessage DEF StillTimed
<1>6. QED
  BY <1>2, <1>3, <1>5, QuietTimed

LEMMA SelectDueTimed ==
  ASSUME Inv, Inv', TimesInv, NEW w \in Workers, NEW D \in SUBSET Batches, SelectDue(w, D)
  PROVE  TimesInv'
<1>1. proc[w].pc = "select" /\ UNCHANGED dbVars
  BY DEF SelectDue
<1>2. /\ OthersSame(w) /\ Remembers(w)
      /\ proc'[w].pc \in {"commit", "lock batch"}
  BY SelectIs DEF Inv, TypeInv
<1>3. BatchesSame /\ MessagesSame
  BY <1>1, ReadsOnly DEF Inv, TypeInv
<1>4. ~AtWork(w)'
  BY <1>2 DEF AtWork
<1>5. QED
  BY <1>1, <1>2, <1>3, <1>4, WorkerMoves DEF Remembers

-----------------------------------------------------------------------------
(* The other steps of a gateway.                                           *)
LEMMA CheckClientTimed ==
  ASSUME Inv, Inv', TimesInv, NEW g \in Gateways, CheckClient(g)
  PROVE  TimesInv'
<1> g \in Txs
  BY TxsAre
<1>1. CASE CountMissing(g)
  BY <1>1, AbandonTimed DEF CheckClient
<1>2. CASE ~CountMissing(g)
  <2>1. /\ proc[g].pc = "check" /\ UNCHANGED dbVars
        /\ proc' = [proc EXCEPT ![g].pc = "store", ![g].gate = blocked]
    BY <1>2 DEF CheckClient
  <2>2. OthersSame(g) /\ proc'[g] = [proc[g] EXCEPT !.pc = "store", !.gate = blocked]
    BY <2>1 DEF OthersSame, Inv, TypeInv, ProcsSound
  <2>3. DOMAIN proc[g] = DOMAIN Idle
    BY DEF Inv, TypeInv, ProcsSound, ProcSound
  <2>4. proc'[g].pc = "store" /\ proc'[g].start = proc[g].start
    BY <2>2, <2>3 DEF Idle
  <2>5. BatchesSame /\ MessagesSame
    BY <2>1, ReadsOnly DEF Inv, TypeInv
  <2>6. QED
    BY <2>1, <2>2, <2>4, <2>5, GatewayMoves
<1>3. QED
  BY <1>1, <1>2

LEMMA GatewayPaywallTimed ==
  ASSUME Inv, Inv', TimesInv, NEW g \in Gateways, GatewayPaywall(g)
  PROVE  TimesInv'
<1> g \in Txs
  BY TxsAre
<1>1. /\ proc[g].pc = "paywall" /\ Continue(g, "check")
      /\ UNCHANGED dbVars \/ Write(g, Row(Paywall, TRUE))
  BY DEF GatewayPaywall
<1>2. OthersSame(g) /\ proc'[g].pc # "idle" /\ proc'[g].start = proc[g].start
  BY <1>1, GoesOn DEF Remembers, Inv, TypeInv
<1>3. BatchesSame /\ MessagesSame
  BY <1>1, WriteOne, Names DEF BatchesSame, MessagesSame, Same, dbVars
<1>4. QED
  BY <1>1, <1>2, <1>3, GatewayMoves

LEMMA StoreAgainTimed ==
  ASSUME Inv, Inv', TimesInv, NEW g \in Gateways, StoreMessage(g), ~Fresh(g, Cur(g))
  PROVE  TimesInv'
<1> g \in Txs
  BY TxsAre
<1>1. PICK c : c = ChatOf[Cur(g)]
  OBVIOUS
<1>2. /\ proc[g].pc = "store" /\ Continue(g, "check")
      /\ Write(g, [x \in {Chat(c)} |-> IF new[x] = "NONE" THEN "AI_ACTIVE" ELSE new[x]])
  BY <1>1 DEF StoreMessage, UpsertLocks
<1>3. OthersSame(g) /\ proc'[g].pc # "idle" /\ proc'[g].start = proc[g].start
  BY <1>2, GoesOn DEF Remembers, Inv, TypeInv
<1>4. BatchesSame /\ MessagesSame
  BY <1>2, Names DEF BatchesSame, MessagesSame, Same, Write
<1>5. QED
  BY <1>2, <1>3, <1>4, GatewayMoves

LEMMA StoreFreshTimed ==
  ASSUME Inv, Inv', TimesInv, NEW g \in Gateways, StoreMessage(g), Fresh(g, Cur(g))
  PROVE  TimesInv'
<1> g \in Txs /\ g \notin Workers
  BY TxsAre
<1>1. PICK m, c, stored : /\ m = Cur(g) /\ c = ChatOf[m]
                          /\ stored = [at |-> proc[g].start, gated |-> proc[g].gate]
  OBVIOUS
<1>2. /\ proc[g].pc = "store" /\ new[Msg(m)] = NoMsg
      /\ Write(g, Both([x \in {Chat(c)} |-> IF new[x] = "NONE" THEN "AI_ACTIVE" ELSE new[x]],
                       Row(Msg(m), stored)))
      /\ proc' = [proc EXCEPT ![g].counted = TRUE,
                              ![g].pc = IF proc[g].gate THEN "paywall" ELSE "batch"]
  BY <1>1 DEF StoreMessage, UpsertLocks, Fresh
<1>3. m \in Messages
  BY <1>1, <1>2, CurIs DEF Inv, TypeInv
<1>4. /\ db' = db /\ new'[Msg(m)] = stored
      /\ \A x \in RowIds \ {Chat(c), Msg(m)} : new'[x] = new[x] /\ holder'[x] = holder[x]
      /\ holder'[Msg(m)] = g
  BY <1>2, <1>3, Names DEF Write, Both, Row
<1>5. BatchesSame /\ \A k \in Messages \ {m} : Same(Msg(k))
  BY <1>4, Names DEF BatchesSame, Same
<1>6. OthersSame(g) /\ proc'[g].pc # "idle" /\ proc'[g].start = proc[g].start
  <2>1. /\ OthersSame(g)
        /\ proc'[g] = [proc[g] EXCEPT !.counted = TRUE,
                                      !.pc = IF proc[g].gate THEN "paywall" ELSE "batch"]
    BY <1>2 DEF OthersSame, Inv, TypeInv, ProcsSound
  <2>2. DOMAIN proc[g] = DOMAIN Idle
    BY DEF Inv, TypeInv, ProcsSound, ProcSound
  <2>3. QED
    BY <2>1, <2>2 DEF Idle
<1>7. \A b \in Batches : m \notin new[Batch(b)].joined
  BY <1>2, <1>3 DEF Inv, CountInv, JoinedOnce, Stored, NoMsg
<1>8. ASSUME NEW k \in Messages PROVE MessageKept(k)
  <2>1. CASE k = m
    <3>1. MessageTimed(m)'
      BY <1>1, <1>4, <1>6 DEF MessageTimed
    <3>2. QED
      BY <1>5, <1>7, <2>1, <3>1 DEF MessageKept, BatchesSame, Same
  <2>2. CASE k # m
    BY <1>5, <2>2 DEF MessageKept
  <2>3. QED
    BY <2>1, <2>2
<1>9. GatewayTimed(g)'
  BY <1>2, <1>4, <1>5, <1>6 DEF TimesInv, Timed, GatewayTimed, BatchesSame, Same
<1>10. StillTimed(g)
  BY <1>6, <1>9 DEF StillTimed
<1>11. Timed'
  <2>1. /\ \A k \in Messages : db'[Msg(k)] = db[Msg(k)] /\ MessageKept(k)
        /\ \A b \in Batches : db'[Batch(b)] = db[Batch(b)] /\ BatchKept(g, b)
    BY <1>4, <1>5, <1>8 DEF BatchKept, BatchesSame
  <2>2. QED
    BY <1>6, <1>10, <2>1, TimedStep DEF TimesInv
<1>12. InTurn'
  <2>1. \A b \in Batches : SameBatch(b)
    BY <1>5 DEF BatchesSame, Same, SameBatch
  <2>2. QED
    BY <1>4, <2>1, TurnsKept DEF TimesInv
<1>13. QED
  BY <1>11, <1>12 DEF TimesInv

(* A batch is written, and stays in its chat and as old as it was.         *)
LEMMA BatchWritten ==
  ASSUME Inv, Inv', TimesInv, NEW t \in Txs, NEW b \in Batches,
         db' = db, MessagesSame, \A k \in Batches \ {b} : Same(Batch(k)),
         holder'[Batch(b)] = t,
         new[Batch(b)].status # "NONE", new'[Batch(b)].chat = new[Batch(b)].chat,
         new'[Batch(b)].opened = new[Batch(b)].opened,
         RowTimed(new'[Batch(b)]),
         \A m \in new'[Batch(b)].joined : new[Batch(b)].opened <= new'[Msg(m)].at,
         OthersSame(t), StillTimed(t)
  PROVE  TimesInv'
<1>1. BatchTimed(b) /\ new[Batch(b)].opened > 0
  BY DEF TimesInv, Timed, BatchTimed
<1>2. BatchTimed(b)'
  <2>1. RowTimed(db[Batch(b)])' /\ RowTimed(new[Batch(b)])'
    BY <1>1 DEF BatchTimed, RowTimed, TextTimed
  <2>2. QED
    BY <1>1, <2>1 DEF BatchTimed
<1>3. ASSUME NEW g \in Gateways \ {t}, proc[g].pc # "idle"
      PROVE  new'[Batch(b)].opened <= proc[g].start
  BY <1>3 DEF TimesInv, Timed, GatewayTimed
<1>4. \A k \in Batches : db'[Batch(k)] = db[Batch(k)] /\ BatchKept(t, k)
  BY <1>2, <1>3 DEF BatchKept
<1>5. \A m \in Messages : db'[Msg(m)] = db[Msg(m)] /\ MessageKept(m)
  BY DEF MessagesSame, MessageKept
<1>6. Timed'
  BY <1>4, <1>5, TimedStep DEF TimesInv
<1>7. InTurn'
  <2>1. \A k \in Batches : SameBatch(k)
    BY DEF SameBatch, Same
  <2>2. QED
    BY <1>5, <2>1, TurnsKept DEF TimesInv
<1>8. QED
  BY <1>6, <1>7 DEF TimesInv

LEMMA ExtendBatchTimed ==
  ASSUME Inv, Inv', TimesInv, NEW g \in Gateways, ExtendBatch(g)
  PROVE  TimesInv'
<1> g \in Txs /\ g \notin Workers
  BY TxsAre
<1>1. PICK b \in Batches : b = proc[g].found
  BY DEF Inv, TypeInv, ProcsSound, ProcSound, GatewaySound, ExtendBatch
<1>2. PICK m, row : m = Cur(g) /\ row = [new[Batch(b)] EXCEPT !.count = @ + 1, !.joined = @ \cup {m}]
  OBVIOUS
<1>3. /\ proc[g].pc = "extend" /\ Continue(g, "check") /\ Write(g, Row(Batch(b), row))
  BY <1>1, <1>2 DEF ExtendBatch
<1>4. Joining(g) /\ m \in Messages /\ new[Batch(b)] \in BatchRecords
  BY <1>2, <1>3, CurIs, TimesAre DEF Joining, Inv, TypeInv
<1>5. /\ row.joined = new[Batch(b)].joined \cup {m} /\ row.text = new[Batch(b)].text
      /\ row.chat = new[Batch(b)].chat /\ row.opened = new[Batch(b)].opened
      /\ row.asked = new[Batch(b)].asked /\ row.ready = new[Batch(b)].ready
  BY <1>2, <1>4 DEF BatchRecords
<1>6. /\ db' = db /\ new'[Batch(b)] = row /\ holder'[Batch(b)] = g
      /\ \A k \in Batches \ {b} : Same(Batch(k))
      /\ MessagesSame
  <2>1. /\ db' = db /\ new'[Batch(b)] = row /\ holder'[Batch(b)] = g
        /\ \A x \in RowIds \ {Batch(b)} : new'[x] = new[x] /\ holder'[x] = holder[x]
    BY <1>3, WriteOne, Names
  <2>2. QED
    BY <2>1, Names DEF Same, MessagesSame
<1>7. new[Batch(b)].status # "NONE"
  BY <1>1, <1>3 DEF Inv, SerialInv, Guarded, FoundBatch
<1>8. OthersSame(g) /\ proc'[g].pc # "idle" /\ proc'[g].start = proc[g].start
  BY <1>3, GoesOn DEF Remembers, Inv, TypeInv
<1>9. BatchTimed(b) /\ GatewayTimed(g) /\ MessageTimed(m)
  BY <1>4 DEF TimesInv, Timed
<1>10. RowTimed(row)
  BY <1>5, <1>9 DEF BatchTimed, RowTimed, TextTimed
<1>11. new[Msg(m)].at = proc[g].start
  BY <1>2, <1>4, <1>9, NoTxIsNoTx DEF Inv, CountInv, JoinersAreNew, MessageTimed
<1>12. \A k \in row.joined : new[Batch(b)].opened <= new'[Msg(k)].at
  <2>1. ASSUME NEW k \in row.joined PROVE new[Batch(b)].opened <= new[Msg(k)].at
    <3>1. CASE k = m
      BY <1>3, <1>9, <1>11, <3>1 DEF GatewayTimed
    <3>2. CASE k # m
      BY <1>5, <1>9, <3>2 DEF BatchTimed
    <3>3. QED
      BY <3>1, <3>2
  <2>2. row.joined \subseteq Messages
    BY <1>4, <1>5 DEF BatchRecords
  <2>3. QED
    BY <1>6, <2>1, <2>2 DEF MessagesSame, Same
<1>13. GatewayTimed(g)'
  <2>1. \A k \in Batches : new'[Batch(k)].opened = new[Batch(k)].opened
    BY <1>5, <1>6 DEF Same
  <2>2. QED
    BY <1>3, <1>6, <1>8, <1>9, <2>1 DEF GatewayTimed
<1>14. StillTimed(g)
  BY <1>8, <1>13 DEF StillTimed
<1>15. QED
  BY <1>5, <1>6, <1>7, <1>8, <1>10, <1>12, <1>14, BatchWritten

LEMMA FindBatchFoundTimed ==
  ASSUME Inv, Inv', TimesInv, NEW g \in Gateways, FindBatch(g), UNCHANGED dbVars,
         \E b \in Batches : proc' = [proc EXCEPT ![g].pc = "extend", ![g].found = b]
  PROVE  TimesInv'
<1> g \in Txs
  BY TxsAre
<1>1. PICK b \in Batches : proc' = [proc EXCEPT ![g].pc = "extend", ![g].found = b]
  OBVIOUS
<1>2. OthersSame(g) /\ proc'[g] = [proc[g] EXCEPT !.pc = "extend", !.found = b]
  BY <1>1 DEF OthersSame, Inv, TypeInv, ProcsSound
<1>3. DOMAIN proc[g] = DOMAIN Idle
  BY DEF Inv, TypeInv, ProcsSound, ProcSound
<1>4. proc'[g].pc = "extend" /\ proc'[g].start = proc[g].start
  BY <1>2, <1>3 DEF Idle
<1>5. BatchesSame /\ MessagesSame
  BY ReadsOnly DEF Inv, TypeInv
<1>6. proc[g].pc = "batch"
  BY DEF FindBatch
<1>7. QED
  BY <1>2, <1>4, <1>5, <1>6, GatewayMoves

(* Where a gateway sees no OPEN batch, all the batches of the chat were    *)
(* processed before its transaction began.                                 *)
LEMMA OthersAreProcessed ==
  ASSUME Inv, OneGateway, NEW g \in Gateways, proc[g].pc = "batch",
         OpenBatches(g, ChatOf[Cur(g)]) = {},
         NEW k \in Batches, new[Batch(k)].status # "NONE", new[Batch(k)].chat = ChatOf[Cur(g)]
  PROVE  db[Batch(k)].status = "PROCESSED"
<1>1. ~(Sees(g, Batch(k)).status = "OPEN" /\ Sees(g, Batch(k)).chat = ChatOf[Cur(g)])
  BY DEF OpenBatches
<1>2. /\ db[Batch(k)].status \in {"NONE", "OPEN", "PROCESSED"}
      /\ db[Batch(k)].status # "NONE" => new[Batch(k)].chat = db[Batch(k)].chat
  BY DEF Inv, SerialInv, Committed
<1>3. CASE holder[Batch(k)] = g
  <2>1. GatewayHolds(g, k)
    BY <1>3 DEF Inv, SerialInv, Holders
  <2>2. QED
    BY <1>1, <1>2, <1>3, <2>1 DEF GatewayHolds, Sees
<1>4. CASE holder[Batch(k)] \in Workers
  <2>1. db[Batch(k)].status = "OPEN"
    BY <1>4 DEF Inv, SerialInv, Holders, WorkerHolds
  <2>2. holder[Batch(k)] # g
    BY <1>4, TxsAre
  <2>3. QED
    BY <1>1, <1>2, <2>1, <2>2 DEF Sees
<1>5. CASE holder[Batch(k)] = NoTx
  <2>1. new[Batch(k)] = db[Batch(k)] /\ holder[Batch(k)] # g
    BY <1>5, Names, NoTxIsNoTx, TxsAre DEF Inv, TypeInv, RowsSound, UnlockedIsCommitted
  <2>2. QED
    BY <1>1, <1>2, <2>1 DEF Sees
<1>6. QED
  BY <1>3, <1>4, <1>5, TxsAre, Names DEF OneGateway, Inv, TypeInv, RowsSound

LEMMA FindBatchInsertTimed ==
  ASSUME Inv, Inv', TimesInv, OneGateway, NEW g \in Gateways, proc[g].pc = "batch",
         OpenBatches(g, ChatOf[Cur(g)]) = {}, Continue(g, "check"),
         Write(g, Row(Batch(NewBatch),
                [NoBatch EXCEPT !.status = "OPEN", !.chat = ChatOf[Cur(g)],
                                !.opened = proc[g].start,
                                !.count = 1, !.joined = {Cur(g)}]))
  PROVE  TimesInv'
<1> g \in Txs /\ g \notin Workers
  BY TxsAre
<1>1. PICK n \in Batches :
        n = NewBatch /\ new[Batch(n)] = NoBatch /\ db[Batch(n)] = NoBatch
  BY FreeBatch, FreeBatchIsFree
<1>2. PICK m, row : /\ m = Cur(g)
                    /\ row = [NoBatch EXCEPT !.status = "OPEN", !.chat = ChatOf[m],
                                !.opened = proc[g].start, !.count = 1, !.joined = {m}]
  OBVIOUS
<1>3. /\ row.status = "OPEN" /\ row.chat = ChatOf[m] /\ row.opened = proc[g].start
      /\ row.joined = {m} /\ row.text = {} /\ row.asked = FALSE
  BY <1>2 DEF NoBatch
<1>4. /\ db' = db /\ new'[Batch(n)] = row /\ holder'[Batch(n)] = g
      /\ \A k \in Batches \ {n} : Same(Batch(k))
      /\ MessagesSame
  <2>1. Write(g, Row(Batch(n), row))
    BY <1>1, <1>2
  <2>2. /\ db' = db /\ new'[Batch(n)] = row /\ holder'[Batch(n)] = g
        /\ \A x \in RowIds \ {Batch(n)} : new'[x] = new[x] /\ holder'[x] = holder[x]
    BY <2>1, WriteOne, Names
  <2>3. QED
    BY <2>2, Names DEF Same, MessagesSame
<1>5. OthersSame(g) /\ proc'[g].pc # "idle" /\ proc'[g].start = proc[g].start
  BY GoesOn DEF Remembers, Inv, TypeInv
<1>6. m \in Messages /\ Joining(g) /\ proc[g].start > 0 /\ proc[g].start \in Nat
  BY <1>2, CurIs DEF Joining, Inv, TypeInv, ProcsSound, ProcSound, GatewaySound
<1>7. new'[Msg(m)].at = proc[g].start
  <2>1. holder[Msg(m)] = g /\ MessageTimed(m)
    BY <1>2, <1>6 DEF Inv, CountInv, JoinersAreNew, TimesInv, Timed
  <2>2. QED
    BY <1>4, <1>6, <2>1, NoTxIsNoTx DEF MessageTimed, MessagesSame, Same
<1>8. BatchTimed(n)'
  <2>1. RowTimed(db[Batch(n)])'
    BY <1>1, <1>4 DEF RowTimed, TextTimed, NoBatch
  <2>2. RowTimed(new[Batch(n)])'
    BY <1>3, <1>4 DEF RowTimed, TextTimed
  <2>3. db'[Batch(n)].status = "NONE"
    BY <1>1, <1>4 DEF NoBatch
  <2>4. \A k \in new'[Batch(n)].joined : new'[Batch(n)].opened <= new'[Msg(k)].at
    BY <1>3, <1>4, <1>6, <1>7
  <2>5. new'[Batch(n)].opened > 0
    BY <1>3, <1>4, <1>6
  <2>6. QED
    BY <2>1, <2>2, <2>3, <2>4, <2>5 DEF BatchTimed
<1>9. GatewayTimed(g)
  BY DEF TimesInv, Timed
<1>10. GatewayTimed(g)'
  <2>1. \A k \in Batches : new'[Batch(k)].opened <= proc[g].start
    BY <1>3, <1>4, <1>6, <1>9 DEF GatewayTimed, Same
  <2>2. QED
    BY <1>4, <1>5, <1>9, <2>1 DEF GatewayTimed
<1>11. StillTimed(g)
  BY <1>5, <1>10 DEF StillTimed
<1>12. Timed'
  <2>1. \A k \in Batches : db'[Batch(k)] = db[Batch(k)] /\ BatchKept(g, k)
    BY <1>4, <1>8 DEF BatchKept, OneGateway
  <2>2. \A k \in Messages : db'[Msg(k)] = db[Msg(k)] /\ MessageKept(k)
    BY <1>4 DEF MessagesSame, MessageKept
  <2>3. QED
    BY <1>5, <1>11, <2>1, <2>2, TimedStep DEF TimesInv
<1>13. ASSUME NEW k \in Batches, k # n, new'[Batch(k)].status # "NONE",
              new'[Batch(k)].chat = new'[Batch(n)].chat
       PROVE  OpenedAfter(n, k)'
  <2>1. db[Batch(k)].status = "PROCESSED"
    BY <1>2, <1>3, <1>4, <1>13, OthersAreProcessed DEF Same
  <2>2. \A i \in db[Batch(k)].text : db[Msg(i)].at < proc[g].start
    BY <1>9, TimesAre DEF GatewayTimed, BatchRecords
  <2>3. QED
    BY <1>3, <1>4, <2>1, <2>2 DEF OpenedAfter
<1>14. InTurn'
  <2> SUFFICES ASSUME NEW b \in Batches, NEW k \in Batches, b # k,
                      new'[Batch(b)].chat = new'[Batch(k)].chat,
                      new'[Batch(b)].status # "NONE", new'[Batch(k)].status # "NONE"
               PROVE  OpenedAfter(k, b)' \/ OpenedAfter(b, k)'
    BY DEF InTurn
  <2>1. CASE b = n \/ k = n
    BY <1>13, <2>1
  <2>2. CASE b # n /\ k # n
    <3>1. new'[Batch(b)] = new[Batch(b)] /\ new'[Batch(k)] = new[Batch(k)]
      BY <1>4, <2>2 DEF Same
    <3>2. OpenedAfter(k, b) \/ OpenedAfter(b, k)
      BY <3>1 DEF TimesInv, InTurn
    <3>3. QED
      BY <1>4, <3>1, <3>2 DEF OpenedAfter
  <2>3. QED
    BY <2>1, <2>2
<1>15. QED
  BY <1>12, <1>14 DEF TimesInv

-----------------------------------------------------------------------------
(* The other steps of a worker.                                            *)
LEMMA AcquireLockTimed ==
  ASSUME Inv, Inv', TimesInv, NEW w \in Workers, NEW k, NEW l \in {"lock chat", "seal"},
         AcquireLock(w, k, l), proc[w].pc # "idle"
  PROVE  TimesInv'
<1> w \in Txs
  BY TxsAre
<1>1. PICK v : /\ Write(w, Row(Lock(k), v))
               /\ Goto(w, l) \/ Continue(w, "lock batch")
  BY DEF AcquireLock
<1>2. /\ OthersSame(w) /\ ~AtWork(w)'
      /\ proc'[w].start = proc[w].start
  <2>1. OthersSame(w) /\ Remembers(w) /\ proc'[w].pc \in {l, "lock batch", "commit"}
    BY <1>1, GoesTo, GoesOn DEF Inv, TypeInv
  <2>2. QED
    BY <2>1 DEF Remembers, AtWork
<1>3. BatchesSame /\ MessagesSame
  <2>1. db' = db /\ \A x \in RowIds \ {Lock(k)} : new'[x] = new[x] /\ holder'[x] = holder[x]
    BY <1>1, WriteOne
  <2>2. QED
    BY <2>1, Names DEF BatchesSame, MessagesSame, Same
<1>4. QED
  BY <1>2, <1>3, WorkerMoves

LEMMA LocksTimed ==
  ASSUME Inv, Inv', TimesInv, NEW w \in Workers, LockBatch(w) \/ LockChat(w)
  PROVE  TimesInv'
BY AcquireLockTimed DEF LockBatch, LockChat

LEMMA AskAITimed ==
  ASSUME Inv, Inv', TimesInv, NEW w \in Workers, AskAI(w)
  PROVE  TimesInv'
<1> w \in Txs
  BY TxsAre
<1>1. PICK a \in Answers : proc' = [proc EXCEPT ![w].answer = a, ![w].pc = "apply"]
  BY DEF AskAI
<1>2. proc[w].pc = "ask" /\ UNCHANGED dbVars
  BY DEF AskAI
<1>3. OthersSame(w) /\ proc'[w] = [proc[w] EXCEPT !.answer = a, !.pc = "apply"]
  BY <1>1 DEF OthersSame, Inv, TypeInv, ProcsSound
<1>4. DOMAIN proc[w] = DOMAIN Idle
  BY DEF Inv, TypeInv, ProcsSound, ProcSound
<1>5. /\ proc'[w].start = proc[w].start
      /\ proc'[w].text = proc[w].text /\ Cur(w)' = Cur(w)
  BY <1>3, <1>4 DEF Idle, Cur
<1>6. BatchesSame /\ MessagesSame
  BY <1>2, ReadsOnly DEF Inv, TypeInv
<1>7. QED
  BY <1>2, <1>3, <1>5, <1>6, WorkerMoves DEF AtWork

LEMMA LeavesBatch ==
  ASSUME Inv, NEW w \in Workers, Continue(w, "lock batch")
  PROVE  /\ OthersSame(w) /\ ~AtWork(w)'
         /\ proc'[w].start = proc[w].start
<1>1. /\ OthersSame(w) /\ Remembers(w)
      /\ proc'[w].pc = IF Tail(proc[w].todo) = <<>> THEN "commit" ELSE "lock batch"
  BY GoesOn, TxsAre DEF Inv, TypeInv
<1>2. QED
  BY <1>1 DEF Remembers, AtWork

(* The worker seals a batch: the window ends where the transaction began.  *)
LEMMA SealTimed ==
  ASSUME Inv, Inv', TimesInv, NEW w \in Workers, Seal(w)
  PROVE  TimesInv'
<1> w \in Txs /\ w \notin Gateways
  BY TxsAre
<1>1. PICK b \in Batches : b = Cur(w)
  BY CurIs DEF Seal, Inv, TypeInv
<1>2. CASE UNCHANGED dbVars /\ Continue(w, "lock batch")
  <2>1. /\ OthersSame(w) /\ ~AtWork(w)' /\ proc[w].pc # "idle"
        /\ proc'[w].start = proc[w].start
    BY <1>2, LeavesBatch DEF Seal
  <2>2. BatchesSame /\ MessagesSame
    BY <1>2, ReadsOnly DEF Inv, TypeInv
  <2>3. QED
    BY <2>1, <2>2, WorkerMoves
<1>3. CASE ~(UNCHANGED dbVars /\ Continue(w, "lock batch"))
  <2>1. PICK row : row = [new[Batch(b)] EXCEPT !.status = "SEALED", !.sealed = proc[w].start]
    OBVIOUS
  <2>2. /\ proc[w].pc = "seal" /\ new[Batch(b)].status = "OPEN"
        /\ Write(w, Row(Batch(b), row)) /\ Goto(w, "read")
    BY <1>1, <1>3, <2>1 DEF Seal, Sealable
  <2>3. new[Batch(b)] \in BatchRecords
    BY TimesAre
  <2>4. /\ row.joined = new[Batch(b)].joined /\ row.text = new[Batch(b)].text
        /\ row.chat = new[Batch(b)].chat /\ row.opened = new[Batch(b)].opened
        /\ row.asked = new[Batch(b)].asked /\ row.ready = new[Batch(b)].ready
        /\ row.sealed = proc[w].start
    BY <2>1, <2>3 DEF BatchRecords
  <2>5. /\ db' = db /\ new'[Batch(b)] = row /\ holder'[Batch(b)] = w
        /\ \A k \in Batches \ {b} : Same(Batch(k))
        /\ MessagesSame
    <3>1. /\ db' = db /\ new'[Batch(b)] = row /\ holder'[Batch(b)] = w
          /\ \A x \in RowIds \ {Batch(b)} : new'[x] = new[x] /\ holder'[x] = holder[x]
      BY <2>2, WriteOne, Names
    <3>2. QED
      BY <3>1, Names DEF Same, MessagesSame
  <2>6. /\ OthersSame(w) /\ proc'[w].pc = "read" /\ Cur(w)' = b
        /\ proc'[w].start = proc[w].start
    BY <1>1, <2>2, GoesTo DEF Remembers, Inv, TypeInv
  <2>7. BatchTimed(b)
    BY DEF TimesInv, Timed
  <2>8. RowTimed(row)
    BY <2>4, <2>7 DEF BatchTimed, RowTimed, TextTimed
  <2>9. \A m \in row.joined : new[Batch(b)].opened <= new'[Msg(m)].at
    BY <2>3, <2>4, <2>5, <2>7 DEF BatchTimed, BatchRecords, MessagesSame, Same
  <2>10. WorkTimed(w)'
    BY <2>4, <2>5, <2>6 DEF WorkTimed
  <2>11. StillTimed(w)
    BY <2>10, NoWorkersMessage DEF StillTimed
  <2>12. QED
    BY <2>2, <2>4, <2>5, <2>6, <2>8, <2>9, <2>11, BatchWritten
<1>4. QED
  BY <1>2, <1>3

(* The worker is done with his batch.                                      *)
LEMMA DoneTimed ==
  ASSUME Inv, Inv', TimesInv, NEW w \in Workers, AtWork(w), NEW b \in Batches, b = Cur(w),
         NEW ws, Write(w, ws), Batch(b) \in DOMAIN ws,
         ws[Batch(b)].chat = new[Batch(b)].chat,
         ws[Batch(b)].opened = new[Batch(b)].opened,
         ws[Batch(b)].joined = new[Batch(b)].joined,
         RowTimed(ws[Batch(b)]),
         \A k \in Batches \ {b} : Batch(k) \notin DOMAIN ws,
         \A m \in Messages : Msg(m) \notin DOMAIN ws,
         Continue(w, "lock batch")
  PROVE  TimesInv'
<1> w \in Txs /\ w \notin Gateways
  BY TxsAre
<1>1. /\ db' = db /\ new'[Batch(b)] = ws[Batch(b)] /\ holder'[Batch(b)] = w
      /\ \A k \in Batches \ {b} : Same(Batch(k))
      /\ MessagesSame
  BY Names DEF Write, Same, MessagesSame
<1>2. /\ OthersSame(w) /\ ~AtWork(w)'
      /\ proc'[w].start = proc[w].start
  BY LeavesBatch
<1>3. BatchTimed(b) /\ new[Batch(b)].status = "SEALED"
  BY AtWorkHolds DEF TimesInv, Timed
<1>4. \A m \in new'[Batch(b)].joined : new[Batch(b)].opened <= new'[Msg(m)].at
  BY <1>1, <1>3, TimesAre DEF BatchTimed, BatchRecords, MessagesSame, Same
<1>5. WorkTimed(w)'
  BY <1>2 DEF WorkTimed
<1>6. StillTimed(w)
  BY <1>5, NoWorkersMessage DEF StillTimed
<1>7. QED
  BY <1>1, <1>2, <1>3, <1>4, <1>6, BatchWritten

(* The worker reads the chat and its messages.                             *)
LEMMA ReadMessagesTimed ==
  ASSUME Inv, Inv', TimesInv, NEW w \in Workers, ReadChat(w),
         NEW b \in Batches, b = Cur(w), Sees(w, Chat(new[Batch(b)].chat)) = "AI_ACTIVE"
  PROVE  TimesInv'
<1> w \in Txs /\ w \notin Gateways
  BY TxsAre
<1>1. PICK T \in SUBSET Messages :
        T = {m \in Messages : ChatOf[m] = new[Batch(b)].chat /\ InWindow(w, Batch(b), m)}
  OBVIOUS
<1>0. proc[w].pc = "read" /\ UNCHANGED dbVars
  BY DEF ReadChat
<1>2. PICK l \in {"paywall", "ask"} :
        OthersSame(w) /\ proc'[w] = [proc[w] EXCEPT !.text = T, !.pc = l]
  <2>1. PICK l \in {"paywall", "ask"} : proc' = [proc EXCEPT ![w].text = T, ![w].pc = l]
    BY <1>1 DEF ReadChat
  <2>2. QED
    BY <2>1 DEF OthersSame, Inv, TypeInv, ProcsSound
<1>3. DOMAIN proc[w] = DOMAIN Idle
  BY DEF Inv, TypeInv, ProcsSound, ProcSound
<1>4. /\ proc'[w].text = T /\ proc'[w].pc = l /\ proc'[w].todo = proc[w].todo
      /\ proc'[w].start = proc[w].start
  BY <1>2, <1>3 DEF Idle
<1>5. Cur(w)' = b
  BY <1>4 DEF Cur
<1>6. BatchesSame /\ MessagesSame
  BY <1>0, ReadsOnly DEF Inv, TypeInv
<1>7. WorkTimed(w) /\ BatchTimed(b)
  BY DEF TimesInv, Timed
<1>8. /\ AtWork(w) /\ new[Batch(b)].sealed = proc[w].start
      /\ new[Batch(b)].status = "SEALED" /\ BatchSound(new[Batch(b)])
  BY <1>0, <1>7, AtWorkHolds DEF AtWork, WorkTimed
<1>9. new[Batch(b)].opened > 0
  BY <1>7, <1>8 DEF BatchTimed
<1>10. \A m \in Messages : Sees(w, Msg(m)) = db[Msg(m)]
  BY NoWorkersMessage DEF Sees
<1>11. TextTimed(new[Batch(b)], T)
  <2>1. ASSUME NEW m \in T
        PROVE  Stored(db[Msg(m)]) /\ ChatOf[m] = new[Batch(b)].chat
                 /\ new[Batch(b)].opened <= db[Msg(m)].at
    BY <1>1, <1>9, <1>10, <2>1, TimesAre DEF InWindow, Stored
  <2>2. QED
    BY <2>1 DEF TextTimed
<1>12. ASSUME NEW m \in new[Batch(b)].joined, db[Msg(m)].at <= new[Batch(b)].sealed
       PROVE  m \in T
  <2>1. m \in Messages /\ ChatOf[m] = new[Batch(b)].chat
    BY <1>8 DEF BatchSound, BatchRecords
  <2>2. new[Msg(m)] = db[Msg(m)]
    BY <1>8, <1>12, JoinedAreStored
  <2>3. new[Batch(b)].opened <= db[Msg(m)].at
    BY <1>7, <2>1, <2>2 DEF BatchTimed
  <2>4. QED
    BY <1>1, <1>10, <1>12, <2>1, <2>3 DEF InWindow
<1>13. WorkTimed(w)'
  <2>1. TextTimed(new[Batch(b)], T)'
    BY <1>0, <1>1, <1>11 DEF TextTimed, dbVars
  <2>2. InTime(w, new[Batch(b)])'
    BY <1>0, <1>4, <1>12 DEF InTime, dbVars
  <2>3. QED
    BY <1>0, <1>4, <1>5, <1>8, <2>1, <2>2 DEF WorkTimed, TextTimed, InTime, dbVars
<1>14. StillTimed(w)
  BY <1>13, NoWorkersMessage DEF StillTimed
<1>15. QED
  BY <1>2, <1>6, <1>14, QuietTimed

LEMMA ReadChatTimed ==
  ASSUME Inv, Inv', TimesInv, NEW w \in Workers, ReadChat(w)
  PROVE  TimesInv'
<1>1. proc[w].pc = "read" /\ AtWork(w)
  BY DEF ReadChat, AtWork
<1>2. PICK b \in Batches : b = Cur(w)
  BY <1>1, AtWorkHolds
<1>3. CASE Sees(w, Chat(new[Batch(b)].chat)) # "AI_ACTIVE"
  <2>1. PICK row : row = [new[Batch(b)] EXCEPT !.status = Skipped]
    OBVIOUS
  <2>2. Write(w, Row(Batch(b), row)) /\ Continue(w, "lock batch")
    BY <1>2, <1>3, <2>1 DEF ReadChat
  <2>3. /\ row.joined = new[Batch(b)].joined /\ row.text = new[Batch(b)].text
        /\ row.chat = new[Batch(b)].chat /\ row.opened = new[Batch(b)].opened
        /\ row.asked = new[Batch(b)].asked /\ row.ready = new[Batch(b)].ready
    BY <2>1, TimesAre DEF BatchRecords
  <2>4. RowTimed(row)
    BY <2>3 DEF TimesInv, Timed, BatchTimed, RowTimed, TextTimed
  <2>5. PICK ws : ws = Row(Batch(b), row)
    OBVIOUS
  <2>6. /\ Write(w, ws) /\ Batch(b) \in DOMAIN ws /\ ws[Batch(b)] = row
        /\ \A k \in Batches \ {b} : Batch(k) \notin DOMAIN ws
        /\ \A m \in Messages : Msg(m) \notin DOMAIN ws
    BY <2>2, <2>5, Names DEF Row
  <2>7. QED
    BY <1>1, <1>2, <2>2, <2>3, <2>4, <2>6, DoneTimed
<1>4. CASE Sees(w, Chat(new[Batch(b)].chat)) = "AI_ACTIVE"
  BY <1>2, <1>4, ReadMessagesTimed
<1>5. QED
  BY <1>3, <1>4

LEMMA WorkerPaywallTimed ==
  ASSUME Inv, Inv', TimesInv, NEW w \in Workers, WorkerPaywall(w)
  PROVE  TimesInv'
<1>1. AtWork(w) /\ Continue(w, "lock batch")
  BY DEF WorkerPaywall, AtWork
<1>2. PICK b \in Batches : b = Cur(w)
  BY <1>1, AtWorkHolds
<1>3. PICK row, wall : /\ row = [new[Batch(b)] EXCEPT !.status = "PROCESSED"]
                       /\ wall = IF new[Paywall] THEN NoRow ELSE Row(Paywall, TRUE)
  OBVIOUS
<1>4. /\ row.joined = new[Batch(b)].joined /\ row.text = new[Batch(b)].text
      /\ row.chat = new[Batch(b)].chat /\ row.opened = new[Batch(b)].opened
      /\ row.asked = new[Batch(b)].asked /\ row.ready = new[Batch(b)].ready
  BY <1>3, TimesAre DEF BatchRecords
<1>5. RowTimed(row)
  BY <1>4 DEF TimesInv, Timed, BatchTimed, RowTimed, TextTimed
<1>6. PICK ws : ws = Both(Row(Batch(b), row), wall)
  OBVIOUS
<1>7. Write(w, ws)
  BY <1>2, <1>3, <1>6 DEF WorkerPaywall
<1>8. DOMAIN wall \subseteq {Paywall}
  BY <1>3 DEF NoRow, Row
<1>9. /\ Batch(b) \in DOMAIN ws /\ ws[Batch(b)] = row
      /\ DOMAIN ws \subseteq {Batch(b), Paywall}
  BY <1>6, <1>8 DEF Both, Row
<1>10. /\ \A k \in Batches \ {b} : Batch(k) \notin DOMAIN ws
       /\ \A m \in Messages : Msg(m) \notin DOMAIN ws
  BY <1>9, Names
<1>11. QED
  BY <1>1, <1>2, <1>4, <1>5, <1>7, <1>9, <1>10, DoneTimed

LEMMA ApplyAnswerTimed ==
  ASSUME Inv, Inv', TimesInv, NEW w \in Workers, ApplyAnswer(w)
  PROVE  TimesInv'
<1> w \in Txs
  BY TxsAre
<1>1. AtWork(w) /\ Continue(w, "lock batch") /\ proc[w].pc = "apply"
  BY DEF ApplyAnswer, AtWork
<1>2. PICK b \in Batches : b = Cur(w)
  BY <1>1, AtWorkHolds
<1>3. PICK a \in Answers : a = proc[w].answer
  BY <1>1 DEF Inv, TypeInv, ProcsSound, ProcSound, WorkerSound
<1>4. PICK row, c : /\ row = [new[Batch(b)] EXCEPT !.status = "PROCESSED", !.asked = TRUE,
                               !.text = proc[w].text,
                               !.ready = {m \in new[Batch(b)].joined :
                                 Sees(w, Msg(m)).at <= new[Batch(b)].sealed}]
                    /\ c = Chat(new[Batch(b)].chat)
  OBVIOUS
<1>5. PICK ws :
        /\ Write(w, ws)
        /\ \/ ws = Both(Row(Batch(b), row), Row(Reply(b), a))
           \/ ws = Row(Batch(b), row)
           \/ ws = Both(Row(Batch(b), row), Row(c, StateAfter(a)))
           \/ ws = Both(Row(Batch(b), row), Both(Row(c, StateAfter(a)), Row(Reply(b), a)))
  BY <1>2, <1>3, <1>4 DEF ApplyAnswer, Answers
<1>6. /\ row.joined = new[Batch(b)].joined /\ row.text = proc[w].text
      /\ row.chat = new[Batch(b)].chat /\ row.opened = new[Batch(b)].opened
      /\ row.ready = {m \in new[Batch(b)].joined :
                        Sees(w, Msg(m)).at <= new[Batch(b)].sealed}
  BY <1>4, TimesAre DEF BatchRecords
<1>7. RowTimed(row)
  <2>1. TextTimed(new[Batch(b)], proc[w].text) /\ InTime(w, new[Batch(b)])
    BY <1>1, <1>2 DEF TimesInv, Timed, WorkTimed
  <2>2. \A m \in new[Batch(b)].joined : Sees(w, Msg(m)) = db[Msg(m)]
    BY <1>1, <1>2, JoinedAreStored, NoWorkersMessage DEF Sees
  <2>3. QED
    BY <1>6, <2>1, <2>2 DEF RowTimed, TextTimed, InTime
<1>8. Batch(b) # c /\ Batch(b) # Reply(b)
  BY <1>4, Names
<1>9. /\ Batch(b) \in DOMAIN ws /\ ws[Batch(b)] = row
      /\ DOMAIN ws \subseteq {Batch(b), Reply(b), c}
  BY <1>5, <1>8 DEF Both, Row
<1>10. /\ \A k \in Batches \ {b} : Batch(k) \notin DOMAIN ws
       /\ \A m \in Messages : Msg(m) \notin DOMAIN ws
  BY <1>4, <1>9, Names
<1>11. QED
  BY <1>1, <1>2, <1>5, <1>6, <1>7, <1>9, <1>10, DoneTimed

-----------------------------------------------------------------------------
(* Every step.                                                             *)
LEMMA TimesInitially ==
  ASSUME Init
  PROVE  TimesInv
<1>1. /\ \A m \in Messages : /\ db[Msg(m)] = NoMsg /\ new[Msg(m)] = NoMsg
                             /\ holder[Msg(m)] = NoTx
      /\ \A b \in Batches : db[Batch(b)] = NoBatch /\ new[Batch(b)] = NoBatch
  BY Names DEF Init, Msg, Batch
<1>2. \A t \in Txs : proc[t].pc = "idle"
  BY DEF Init, Idle
<1>3. Timed
  <2>1. ASSUME NEW b \in Batches PROVE BatchTimed(b)
    BY <1>1 DEF BatchTimed, RowTimed, TextTimed, NoBatch
  <2>2. QED
    BY <1>1, <1>2, <2>1, TxsAre
       DEF Timed, GatewayTimed, MessageTimed, WorkTimed, AtWork
<1>4. InTurn
  BY <1>1 DEF InTurn, NoBatch
<1>5. QED
  BY <1>3, <1>4 DEF TimesInv

LEMMA NothingMovesTimed ==
  ASSUME Inv, Inv', TimesInv, proc' = proc, BatchesSame, MessagesSame
  PROVE  TimesInv'
<1>1. StillTimed(NoTx)
  BY NoTxIsNoTx, TxsAre DEF StillTimed
<1>2. OthersSame(NoTx)
  BY DEF OthersSame
<1>3. QED
  BY <1>1, <1>2, QuietTimed

LEMMA OutsideTimed ==
  ASSUME Inv, Inv', TimesInv,
         \/ \E h \in Webhooks : Redeliver(h)
         \/ \E k \in LockKeys : LockExpires(k)
         \/ \E c \in Chats : AgentTakes(c)
         \/ ServiceEnds
         \/ UNCHANGED vars
  PROVE  TimesInv'
<1>1. proc' = proc
  BY DEF Redeliver, LockExpires, AgentTakes, ServiceEnds, vars
<1>2. \/ UNCHANGED dbVars
      \/ \E k \in LockKeys : WriteNow(Lock(k), NoTx)
      \/ \E c \in Chats : WriteNow(Chat(c), "AGENT_ACTIVE")
  BY DEF Redeliver, LockExpires, AgentTakes, ServiceEnds, vars
<1>3. BatchesSame /\ MessagesSame
  <2>1. CASE UNCHANGED dbVars
    BY <2>1 DEF BatchesSame, MessagesSame, Same, dbVars
  <2>2. CASE \E k \in LockKeys : WriteNow(Lock(k), NoTx)
    <3>1. PICK k : WriteNow(Lock(k), NoTx)
      BY <2>2
    <3>2. QED
      BY <3>1, Names DEF WriteNow, BatchesSame, MessagesSame, Same
  <2>3. CASE \E c \in Chats : WriteNow(Chat(c), "AGENT_ACTIVE")
    <3>1. PICK c : WriteNow(Chat(c), "AGENT_ACTIVE")
      BY <2>3
    <3>2. QED
      BY <3>1, Names DEF WriteNow, BatchesSame, MessagesSame, Same
  <2>4. QED
    BY <1>2, <2>1, <2>2, <2>3
<1>4. QED
  BY <1>1, <1>3, NothingMovesTimed

LEMMA GatewayStepTimed ==
  ASSUME Inv, Inv', TimesInv, OneGateway, NEW g \in Gateways, GatewayStep(g)
  PROVE  TimesInv'
<1>1. CASE CheckClient(g)
  BY <1>1, CheckClientTimed
<1>2. CASE StoreMessage(g)
  BY <1>2, StoreFreshTimed, StoreAgainTimed
<1>3. CASE FindBatch(g)
  <2>1. CASE /\ UNCHANGED dbVars
             /\ \E b \in Batches : proc' = [proc EXCEPT ![g].pc = "extend", ![g].found = b]
    BY <1>3, <2>1, FindBatchFoundTimed
  <2>2. CASE ~(/\ UNCHANGED dbVars
               /\ \E b \in Batches :
                    proc' = [proc EXCEPT ![g].pc = "extend", ![g].found = b])
    <3>1. /\ proc[g].pc = "batch" /\ OpenBatches(g, ChatOf[Cur(g)]) = {} /\ Continue(g, "check")
          /\ Write(g, Row(Batch(NewBatch),
                [NoBatch EXCEPT !.status = "OPEN", !.chat = ChatOf[Cur(g)],
                                !.opened = proc[g].start,
                                !.count = 1, !.joined = {Cur(g)}]))
      <4>1. OpenBatches(g, ChatOf[Cur(g)]) \subseteq Batches
        BY DEF OpenBatches
      <4>2. QED
        BY <1>3, <2>2, <4>1 DEF FindBatch
    <3>2. QED
      BY <3>1, FindBatchInsertTimed
  <2>3. QED
    BY <2>1, <2>2
<1>4. CASE ExtendBatch(g)
  BY <1>4, ExtendBatchTimed
<1>5. CASE GatewayPaywall(g)
  BY <1>5, GatewayPaywallTimed
<1>6. CASE Commit(g)
  BY <1>6, CommitTimed, TxsAre
<1>7. QED
  BY <1>1, <1>2, <1>3, <1>4, <1>5, <1>6 DEF GatewayStep

LEMMA WorkerStepTimed ==
  ASSUME Inv, Inv', TimesInv, OneGateway, NEW w \in Workers, WorkerStep(w)
  PROVE  TimesInv'
<1>1. CASE LockBatch(w) \/ LockChat(w)
  BY <1>1, LocksTimed
<1>2. CASE Seal(w)
  BY <1>2, SealTimed
<1>3. CASE ReadChat(w)
  BY <1>3, ReadChatTimed
<1>4. CASE WorkerPaywall(w)
  BY <1>4, WorkerPaywallTimed
<1>5. CASE AskAI(w)
  BY <1>5, AskAITimed
<1>6. CASE ApplyAnswer(w)
  BY <1>6, ApplyAnswerTimed
<1>7. CASE Commit(w)
  BY <1>7, CommitTimed, TxsAre
<1>8. CASE BeginTick(w)
  BY <1>8, BeginTickTimed
<1>9. QED
  BY <1>1, <1>2, <1>3, <1>4, <1>5, <1>6, <1>7, <1>8 DEF WorkerStep

LEMMA TimesKept ==
  ASSUME Inv, Inv', TimesInv, OneGateway, [Next]_vars
  PROVE  TimesInv'
<1>1. CASE \E g \in Gateways : GatewayStep(g) \/ \E h \in Webhooks : Receive(g, h)
  BY <1>1, GatewayStepTimed, ReceiveTimed
<1>2. CASE \E w \in Workers : WorkerStep(w) \/ \E D \in SUBSET Batches : SelectDue(w, D)
  BY <1>2, WorkerStepTimed, SelectDueTimed
<1>3. CASE \E t \in Txs : BreakDeadlock(t) \/ Crash(t)
  BY <1>3, AbandonTimed DEF BreakDeadlock, Crash
<1>4. CASE \/ \E h \in Webhooks : Redeliver(h)
           \/ \E k \in LockKeys : LockExpires(k)
           \/ \E c \in Chats : AgentTakes(c)
           \/ ServiceEnds
           \/ UNCHANGED vars
  BY <1>4, OutsideTimed
<1>5. CASE Renumber
  BY <1>5, RenumberTimed
<1>6. QED
  BY <1>1, <1>2, <1>3, <1>4, <1>5 DEF Next

(* With one gateway process, the times of messages and batches are in      *)
(* order: the debounce windows of a chat follow one another, and each has  *)
(* every message of its batch that is no later than the worker's BEGIN.    *)
THEOREM TimesInOrder ==
  ASSUME OneGateway
  PROVE  Spec => []TimesInv
<1>1. Init => TimesInv
  BY TimesInitially
<1>2. Inv /\ Inv' /\ TimesInv /\ [Next]_vars => TimesInv'
  BY OneGateway, TimesKept
<1>3. QED
  BY <1>1, <1>2, Invariance, PTL DEF Spec

(* With one gateway process, when the AI is asked about a batch, it gets   *)
(* every message of the batch whose webhook began before the worker's      *)
(* transaction (batch_processor.py, the window of the messages it reads).  *)
THEOREM AllReadyAreAsked ==
  ASSUME OneGateway
  PROVE  Spec => []ReadyIsAsked
<1>1. TimesInv => ReadyIsAsked
  BY DEF TimesInv, Timed, BatchTimed, RowTimed, ReadyIsAsked
<1>2. QED
  BY OneGateway, <1>1, TimesInOrder, PTL

(* With one gateway process, no message is put to the AI twice: of two     *)
(* batches of a chat, the later opened after all that the earlier asked    *)
(* about.                                                                  *)
THEOREM NoneAskedTwice ==
  ASSUME OneGateway
  PROVE  Spec => []AskedOnce
<1>1. ASSUME Inv, TimesInv PROVE AskedOnce
  <2> SUFFICES ASSUME NEW b \in Batches, NEW k \in Batches, b # k, NEW m,
                      m \in db[Batch(b)].text, m \in db[Batch(k)].text
               PROVE  FALSE
    BY DEF AskedOnce
  <2>1. /\ m \in Messages /\ db[Msg(m)].at \in Nat
        /\ db[Batch(b)].opened \in Nat /\ db[Batch(k)].opened \in Nat
    BY <1>1, TimesAre DEF BatchRecords
  <2>2. \A i \in Batches : m \in db[Batch(i)].text =>
          /\ ChatOf[m] = db[Batch(i)].chat /\ db[Batch(i)].opened <= db[Msg(m)].at
          /\ db[Batch(i)].status # "NONE"
    <3>1. ASSUME NEW i \in Batches, m \in db[Batch(i)].text PROVE db[Batch(i)].status # "NONE"
      <4>1. BatchSound(db[Batch(i)])
        BY <1>1, Names DEF Inv, TypeInv, RowsSound, Sound
      <4>2. QED
        BY <3>1, <4>1 DEF BatchSound, NoBatch
    <3>2. QED
      BY <1>1, <3>1 DEF TimesInv, Timed, BatchTimed, RowTimed, TextTimed
  <2>3. \A i \in Batches : db[Batch(i)].status # "NONE" =>
          /\ new[Batch(i)].status # "NONE" /\ new[Batch(i)].chat = db[Batch(i)].chat
          /\ new[Batch(i)].opened = db[Batch(i)].opened
    BY <1>1 DEF Inv, SerialInv, Committed, TimesInv, Timed, BatchTimed
  <2>4. OpenedAfter(k, b) \/ OpenedAfter(b, k)
    BY <1>1, <2>2, <2>3 DEF TimesInv, InTurn
  <2>5. db[Msg(m)].at < db[Batch(k)].opened \/ db[Msg(m)].at < db[Batch(b)].opened
    BY <2>2, <2>3, <2>4 DEF OpenedAfter
  <2>6. QED
    BY <2>1, <2>2, <2>5
<1>2. QED
  BY OneGateway, <1>1, Invariance, TimesInOrder, PTL
=============================================================================
