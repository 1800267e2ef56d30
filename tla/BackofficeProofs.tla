-------------------------- MODULE BackofficeProofs --------------------------
(***************************************************************************)
(* What the operations API promises of its rows, for any number of         *)
(* handlers, evaluators, broadcasters, SOPs, keys, builds and requests.    *)
(***************************************************************************)
EXTENDS Backoffice, TLAPS

(* The rows that only handlers write.                                      *)
DeskRows ==
  {SopRow(s) : s \in Sops} \cup {VersionRow(s, v) : s \in Sops, v \in Versions}
    \cup {ConfigRow(k) : k \in Keys} \cup {ReleaseRow(b) : b \in Builds}

RowsOK ==
  /\ DOMAIN db = RowIds /\ DOMAIN new = RowIds /\ DOMAIN holder = RowIds
  /\ UnlockedIsCommitted
  /\ \A x \in DeskRows : holder[x] \in Handlers \cup {NoTx}

(* What a request names is there to be named.                              *)
Named(q) ==
  /\ q.op \in {"create_sop", "update_sop", "start_run"} => q.on \in Sops
  /\ q.op \in {"create_sop", "update_sop"} => q.to \in STRING
  /\ q.op = "put_config" => q.on \in Keys
  /\ q.op \in {"register", "promote"} => q.on \in Builds

DeskOK ==
  /\ DOMAIN desk = Handlers
  /\ \A h \in Handlers : DOMAIN desk[h] = DOMAIN AtDesk /\ Named(desk[h].req)
  /\ deployed \in Deployments

Base == RowsOK /\ DeskOK

(* A step that leaves the handlers' rows alone.                            *)
Quiet ==
  \A x \in DeskRows : db'[x] = db[x] /\ new'[x] = new[x] /\ holder'[x] = holder[x]

-----------------------------------------------------------------------------
LEMMA DeskRowsAreRows == DeskRows \subseteq RowIds
BY RowsAre DEF DeskRows, OpsRows

LEMMA OthersAreNoDeskRows ==
  /\ \A a : AlertRow(a) \notin DeskRows /\ AutoRow(a) \notin DeskRows
  /\ \A c : CampaignRow(c) \notin DeskRows
  /\ \A c, ch : TargetRow(c, ch) \notin DeskRows /\ QueuedRow(c, ch) \notin DeskRows
  /\ \A ch : OptInRow(ch) \notin DeskRows
  /\ PlanRow \notin DeskRows
BY DEF DeskRows, SopRow, VersionRow, ConfigRow, ReleaseRow, AlertRow, AutoRow,
       CampaignRow, TargetRow, QueuedRow, OptInRow, PlanRow

LEMMA WriteKeeps ==
  ASSUME RowsOK, NEW t \in Txs, NEW ws, Write(t, ws),
         t \in Handlers \/ DOMAIN ws \cap DeskRows = {}
  PROVE  RowsOK' /\ (t \notin Handlers => Quiet)
BY DeskRowsAreRows, NoTxIsNoTx DEF RowsOK, Write, UnlockedIsCommitted, Quiet

LEMMA EndKeeps ==
  ASSUME RowsOK, NEW t \in Txs, Publish(t) \/ Rollback(t)
  PROVE  RowsOK' /\ (t \notin Handlers => Quiet)
BY DeskRowsAreRows, NoTxIsNoTx
DEF RowsOK, Publish, Rollback, Release, UnlockedIsCommitted, Quiet

LEMMA WriteNowKeeps ==
  ASSUME RowsOK, NEW x \in RowIds \ DeskRows, NEW v, WriteNow(x, v)
  PROVE  RowsOK' /\ Quiet
BY DEF RowsOK, WriteNow, UnlockedIsCommitted, Quiet

LEMMA SameRowsKeep ==
  ASSUME RowsOK, UNCHANGED dbVars
  PROVE  RowsOK' /\ Quiet
BY DEF RowsOK, dbVars, UnlockedIsCommitted, Quiet

-----------------------------------------------------------------------------
(* What everybody but the handlers does.                                   *)
Others ==
  \/ \E e \in Evaluators : Tick(e)
  \/ \E w \in Broadcasters : Broadcast(w) \/ BroadcastDies(w)
  \/ Wait \/ OwnerActs

LEMMA EvaluatorsAreQuiet ==
  ASSUME RowsOK, NEW e \in Evaluators, Tick(e)
  PROVE  RowsOK' /\ Quiet
<1> e \in Txs /\ e \notin Handlers
  BY TxsAre, ProcessesDiffer
<1>1. CASE UNCHANGED dbVars
  BY <1>1, SameRowsKeep
<1>2. CASE Publish(e) \/ Rollback(e)
  BY <1>2, EndKeeps
<1>3. ASSUME NEW type \in Types, Record(e, type), ~UNCHANGED dbVars
      PROVE  RowsOK' /\ Quiet
  <2> DEFINE a == AlertOf(e, type)
             ws == Both(Row(AlertRow(a), "recorded"), AutoRun(e, a))
  <2>1. Write(e, ws)
    BY <1>3 DEF Record
  <2>2. DOMAIN AutoRun(e, a) \subseteq {AutoRow(a)}
    BY DEF AutoRun, Row, NoRow
  <2>3. DOMAIN ws \subseteq {AlertRow(a), AutoRow(a)}
    BY <2>2 DEF Both, Row
  <2>4. DOMAIN ws \cap DeskRows = {}
    BY <2>3, OthersAreNoDeskRows
  <2>5. QED
    BY <2>1, <2>4, WriteKeeps
<1>4. QED
  BY <1>1, <1>2, <1>3 DEF Tick, StartTick, Evaluate, EndTick, LoseEvaluation, NoSpike,
                          StatementFails

LEMMA BroadcastersAreQuiet ==
  ASSUME RowsOK, NEW w \in Broadcasters, Broadcast(w) \/ BroadcastDies(w)
  PROVE  RowsOK' /\ Quiet
<1> w \in Txs /\ w \notin Handlers
  BY TxsAre, ProcessesDiffer
<1>1. CASE UNCHANGED dbVars
  BY <1>1, SameRowsKeep
<1>2. CASE Publish(w) \/ Rollback(w)
  BY <1>2, EndKeeps
<1>3. ASSUME NEW ws, Write(w, ws),
             \A x \in DOMAIN ws : \E c, ch : x \in {CampaignRow(c), TargetRow(c, ch),
                                                    QueuedRow(c, ch)}
      PROVE  RowsOK' /\ Quiet
  <2>1. DOMAIN ws \cap DeskRows = {}
    BY <1>3, OthersAreNoDeskRows
  <2>2. QED
    BY <1>3, <2>1, WriteKeeps
<1>4. ASSUME Pick(w), ~UNCHANGED dbVars
      PROVE  RowsOK' /\ Quiet
  <2>1. PICK c : Write(w, Row(CampaignRow(c), "running"))
    BY <1>4 DEF Pick
  <2>2. QED
    BY <1>3, <2>1 DEF Row
<1>5. ASSUME SelectTargets(w)
      PROVE  RowsOK' /\ Quiet
  <2> DEFINE ws(S) == [x \in {TargetRow(send[w].campaign, ch) : ch \in S} |-> new[x]]
  <2>1. PICK S : Write(w, ws(S))
    BY <1>5 DEF SelectTargets
  <2>2. QED
    BY <1>3, <2>1
<1>6. ASSUME NEW status, Settle(w, status)
      PROVE  RowsOK' /\ Quiet
  BY <1>3, <1>6 DEF Settle, Row
<1>7. ASSUME Enqueue(w)
      PROVE  RowsOK' /\ Quiet
  <2> DEFINE c == send[w].campaign
             ws == Both(Row(QueuedRow(c, Target(w)), "PENDING"),
                        Row(TargetRow(c, Target(w)), "enqueued"))
  <2>1. Write(w, ws)
    BY <1>7 DEF Enqueue
  <2>2. DOMAIN ws = {QueuedRow(c, Target(w)), TargetRow(c, Target(w))}
    BY DEF Both, Row
  <2>3. QED
    BY <1>3, <2>1, <2>2
<1>8. ASSUME MaybeFinish(w)
      PROVE  RowsOK' /\ Quiet
  BY <1>3, <1>8 DEF MaybeFinish, Row, NoRow
<1>9. QED
  BY <1>1, <1>2, <1>4, <1>5, <1>6, <1>7, <1>8
  DEF Broadcast, BroadcastDies, BroadcastStep, LoseBroadcast, StartBroadcast, CheckPlan,
      CheckConsent, CommitBroadcast, Pick

LEMMA OwnersAreQuiet ==
  ASSUME RowsOK, OwnerActs
  PROVE  RowsOK' /\ Quiet
<1>1. ASSUME NEW c \in Campaigns, CreateCampaign(c)
      PROVE  RowsOK' /\ Quiet
  <2> DEFINE ws == Both(Row(CampaignRow(c), "queued"),
                        [x \in {TargetRow(c, ch) : ch \in Audience[c]} |-> "pending"])
  <2>1. \A x \in DOMAIN ws : \E ch : x \in {CampaignRow(c), TargetRow(c, ch)}
    BY DEF Both, Row
  <2>2. DOMAIN ws \cap DeskRows = {}
    BY <2>1, OthersAreNoDeskRows
  <2>3. /\ db' = [x \in RowIds |-> IF x \in DOMAIN ws THEN ws[x] ELSE db[x]]
        /\ new' = [x \in RowIds |-> IF x \in DOMAIN ws THEN ws[x] ELSE new[x]]
        /\ UNCHANGED holder
    BY <1>1 DEF CreateCampaign
  <2> HIDE DEF ws
  <2>4. QED
    BY <2>2, <2>3, DeskRowsAreRows DEF RowsOK, UnlockedIsCommitted, Quiet
<1>2. ASSUME NEW ch \in Chats, NEW opted, PutOptIn(ch, opted)
      PROVE  RowsOK' /\ Quiet
  <2>1. OptInRow(ch) \in RowIds \ DeskRows
    BY RowsAre, OthersAreNoDeskRows DEF CampaignRows
  <2>2. QED
    BY <1>2, <2>1, WriteNowKeeps DEF PutOptIn
<1>3. ASSUME NEW plan, ChangePlan(plan)
      PROVE  RowsOK' /\ Quiet
  <2>1. PlanRow \in RowIds \ DeskRows
    BY RowsAre, OthersAreNoDeskRows DEF CampaignRows
  <2>2. QED
    BY <1>3, <2>1, WriteNowKeeps DEF ChangePlan
<1>4. QED
  BY <1>1, <1>2, <1>3 DEF OwnerActs

LEMMA OthersAreQuiet ==
  ASSUME Base, Others
  PROVE  Base' /\ Quiet /\ UNCHANGED <<opsVars, deployed>>
<1>1. UNCHANGED <<opsVars, deployed>>
  BY DEF Others, Tick, Broadcast, BroadcastDies, Wait, OwnerActs
<1>2. RowsOK' /\ Quiet
  BY EvaluatorsAreQuiet, BroadcastersAreQuiet, OwnersAreQuiet, SameRowsKeep
  DEF Others, Base, Wait
<1>3. DeskOK'
  BY <1>1 DEF Base, DeskOK, opsVars, Named
<1>4. QED
  BY <1>1, <1>2, <1>3 DEF Base

-----------------------------------------------------------------------------
(* A handler that is not at work holds nothing to be told apart here: only *)
(* its own local state changes with a step of its.                         *)
Leaves(h) == \A g \in Handlers \ {h} : desk'[g] = desk[g]

LEMMA RefuseKeeps ==
  ASSUME Base, NEW h \in Handlers, Refuse(h), UNCHANGED deployed
  PROVE  Base' /\ Leaves(h) /\ desk'[h] = AtDesk
<1>1. RowsOK'
  BY EndKeeps, TxsAre DEF Base, Refuse
<1>2. DeskOK' /\ Leaves(h) /\ desk'[h] = AtDesk
  BY DEF Base, DeskOK, Refuse, Leaves, Named, AtDesk, NoRequest
<1>3. QED
  BY <1>1, <1>2 DEF Base

LEMMA ReceiveKeeps ==
  ASSUME Base, NEW h \in Handlers, NEW q \in deployed.requests, Receive(h, q),
         UNCHANGED deployed
  PROVE  Base' /\ Leaves(h) /\ UNCHANGED <<dbVars, done>>
         /\ desk[h].pc = "idle" /\ desk'[h].pc = "first" /\ desk'[h].req = q
<1>1. RowsOK' /\ UNCHANGED <<dbVars, done>>
  BY SameRowsKeep DEF Base, Receive
<1>2. Named(q)
  BY RequestsName DEF Base, DeskOK, Named
<1>3. DeskOK' /\ Leaves(h) /\ desk[h].pc = "idle" /\ desk'[h].pc = "first"
      /\ desk'[h].req = q
  BY <1>2 DEF Base, DeskOK, Receive, Leaves, Named, AtDesk
<1>4. QED
  BY <1>1, <1>3 DEF Base

LEMMA StatementKeeps ==
  ASSUME Base, NEW h \in Handlers, Statement(h), UNCHANGED deployed
  PROVE  Base' /\ Leaves(h)
<1> h \in Txs
  BY TxsAre
<1>1. CASE Refuse(h)
  BY <1>1, RefuseKeeps
<1>2. ASSUME ~Refuse(h)
      PROVE  RowsOK'
  <2>1. ASSUME NEW ws, Write(h, ws)
        PROVE  RowsOK'
    BY <2>1, WriteKeeps DEF Base
  <2>2. ASSUME UNCHANGED dbVars
        PROVE  RowsOK'
    BY <2>2, SameRowsKeep DEF Base
  <2>3. QED
    BY <1>2, <2>1, <2>2
    DEF Statement, CreateSop, ReadVersion, InsertVersion, UpdateSop, ReadForRun, InsertRun,
        SelectConfig, WriteConfig, RegisterRelease, FindCurrent, Demote, Promote
<1>3. ASSUME ~Refuse(h)
      PROVE  DeskOK' /\ Leaves(h)
  BY <1>3
  DEF Base, DeskOK, Leaves, Named, AtDesk, Goto,
      Statement, CreateSop, ReadVersion, InsertVersion, UpdateSop, ReadForRun, InsertRun,
      SelectConfig, WriteConfig, RegisterRelease, FindCurrent, Demote, Promote
<1>4. QED
  BY <1>1, <1>2, <1>3 DEF Base

LEMMA CommitKeeps ==
  ASSUME Base, NEW h \in Handlers, Commit(h), UNCHANGED deployed
  PROVE  /\ Base' /\ desk'[h] = AtDesk
         /\ \A g \in Handlers \ {h} :
              /\ desk'[g].pc = desk[g].pc /\ desk'[g].req = desk[g].req
              /\ desk'[g].n = desk[g].n /\ desk'[g].seen = desk[g].seen
<1>1. RowsOK'
  BY EndKeeps, TxsAre DEF Base, Commit
<1>2. /\ DeskOK' /\ desk'[h] = AtDesk
      /\ \A g \in Handlers \ {h} :
           /\ desk'[g].pc = desk[g].pc /\ desk'[g].req = desk[g].req
           /\ desk'[g].n = desk[g].n /\ desk'[g].seen = desk[g].seen
  BY DEF Base, DeskOK, Commit, Named, AtDesk, NoRequest
<1>3. QED
  BY <1>1, <1>2 DEF Base

LEMMA InitBase == Init => Base
<1> SUFFICES ASSUME Init PROVE Base
  OBVIOUS
<1>1. RowsOK
  BY DeskRowsAreRows DEF Init, RowsOK, UnlockedIsCommitted
<1>2. DeskOK
  BY DEF Init, OpsInit, DeskOK, AtDesk, Named, NoRequest
<1>3. QED
  BY <1>1, <1>2 DEF Base

-----------------------------------------------------------------------------
(* The audit of a row is a sequence of changes that explains its value.    *)
Explained(c) ==
  LET n == Len(c.trail)
  IN /\ n \in Nat /\ c.trail = [i \in 1..n |-> c.trail[i]]
     /\ \A i \in 1..(n - 1) : c.trail[i].new = c.trail[i + 1].old
     /\ n > 0 => c.trail[n].new = c.value

Told(k) ==
  /\ db[ConfigRow(k)] # None => Explained(db[ConfigRow(k)])
  /\ new[ConfigRow(k)] # None => Explained(new[ConfigRow(k)])

(* A handler about to write a key that is there has locked it, and what it *)
(* has seen is still the newest version.                                   *)
Writes(h) == Serves(h, "put_config", "write") /\ desk[h].seen # None

HasKey(h) ==
  /\ holder[ConfigRow(desk[h].req.on)] = h
  /\ new[ConfigRow(desk[h].req.on)] = desk[h].seen

AuditInv ==
  /\ \A k \in Keys : Told(k)
  /\ \A h \in Handlers : Writes(h) => HasKey(h)

LEMMA AuditGrows ==
  ASSUME NEW c, Explained(c), NEW v,
         NEW d, d = [value |-> v, trail |-> Append(c.trail, [old |-> c.value, new |-> v])]
  PROVE  Explained(d)
<1> DEFINE n == Len(c.trail)
           e == [old |-> c.value, new |-> v]
           S == {c.trail[i] : i \in 1..n} \cup {e}
<1>1. n \in Nat /\ c.trail = [i \in 1..n |-> c.trail[i]]
  BY DEF Explained
<1>2. c.trail \in Seq(S) /\ e \in S
  BY <1>1
<1>3. /\ Len(d.trail) = n + 1
      /\ \A i \in 1..n : d.trail[i] = c.trail[i]
      /\ d.trail[n + 1] = e
      /\ d.trail = [i \in 1..(n + 1) |-> d.trail[i]]
  BY <1>1, <1>2
<1>4. \A i \in 1..(n - 1) : c.trail[i].new = c.trail[i + 1].old
  BY DEF Explained
<1>5. n > 0 => c.trail[n].new = c.value
  BY DEF Explained
<1>6. \A i \in 1..n : d.trail[i].new = d.trail[i + 1].old
  <2> TAKE i \in 1..n
  <2>1. CASE i = n
    BY <1>1, <1>3, <1>5, <2>1
  <2>2. CASE i # n
    BY <1>1, <1>3, <1>4, <2>2
  <2>3. QED
    BY <2>1, <2>2
<1>7. QED
  BY <1>1, <1>3, <1>6 DEF Explained

LEMMA AuditStarts ==
  ASSUME NEW v
  PROVE  Explained([value |-> v, trail |-> <<>>])
BY DEF Explained

LEMMA QuietAudit ==
  ASSUME AuditInv, Base, Quiet, UNCHANGED desk
  PROVE  AuditInv'
<1>1. ASSUME NEW k \in Keys
      PROVE  Told(k)'
  <2>1. db'[ConfigRow(k)] = db[ConfigRow(k)] /\ new'[ConfigRow(k)] = new[ConfigRow(k)]
    BY DEF DeskRows, Quiet
  <2>2. Told(k)
    BY DEF AuditInv
  <2>3. QED
    BY <2>1, <2>2 DEF Told, Explained
<1>2. ASSUME NEW h \in Handlers, Writes(h)'
      PROVE  HasKey(h)'
  <2>1. Writes(h) /\ HasKey(h) /\ desk[h].req.on \in Keys
    BY <1>2 DEF AuditInv, Writes, Serves, Base, DeskOK, Named
  <2>2. QED
    BY <2>1 DEF HasKey, Quiet, DeskRows
<1>3. QED
  BY <1>1, <1>2 DEF AuditInv

(* Other handlers hold what they are about to write, so a handler that     *)
(* leaves the configuration alone, or ends its transaction, does no harm.  *)
LEMMA FrameAudit ==
  ASSUME AuditInv, Base, NEW h \in Handlers,
         \A k \in Keys :
           LET x == ConfigRow(k)
           IN \/ db'[x] = db[x] /\ new'[x] = new[x] /\ holder'[x] = holder[x]
              \/ holder[x] = h /\ db'[x] \in {db[x], new[x]} /\ new'[x] \in {db[x], new[x]},
         \A g \in Handlers \ {h} :
           desk'[g].pc = desk[g].pc /\ desk'[g].req = desk[g].req /\ desk'[g].seen = desk[g].seen,
         ~Writes(h)'
  PROVE  AuditInv'
<1>1. ASSUME NEW k \in Keys
      PROVE  Told(k)'
  <2>1. /\ db'[ConfigRow(k)] \in {db[ConfigRow(k)], new[ConfigRow(k)]}
        /\ new'[ConfigRow(k)] \in {db[ConfigRow(k)], new[ConfigRow(k)]}
    OBVIOUS
  <2>2. Told(k)
    BY DEF AuditInv
  <2>3. db'[ConfigRow(k)] # None => Explained(db'[ConfigRow(k)])
    BY <2>1, <2>2 DEF Told
  <2>4. new'[ConfigRow(k)] # None => Explained(new'[ConfigRow(k)])
    BY <2>1, <2>2 DEF Told
  <2>5. QED
    BY <2>3, <2>4 DEF Told, Explained
<1>2. ASSUME NEW g \in Handlers, Writes(g)'
      PROVE  HasKey(g)'
  <2>1. g # h
    BY <1>2
  <2>2. Writes(g) /\ desk'[g].req = desk[g].req /\ desk'[g].seen = desk[g].seen
    BY <1>2, <2>1 DEF Writes, Serves
  <2>3. HasKey(g) /\ desk[g].req.on \in Keys
    BY <2>2 DEF AuditInv, Writes, Serves, Base, DeskOK, Named
  <2>4. QED
    BY <2>1, <2>2, <2>3 DEF HasKey
<1>3. QED
  BY <1>1, <1>2 DEF AuditInv

LEMMA RefuseAudit ==
  ASSUME AuditInv, Base, NEW h \in Handlers, Refuse(h), UNCHANGED deployed
  PROVE  AuditInv'
<1>1. Base' /\ Leaves(h) /\ desk'[h] = AtDesk
  BY RefuseKeeps
<1>2. ~Writes(h)'
  BY <1>1 DEF Writes, Serves, AtDesk
<1>3. \A k \in Keys : ConfigRow(k) \in RowIds
  BY DeskRowsAreRows DEF DeskRows
<1>4. \A k \in Keys :
        LET x == ConfigRow(k)
        IN \/ db'[x] = db[x] /\ new'[x] = new[x] /\ holder'[x] = holder[x]
           \/ holder[x] = h /\ db'[x] \in {db[x], new[x]} /\ new'[x] \in {db[x], new[x]}
  BY <1>3 DEF Refuse, Rollback, Release
<1>5. QED
  BY <1>1, <1>2, <1>4, FrameAudit DEF Leaves

LEMMA OtherStatementsAudit ==
  ASSUME AuditInv, Base, NEW h \in Handlers, Statement(h), UNCHANGED deployed,
         ~SelectConfig(h), ~WriteConfig(h), ~Refuse(h)
  PROVE  AuditInv'
<1>1. Base' /\ Leaves(h)
  BY StatementKeeps
<1>2. ~Writes(h)'
  BY DEF Base, DeskOK, AtDesk, Goto, Writes, Serves,
         Statement, CreateSop, ReadVersion, InsertVersion, UpdateSop, ReadForRun, InsertRun,
         RegisterRelease, FindCurrent, Demote, Promote
<1>3. \A k \in Keys : ConfigRow(k) \in RowIds
  BY DeskRowsAreRows DEF DeskRows
<1>4. ASSUME NEW ws, Write(h, ws), \A k \in Keys : ConfigRow(k) \notin DOMAIN ws
      PROVE  AuditInv'
  BY <1>1, <1>2, <1>3, <1>4, FrameAudit DEF Write, Leaves, Base, RowsOK
<1>5. CASE UNCHANGED dbVars
  BY <1>1, <1>2, <1>5, FrameAudit DEF dbVars, Leaves
<1>6. CASE CreateSop(h)
  <2> DEFINE s == desk[h].req.on
             ws == Both(Row(SopRow(s), [current |-> 1, status |-> desk[h].req.to,
                                        by |-> desk[h].n]),
                        Row(VersionRow(s, 1), desk[h].n))
  <2>1. Write(h, ws)
    BY <1>6 DEF CreateSop
  <2>2. DOMAIN ws = {SopRow(s), VersionRow(s, 1)}
    BY DEF Both, Row
  <2>3. QED
    BY <1>4, <2>1, <2>2 DEF SopRow, VersionRow, ConfigRow
<1>7. ASSUME NEW x, x[1] # "config", NEW v, Write(h, Row(x, v))
      PROVE  AuditInv'
  BY <1>4, <1>7 DEF Row, ConfigRow
<1>8. CASE InsertVersion(h) \/ UpdateSop(h) \/ InsertRun(h)
  BY <1>7, <1>8 DEF InsertVersion, UpdateSop, InsertRun, SopRow, VersionRow, RunRow
<1>9. CASE RegisterRelease(h) \/ Promote(h)
  BY <1>5, <1>7, <1>9 DEF RegisterRelease, Promote, ReleaseRow
<1>10. CASE Demote(h)
  <2>1. PICK b : Write(h, IF new[ReleaseRow(b)] = "current"
                            THEN Row(ReleaseRow(b), "rolled_back") ELSE NoRow)
    BY <1>10 DEF Demote
  <2>2. CASE new[ReleaseRow(b)] = "current"
    BY <1>7, <2>1, <2>2 DEF ReleaseRow
  <2>3. CASE new[ReleaseRow(b)] # "current"
    BY <1>4, <2>1, <2>3 DEF NoRow
  <2>4. QED
    BY <2>2, <2>3
<1>11. QED
  BY <1>5, <1>6, <1>8, <1>9, <1>10 DEF Statement, ReadVersion, ReadForRun, FindCurrent

(* The SELECT locks a row that is there, and nobody else is about to write *)
(* a row that it could lock.                                               *)
LEMMA SelectAudit ==
  ASSUME AuditInv, Base, NEW h \in Handlers, SelectConfig(h), UNCHANGED <<posted, done, deployed>>
  PROVE  AuditInv'
<1> DEFINE x == ConfigRow(desk[h].req.on)
           locks == ConfigLocks(h, x)
<1>1. Leaves(h)
  BY StatementKeeps DEF Statement
<1>2. x \in RowIds /\ desk[h].req.on \in Keys
  BY DeskRowsAreRows DEF DeskRows, SelectConfig, Serves, Base, DeskOK, Named
<1>3. /\ \A k \in Keys : db'[ConfigRow(k)] = db[ConfigRow(k)]
                         /\ new'[ConfigRow(k)] = new[ConfigRow(k)]
      /\ \A y \in RowIds \ {x} : holder'[y] = holder[y]
  BY DeskRowsAreRows DEF DeskRows, SelectConfig, Write, ConfigLocks, Base, RowsOK
<1>4. ASSUME NEW k \in Keys
      PROVE  Told(k)'
  <2>1. Told(k)
    BY DEF AuditInv
  <2>2. QED
    BY <1>3, <2>1 DEF Told, Explained
<1>5. ASSUME Writes(h)'
      PROVE  HasKey(h)'
  <2>1. CASE locks = {}
    <3>1. desk'[h].seen = None
      BY <2>1 DEF SelectConfig, Base, DeskOK, AtDesk, ConfigLocks
    <3>2. QED
      BY <1>5, <3>1 DEF Writes
  <2>2. CASE locks # {}
    <3>1. locks = {x}
      BY <2>2 DEF ConfigLocks
    <3>2. desk'[h].seen = new[x] /\ desk'[h].req = desk[h].req
      BY <3>1 DEF SelectConfig, Base, DeskOK, AtDesk
    <3>3. holder'[x] = h
      BY <3>1, <1>2 DEF SelectConfig, Write
    <3>4. QED
      BY <1>2, <1>3, <3>2, <3>3 DEF HasKey
  <2>3. QED
    BY <2>1, <2>2
<1>6. ASSUME NEW g \in Handlers \ {h}, Writes(g)'
      PROVE  HasKey(g)'
  <2>1. desk'[g] = desk[g] /\ Writes(g)
    BY <1>1, <1>6 DEF Leaves, Writes, Serves
  <2>2. HasKey(g) /\ desk[g].req.on \in Keys
    BY <2>1 DEF AuditInv, Writes, Serves, Base, DeskOK, Named
  <2>3. CASE locks = {} \/ ConfigRow(desk[g].req.on) # x
    <3>1. holder'[ConfigRow(desk[g].req.on)] = holder[ConfigRow(desk[g].req.on)]
      BY <1>2, <1>3, <2>2, <2>3, DeskRowsAreRows DEF DeskRows, SelectConfig, Write
    <3>2. QED
      BY <1>3, <2>1, <2>2, <3>1 DEF HasKey
  <2>4. CASE locks # {} /\ ConfigRow(desk[g].req.on) = x
    <3>1. CanLock(h, x)
      BY <2>4 DEF SelectConfig, ConfigLocks
    <3>2. holder[x] = g /\ g # NoTx
      BY <2>2, <2>4, TxsAre, NoTxIsNoTx DEF HasKey
    <3>3. QED
      BY <3>1, <3>2 DEF CanLock
  <2>5. QED
    BY <2>3, <2>4
<1>7. QED
  BY <1>4, <1>5, <1>6 DEF AuditInv

LEMMA WriteAudit ==
  ASSUME AuditInv, Base, NEW h \in Handlers, WriteConfig(h), ~Refuse(h),
         UNCHANGED <<posted, done, deployed>>
  PROVE  AuditInv'
<1> DEFINE k0 == desk[h].req.on
           x == ConfigRow(k0)
           old == desk[h].seen
           v == desk[h].req.to
           d == [value |-> v,
                 trail |-> IF old = None THEN <<>>
                           ELSE Append(new[x].trail, [old |-> old.value, new |-> v])]
<1>1. Leaves(h)
  BY StatementKeeps DEF Statement
<1>2. x \in RowIds /\ k0 \in Keys
  BY DeskRowsAreRows DEF DeskRows, WriteConfig, Serves, Base, DeskOK, Named
<1>3. Write(h, Row(x, d)) /\ CanLock(h, x) /\ desk'[h].pc = "commit"
  BY DEF WriteConfig, Goto, Base, DeskOK, AtDesk
<1>4. /\ db' = db /\ new'[x] = d /\ holder'[x] = h
      /\ \A y \in RowIds \ {x} : new'[y] = new[y] /\ holder'[y] = holder[y]
  BY <1>2, <1>3 DEF Write, Row
<1>5. Explained(d)
  <2>1. CASE old = None
    BY <2>1, AuditStarts
  <2>2. CASE old # None
    <3>1. new[x] = old
      BY <2>2 DEF WriteConfig, AuditInv, Writes, HasKey
    <3>2. Explained(new[x])
      BY <1>2, <2>2, <3>1 DEF AuditInv, Told
    <3>3. d = [value |-> v, trail |-> Append(new[x].trail, [old |-> new[x].value, new |-> v])]
      BY <2>2, <3>1
    <3> HIDE DEF d, v, x
    <3>4. QED
      BY <3>2, <3>3, AuditGrows
  <2>3. QED
    BY <2>1, <2>2
<1> HIDE DEF d
<1>6. ASSUME NEW k \in Keys
      PROVE  Told(k)'
  <2>1. Told(k) /\ ConfigRow(k) \in RowIds
    BY DeskRowsAreRows DEF AuditInv, DeskRows
  <2>2. new'[ConfigRow(k)] \in {d, new[ConfigRow(k)]} /\ db'[ConfigRow(k)] = db[ConfigRow(k)]
    BY <1>4, <2>1
  <2>3. new'[ConfigRow(k)] # None => Explained(new'[ConfigRow(k)])
    BY <1>5, <2>1, <2>2 DEF Told
  <2>4. db'[ConfigRow(k)] # None => Explained(db'[ConfigRow(k)])
    BY <2>1, <2>2 DEF Told
  <2>5. QED
    BY <2>3, <2>4 DEF Told, Explained
<1>7. ASSUME NEW g \in Handlers, Writes(g)'
      PROVE  HasKey(g)'
  <2>1. g # h
    BY <1>3, <1>7 DEF Writes, Serves
  <2>2. desk'[g] = desk[g] /\ Writes(g)
    BY <1>1, <1>7, <2>1 DEF Leaves, Writes, Serves
  <2>3. HasKey(g) /\ desk[g].req.on \in Keys /\ g # NoTx
    BY <2>2, TxsAre, NoTxIsNoTx DEF AuditInv, Writes, Serves, Base, DeskOK, Named
  <2>4. ConfigRow(desk[g].req.on) # x
    BY <1>3, <2>1, <2>3 DEF HasKey, CanLock
  <2>5. ConfigRow(desk[g].req.on) \in RowIds
    BY <2>3, DeskRowsAreRows DEF DeskRows
  <2>6. QED
    BY <1>4, <2>2, <2>3, <2>4, <2>5 DEF HasKey
<1>8. QED
  BY <1>6, <1>7 DEF AuditInv

LEMMA CommitAudit ==
  ASSUME AuditInv, Base, NEW h \in Handlers, Commit(h), UNCHANGED deployed
  PROVE  AuditInv'
<1>1. /\ desk'[h] = AtDesk
      /\ \A g \in Handlers \ {h} :
           desk'[g].pc = desk[g].pc /\ desk'[g].req = desk[g].req /\ desk'[g].seen = desk[g].seen
  BY CommitKeeps
<1>2. ~Writes(h)'
  BY <1>1 DEF Writes, Serves, AtDesk
<1>3. \A k \in Keys : ConfigRow(k) \in RowIds
  BY DeskRowsAreRows DEF DeskRows
<1>4. \A k \in Keys :
        LET x == ConfigRow(k)
        IN \/ db'[x] = db[x] /\ new'[x] = new[x] /\ holder'[x] = holder[x]
           \/ holder[x] = h /\ db'[x] \in {db[x], new[x]} /\ new'[x] \in {db[x], new[x]}
  BY <1>3 DEF Commit, Publish, Release
<1>5. QED
  BY <1>1, <1>2, <1>4, FrameAudit

LEMMA ReceiveAudit ==
  ASSUME AuditInv, Base, NEW h \in Handlers, NEW q \in deployed.requests, Receive(h, q),
         UNCHANGED deployed
  PROVE  AuditInv'
<1>1. Leaves(h) /\ UNCHANGED dbVars /\ desk'[h].pc = "first"
  BY ReceiveKeeps
<1>2. ~Writes(h)'
  BY <1>1 DEF Writes, Serves
<1>3. QED
  BY <1>1, <1>2, FrameAudit DEF Leaves, dbVars

LEMMA InitAudit == Init => AuditInv
<1> SUFFICES ASSUME Init PROVE AuditInv
  OBVIOUS
<1>1. ASSUME NEW k \in Keys
      PROVE  Told(k)
  <2>1. ConfigRow(k) \in RowIds
    BY DeskRowsAreRows DEF DeskRows
  <2>2. CASE ConfigRow(k) \in DOMAIN InitialRows
    BY <2>1, <2>2, TrailsStartEmpty DEF Init, Told, Explained
  <2>3. CASE ConfigRow(k) \notin DOMAIN InitialRows
    BY <2>1, <2>3 DEF Init, Told
  <2>4. QED
    BY <2>2, <2>3
<1>2. \A h \in Handlers : ~Writes(h)
  BY DEF Init, OpsInit, AtDesk, Writes, Serves
<1>3. QED
  BY <1>1, <1>2 DEF AuditInv

-----------------------------------------------------------------------------
(* A step is one of a handler or of the others.                            *)
LEMMA StepBase == Base /\ [Next]_vars => Base'
<1> SUFFICES ASSUME Base, [Next]_vars PROVE Base'
  OBVIOUS
<1>1. ASSUME NEW h \in Handlers, NEW q \in deployed.requests, Post(h, q)
      PROVE  Base'
  BY <1>1, ReceiveKeeps DEF Post
<1>2. ASSUME NEW h \in Handlers, Handle(h)
      PROVE  Base'
  BY <1>2, StatementKeeps, CommitKeeps, RefuseKeeps DEF Handle, Die
<1>3. CASE Others
  BY <1>3, OthersAreQuiet
<1>4. CASE UNCHANGED vars
  BY <1>4, SameRowsKeep DEF vars, dbVars, opsVars, Base, DeskOK, Named
<1>5. QED
  BY <1>1, <1>2, <1>3, <1>4 DEF Next, Others

LEMMA StepAudit == Base /\ AuditInv /\ [Next]_vars => AuditInv'
<1> SUFFICES ASSUME Base, AuditInv, [Next]_vars PROVE AuditInv'
  OBVIOUS
<1>1. ASSUME NEW h \in Handlers, NEW q \in deployed.requests, Post(h, q)
      PROVE  AuditInv'
  BY <1>1, ReceiveAudit DEF Post
<1>2. ASSUME NEW h \in Handlers, Handle(h)
      PROVE  AuditInv'
  <2>1. CASE Statement(h)
    BY <1>2, <2>1, RefuseAudit, SelectAudit, WriteAudit, OtherStatementsAudit
    DEF Handle, Statement
  <2>2. CASE Commit(h) \/ Die(h)
    BY <1>2, <2>2, CommitAudit, RefuseAudit DEF Handle, Die
  <2>3. QED
    BY <1>2, <2>1, <2>2 DEF Handle
<1>3. CASE Others
  BY <1>3, OthersAreQuiet, QuietAudit DEF opsVars
<1>4. CASE UNCHANGED vars
  BY <1>4, SameRowsKeep, QuietAudit DEF vars, dbVars, opsVars, Base
<1>5. QED
  BY <1>1, <1>2, <1>3, <1>4 DEF Next, Others

(* Locks and requests are what the handlers rely on.                       *)
THEOREM RowsAreKept == Spec => []Base
<1>1. QED
  BY InitBase, StepBase, PTL DEF Spec

(* The audit of every configuration key explains its value, however many   *)
(* handlers write it at the same time.                                     *)
THEOREM AuditsChain == Spec => []AuditChains
<1>1. Spec => []AuditInv
  BY InitBase, InitAudit, StepBase, StepAudit, PTL DEF Spec
<1>2. AuditInv => AuditChains
  BY DEF AuditInv, Told, Explained, AuditChains
<1>3. QED
  BY <1>1, <1>2, PTL

-----------------------------------------------------------------------------
(* Only a promotion about to commit makes a release current, and what a    *)
(* promotion found is still to be demoted, demoted by it, or is not        *)
(* current any more.                                                       *)
Demoting(h) == desk[h].req.op = "promote" /\ desk[h].pc \in {"demote", "commit"}

Demotable(h, b) ==
  \/ desk[h].pc = "demote" /\ b \in desk[h].todo
  \/ holder[ReleaseRow(b)] = h /\ new[ReleaseRow(b)] # "current"
  \/ holder[ReleaseRow(b)] # h /\ db[ReleaseRow(b)] # "current"

Promotes(h, b) == Serves(h, "promote", "commit") /\ desk[h].req.on = b

PromotionInv ==
  /\ \A h \in Handlers : desk[h].found \subseteq Builds
  /\ \A h \in Handlers, b \in Builds :
       holder[ReleaseRow(b)] = h /\ new[ReleaseRow(b)] = "current" => Promotes(h, b)
  /\ \A h \in Handlers : Demoting(h) =>
       \A b \in desk[h].found \ {desk[h].req.on} : Demotable(h, b)

ReleasesSame ==
  \A b \in Builds :
    LET x == ReleaseRow(b)
    IN db'[x] = db[x] /\ new'[x] = new[x] /\ holder'[x] = holder[x]

LEMMA ReleaseRowsAreRows ==
  \A b \in Builds : ReleaseRow(b) \in DeskRows /\ ReleaseRow(b) \in RowIds
BY DeskRowsAreRows DEF DeskRows

LEMMA SamePromotion ==
  ASSUME PromotionInv, Base, ReleasesSame, UNCHANGED desk
  PROVE  PromotionInv'
BY DEF PromotionInv, ReleasesSame, Demoting, Demotable, Promotes, Serves

(* A handler that does not promote, and leaves the releases alone.         *)
LEMMA AsidePromotion ==
  ASSUME PromotionInv, Base, ReleasesSame, NEW h \in Handlers, Leaves(h),
         desk'[h].found \subseteq Builds, ~Demoting(h)', ~Demoting(h)
  PROVE  PromotionInv'
BY DEF PromotionInv, ReleasesSame, Demoting, Demotable, Promotes, Serves, Leaves

LEMMA ReceivePromotion ==
  ASSUME PromotionInv, Base, NEW h \in Handlers, NEW q \in deployed.requests, Receive(h, q),
         UNCHANGED deployed
  PROVE  PromotionInv'
<1>1. Leaves(h) /\ UNCHANGED dbVars /\ desk'[h].pc = "first" /\ desk[h].pc = "idle"
  BY ReceiveKeeps
<1>2. desk'[h].found \subseteq Builds
  BY DEF Receive, Current, AtDesk, Base, DeskOK
<1>3. ~Demoting(h)' /\ ~Demoting(h)
  BY <1>1 DEF Demoting
<1>4. QED
  BY <1>1, <1>2, <1>3, AsidePromotion DEF ReleasesSame, dbVars

LEMMA RefusePromotion ==
  ASSUME PromotionInv, Base, NEW h \in Handlers, Refuse(h), UNCHANGED deployed
  PROVE  PromotionInv'
<1>1. Leaves(h) /\ desk'[h] = AtDesk
  BY RefuseKeeps
<1>2. ~Demoting(h)' /\ desk'[h].found = {}
  BY <1>1 DEF Demoting, AtDesk
<1>3. h # NoTx
  BY TxsAre, NoTxIsNoTx
<1>4. \A b \in Builds :
        LET x == ReleaseRow(b)
        IN /\ db'[x] = db[x]
           /\ \/ holder[x] # h /\ new'[x] = new[x] /\ holder'[x] = holder[x]
              \/ holder[x] = h /\ new'[x] = db[x] /\ holder'[x] = NoTx
  BY ReleaseRowsAreRows DEF Refuse, Rollback, Release
<1>5. NoTx \notin Handlers
  BY TxsAre, NoTxIsNoTx
<1>6. ASSUME NEW g \in Handlers, NEW b \in Builds,
             holder'[ReleaseRow(b)] = g, new'[ReleaseRow(b)] = "current"
      PROVE  Promotes(g, b)'
  <2>1. g # h /\ Promotes(g, b)
    BY <1>3, <1>4, <1>5, <1>6 DEF PromotionInv
  <2>2. QED
    BY <1>1, <2>1 DEF Promotes, Serves, Leaves
<1>7. ASSUME NEW g \in Handlers, Demoting(g)', NEW b \in desk'[g].found \ {desk'[g].req.on}
      PROVE  Demotable(g, b)'
  <2>1. g # h /\ desk'[g] = desk[g] /\ Demoting(g) /\ Demotable(g, b) /\ b \in Builds
    BY <1>1, <1>2, <1>7 DEF PromotionInv, Demoting, Leaves
  <2>2. QED
    BY <1>4, <1>5, <2>1 DEF Demotable
<1>8. \A g \in Handlers : desk'[g].found \subseteq Builds
  BY <1>1, <1>2 DEF PromotionInv, Leaves
<1>9. QED
  BY <1>6, <1>7, <1>8 DEF PromotionInv

LEMMA CommitPromotion ==
  ASSUME PromotionInv, Base, NEW h \in Handlers, Commit(h), UNCHANGED deployed
  PROVE  PromotionInv'
<1>1. desk'[h] = AtDesk
  BY CommitKeeps
<1>2. \A g \in Handlers \ {h} :
        /\ desk'[g].pc = desk[g].pc /\ desk'[g].req = desk[g].req
        /\ desk'[g].todo = desk[g].todo
        /\ desk'[g].found \subseteq desk[g].found
        /\ desk[h].req.op = "promote" => desk[h].req.on \notin desk'[g].found
  BY DEF Commit, Base, DeskOK, AtDesk
<1>3. ~Demoting(h)' /\ desk'[h].found = {}
  BY <1>1 DEF Demoting, AtDesk
<1>4. NoTx \notin Handlers
  BY TxsAre, NoTxIsNoTx
<1>5. \A b \in Builds :
        LET x == ReleaseRow(b)
        IN /\ new'[x] = new[x]
           /\ \/ holder[x] # h /\ db'[x] = db[x] /\ holder'[x] = holder[x]
              \/ holder[x] = h /\ db'[x] = new[x] /\ holder'[x] = NoTx
  BY ReleaseRowsAreRows DEF Commit, Publish, Release
<1>6. ASSUME NEW g \in Handlers, NEW b \in Builds,
             holder'[ReleaseRow(b)] = g, new'[ReleaseRow(b)] = "current"
      PROVE  Promotes(g, b)'
  <2>1. g # h /\ Promotes(g, b)
    BY <1>4, <1>5, <1>6 DEF PromotionInv
  <2>2. QED
    BY <1>2, <2>1 DEF Promotes, Serves
<1>7. ASSUME NEW g \in Handlers, Demoting(g)', NEW b \in desk'[g].found \ {desk'[g].req.on}
      PROVE  Demotable(g, b)'
  <2>1. g # h /\ Demoting(g) /\ Demotable(g, b) /\ b \in Builds
        /\ (desk[h].req.op = "promote" => desk[h].req.on # b)
    BY <1>2, <1>3, <1>7 DEF PromotionInv, Demoting
  <2>2. CASE holder[ReleaseRow(b)] # h
    BY <1>2, <1>5, <2>1, <2>2 DEF Demotable
  <2>3. CASE holder[ReleaseRow(b)] = h
    <3>1. new[ReleaseRow(b)] # "current"
      BY <2>1, <2>3 DEF PromotionInv, Promotes, Serves
    <3>2. QED
      BY <1>4, <1>5, <2>1, <2>3, <3>1 DEF Demotable
  <2>4. QED
    BY <2>2, <2>3
<1>8. \A g \in Handlers : desk'[g].found \subseteq Builds
  BY <1>2, <1>3 DEF PromotionInv
<1>9. QED
  BY <1>6, <1>7, <1>8 DEF PromotionInv

(* SOPs, runs and the configuration.                                       *)
LEMMA OtherStatementsPromotion ==
  ASSUME PromotionInv, Base, NEW h \in Handlers, Statement(h), UNCHANGED deployed,
         ~RegisterRelease(h), ~FindCurrent(h), ~Demote(h), ~Promote(h), ~Refuse(h)
  PROVE  PromotionInv'
<1>1. Leaves(h)
  BY StatementKeeps
<1>2. desk'[h].found = desk[h].found /\ ~Demoting(h) /\ ~Demoting(h)'
  BY DEF Base, DeskOK, AtDesk, Goto, Demoting, Serves,
         Statement, CreateSop, ReadVersion, InsertVersion, UpdateSop, ReadForRun, InsertRun,
         SelectConfig, WriteConfig
<1>3. ASSUME NEW ws, Write(h, ws), \A b \in Builds : ReleaseRow(b) \notin DOMAIN ws
      PROVE  ReleasesSame
  BY <1>3, ReleaseRowsAreRows DEF Write, ReleasesSame
<1>4. ASSUME NEW x, x[1] # "release", NEW v, Write(h, Row(x, v))
      PROVE  ReleasesSame
  BY <1>3, <1>4 DEF Row, ReleaseRow
<1>5. CASE CreateSop(h)
  <2> DEFINE s == desk[h].req.on
             ws == Both(Row(SopRow(s), [current |-> 1, status |-> desk[h].req.to,
                                        by |-> desk[h].n]),
                        Row(VersionRow(s, 1), desk[h].n))
  <2>1. Write(h, ws)
    BY <1>5 DEF CreateSop
  <2>2. DOMAIN ws = {SopRow(s), VersionRow(s, 1)}
    BY DEF Both, Row
  <2>3. QED
    BY <1>1, <1>2, <1>3, <2>1, <2>2, AsidePromotion
    DEF SopRow, VersionRow, ReleaseRow, PromotionInv
<1>6. CASE InsertVersion(h) \/ UpdateSop(h) \/ InsertRun(h)
  <2>1. ReleasesSame
    BY <1>4, <1>6 DEF InsertVersion, UpdateSop, InsertRun, SopRow, VersionRow, RunRow
  <2>2. QED
    BY <1>1, <1>2, <2>1, AsidePromotion DEF PromotionInv
<1>7. CASE SelectConfig(h)
  <2> DEFINE ws == [y \in ConfigLocks(h, ConfigRow(desk[h].req.on)) |-> new[y]]
  <2>1. Write(h, ws)
    BY <1>7 DEF SelectConfig
  <2>2. \A b \in Builds : ReleaseRow(b) \notin DOMAIN ws
    BY DEF ConfigLocks, ConfigRow, ReleaseRow
  <2>3. ReleasesSame
    BY <1>3, <2>1, <2>2
  <2>4. QED
    BY <1>1, <1>2, <2>3, AsidePromotion DEF PromotionInv
<1>8. CASE WriteConfig(h)
  <2>1. ReleasesSame
    BY <1>4, <1>8 DEF WriteConfig, ConfigRow
  <2>2. QED
    BY <1>1, <1>2, <2>1, AsidePromotion DEF PromotionInv
<1>9. CASE UNCHANGED dbVars
  BY <1>1, <1>2, <1>9, AsidePromotion DEF PromotionInv, ReleasesSame, dbVars
<1>10. QED
  BY <1>5, <1>6, <1>7, <1>8, <1>9 DEF Statement, ReadVersion, ReadForRun

(* A statement that writes at most the row of release c, which it could    *)
(* lock.                                                                   *)
LEMMA OneReleasePromotion ==
  ASSUME PromotionInv, Base, NEW h \in Handlers, Leaves(h), UNCHANGED db,
         desk'[h].found \subseteq Builds,
         NEW c \in Builds, CanLock(h, ReleaseRow(c)),
         \/ /\ new'[ReleaseRow(c)] = new[ReleaseRow(c)]
            /\ holder'[ReleaseRow(c)] = holder[ReleaseRow(c)]
         \/ holder'[ReleaseRow(c)] = h
            /\ (new'[ReleaseRow(c)] = "current" => Promotes(h, c)'),
         \A b \in Builds \ {c} : /\ new'[ReleaseRow(b)] = new[ReleaseRow(b)]
                                 /\ holder'[ReleaseRow(b)] = holder[ReleaseRow(b)],
         \A b \in Builds : Promotes(h, b) => Promotes(h, b)',
         Demoting(h)' =>
           \A b \in desk'[h].found \ {desk'[h].req.on} : Demotable(h, b)'
  PROVE  PromotionInv'
<1> DEFINE same == /\ new'[ReleaseRow(c)] = new[ReleaseRow(c)]
                   /\ holder'[ReleaseRow(c)] = holder[ReleaseRow(c)]
<1>1. ASSUME NEW g \in Handlers \ {h}
      PROVE  /\ desk'[g] = desk[g] /\ holder[ReleaseRow(c)] # g
             /\ (same \/ holder'[ReleaseRow(c)] = h)
  BY TxsAre, NoTxIsNoTx DEF Leaves, CanLock
<1>2. ASSUME NEW g \in Handlers, NEW b \in Builds,
             holder'[ReleaseRow(b)] = g, new'[ReleaseRow(b)] = "current"
      PROVE  Promotes(g, b)'
  <2>1. CASE same \/ b # c
    <3>1. Promotes(g, b)
      BY <1>2, <2>1 DEF PromotionInv
    <3>2. QED
      BY <1>1, <3>1 DEF Promotes, Serves
  <2>2. CASE ~same /\ b = c
    BY <1>2, <2>2
  <2>3. QED
    BY <2>1, <2>2
<1>3. ASSUME NEW g \in Handlers \ {h}, Demoting(g)', NEW b \in desk'[g].found \ {desk'[g].req.on}
      PROVE  Demotable(g, b)'
  <2>1. Demotable(g, b) /\ b \in Builds /\ desk'[g] = desk[g]
    BY <1>1, <1>3 DEF PromotionInv, Demoting
  <2>2. CASE b = c
    BY <1>1, <2>1, <2>2 DEF Demotable
  <2>3. CASE b # c
    BY <2>1, <2>3 DEF Demotable
  <2>4. QED
    BY <2>2, <2>3
<1>4. \A g \in Handlers : desk'[g].found \subseteq Builds
  BY <1>1 DEF PromotionInv
<1>5. QED
  BY <1>2, <1>3, <1>4 DEF PromotionInv

LEMMA RegisterPromotion ==
  ASSUME PromotionInv, Base, NEW h \in Handlers, RegisterRelease(h), ~Refuse(h),
         UNCHANGED <<posted, done, deployed>>
  PROVE  PromotionInv'
<1> DEFINE c == desk[h].req.on
<1>1. Leaves(h)
  BY StatementKeeps DEF Statement
<1>2. c \in Builds
  BY DEF RegisterRelease, Serves, Base, DeskOK, Named
<1>3. Write(h, Row(ReleaseRow(c), "candidate")) /\ CanLock(h, ReleaseRow(c))
  BY DEF RegisterRelease
<1>4. /\ UNCHANGED db /\ holder'[ReleaseRow(c)] = h /\ new'[ReleaseRow(c)] = "candidate"
      /\ \A b \in Builds \ {c} : /\ new'[ReleaseRow(b)] = new[ReleaseRow(b)]
                              /\ holder'[ReleaseRow(b)] = holder[ReleaseRow(b)]
  BY <1>2, <1>3, ReleaseRowsAreRows DEF Write, Row, ReleaseRow
<1>5. /\ desk'[h].found = desk[h].found
      /\ ~Demoting(h)'
      /\ \A b \in Builds : ~Promotes(h, b)
  BY DEF RegisterRelease, Serves, Goto, Base, DeskOK, AtDesk, Demoting, Promotes
<1>6. QED
  BY <1>1, <1>2, <1>3, <1>4, <1>5, OneReleasePromotion DEF PromotionInv

LEMMA FindPromotion ==
  ASSUME PromotionInv, Base, NEW h \in Handlers, FindCurrent(h),
         UNCHANGED <<posted, done, deployed>>
  PROVE  PromotionInv'
<1>1. Leaves(h)
  BY StatementKeeps DEF Statement
<1>2. UNCHANGED <<db, new, holder>>
  BY DEF FindCurrent, dbVars
<1>3. /\ desk[h].pc = "first" /\ desk'[h].pc = "demote" /\ desk'[h].todo = Demoted(h)
      /\ desk'[h].req = desk[h].req /\ desk'[h].found = desk[h].found
  BY DEF FindCurrent, Serves, Base, DeskOK, AtDesk
<1>4. \A b \in desk'[h].found : Demotable(h, b)'
  BY <1>2, <1>3 DEF PromotionInv, Demotable, Demoted, Sees
<1>5. ASSUME NEW g \in Handlers \ {h}, Demoting(g)',
             NEW b \in desk'[g].found \ {desk'[g].req.on}
      PROVE  Demotable(g, b)'
  BY <1>1, <1>2, <1>5 DEF PromotionInv, Demoting, Demotable, Leaves
<1>6. ASSUME NEW g \in Handlers, NEW b \in Builds,
             holder'[ReleaseRow(b)] = g, new'[ReleaseRow(b)] = "current"
      PROVE  Promotes(g, b)'
  <2>1. Promotes(g, b)
    BY <1>2, <1>6 DEF PromotionInv
  <2>2. QED
    BY <1>1, <1>3, <2>1 DEF Promotes, Serves, Leaves
<1>7. \A g \in Handlers : desk'[g].found \subseteq Builds
  BY <1>1, <1>3 DEF PromotionInv, Leaves
<1>8. QED
  BY <1>4, <1>5, <1>6, <1>7 DEF PromotionInv

LEMMA DemotePromotion ==
  ASSUME PromotionInv, Base, NEW h \in Handlers, Demote(h),
         UNCHANGED <<posted, done, deployed>>
  PROVE  PromotionInv'
<1>1. Leaves(h)
  BY StatementKeeps DEF Statement
<1>2. PICK c \in desk[h].todo :
        /\ CanLock(h, ReleaseRow(c))
        /\ Write(h, IF new[ReleaseRow(c)] = "current"
                      THEN Row(ReleaseRow(c), "rolled_back") ELSE NoRow)
        /\ desk' = [desk EXCEPT ![h].todo = @ \ {c}]
  BY DEF Demote
<1>3. /\ desk[h].pc = "demote" /\ desk'[h].pc = "demote" /\ Demoting(h)
      /\ desk'[h].todo = desk[h].todo \ {c}
      /\ desk'[h].req = desk[h].req /\ desk'[h].found = desk[h].found
  BY <1>2 DEF Demote, Serves, Base, DeskOK, AtDesk, Demoting
<1>4. \A b \in Builds : ~Promotes(h, b)
  BY <1>3 DEF Promotes, Serves
<1>5. CASE c \notin Builds
  <2>1. ReleasesSame
    <3>1. \A b \in Builds : ReleaseRow(b) # ReleaseRow(c)
      BY <1>5 DEF ReleaseRow
    <3>2. QED
      BY <1>2, <3>1, ReleaseRowsAreRows DEF Write, Row, NoRow, ReleasesSame
  <2>2. \A b \in desk[h].found : Demotable(h, b) => Demotable(h, b)'
    BY <1>3, <1>5, <2>1 DEF PromotionInv, ReleasesSame, Demotable
  <2>3. \A g \in Handlers : Demoting(g)' => Demoting(g)
    BY <1>1, <1>3 DEF Demoting, Leaves
  <2>4. ASSUME NEW g \in Handlers, Demoting(g)', NEW b \in desk'[g].found \ {desk'[g].req.on}
        PROVE  Demotable(g, b)'
    <3>1. CASE g = h
      BY <1>3, <2>2, <2>3, <2>4, <3>1 DEF PromotionInv
    <3>2. CASE g # h
      BY <1>1, <2>1, <2>3, <2>4, <3>2 DEF PromotionInv, ReleasesSame, Demotable, Leaves
    <3>3. QED
      BY <3>1, <3>2
  <2>5. ASSUME NEW g \in Handlers, NEW b \in Builds,
               holder'[ReleaseRow(b)] = g, new'[ReleaseRow(b)] = "current"
        PROVE  Promotes(g, b)'
    <3>1. Promotes(g, b) /\ g # h
      BY <1>4, <2>1, <2>5 DEF PromotionInv, ReleasesSame
    <3>2. QED
      BY <1>1, <3>1 DEF Promotes, Serves, Leaves
  <2>6. \A g \in Handlers : desk'[g].found \subseteq Builds
    BY <1>1, <1>3 DEF PromotionInv, Leaves
  <2>7. QED
    BY <2>4, <2>5, <2>6 DEF PromotionInv
<1>6. CASE c \in Builds
  <2>1. UNCHANGED db
    BY <1>2 DEF Write
  <2>2. \A b \in Builds \ {c} : /\ new'[ReleaseRow(b)] = new[ReleaseRow(b)]
                              /\ holder'[ReleaseRow(b)] = holder[ReleaseRow(b)]
    BY <1>2, <1>6, ReleaseRowsAreRows DEF Write, Row, NoRow, ReleaseRow
  <2>3. CASE new[ReleaseRow(c)] = "current"
    <3>1. holder'[ReleaseRow(c)] = h /\ new'[ReleaseRow(c)] = "rolled_back"
      BY <1>2, <1>6, <2>3, ReleaseRowsAreRows DEF Write, Row
    <3>2. \A b \in desk'[h].found \ {desk'[h].req.on} : Demotable(h, b)'
      BY <1>3, <2>1, <2>2, <3>1 DEF PromotionInv, Demotable
    <3>3. QED
      BY <1>1, <1>2, <1>3, <1>4, <1>6, <2>1, <2>2, <3>1, <3>2, OneReleasePromotion
      DEF PromotionInv
  <2>4. CASE new[ReleaseRow(c)] # "current"
    <3>1. \A b \in Builds : /\ new'[ReleaseRow(b)] = new[ReleaseRow(b)]
                           /\ holder'[ReleaseRow(b)] = holder[ReleaseRow(b)]
      BY <1>2, <2>4, ReleaseRowsAreRows DEF Write, NoRow
    <3>2. holder[ReleaseRow(c)] = NoTx => db[ReleaseRow(c)] # "current"
      BY <1>6, <2>4, ReleaseRowsAreRows DEF Base, RowsOK, UnlockedIsCommitted
    <3>3. Demotable(h, c)'
      BY TxsAre, NoTxIsNoTx, <1>2, <1>6, <2>1, <2>4, <3>1, <3>2 DEF Demotable, CanLock
    <3>4. \A b \in desk'[h].found \ {desk'[h].req.on} : Demotable(h, b)'
      BY <1>3, <2>1, <3>1, <3>3 DEF PromotionInv, Demotable
    <3>5. QED
      BY <1>1, <1>2, <1>3, <1>4, <1>6, <2>1, <2>2, <3>1, <3>4, OneReleasePromotion
      DEF PromotionInv
  <2>5. QED
    BY <2>3, <2>4
<1>7. QED
  BY <1>5, <1>6

LEMMA PromotePromotion ==
  ASSUME PromotionInv, Base, NEW h \in Handlers, Promote(h),
         UNCHANGED <<posted, done, deployed>>
  PROVE  PromotionInv'
<1> DEFINE c == desk[h].req.on
<1>1. Leaves(h)
  BY StatementKeeps DEF Statement
<1>2. c \in Builds /\ desk[h].todo = {}
  BY DEF Promote, Serves, Base, DeskOK, Named
<1>3. /\ desk[h].pc = "demote" /\ Demoting(h) /\ desk'[h].pc = "commit" /\ Promotes(h, c)'
      /\ desk'[h].req = desk[h].req /\ desk'[h].found = desk[h].found
  BY DEF Promote, Serves, Goto, Base, DeskOK, AtDesk, Demoting, Promotes
<1>4. \A b \in Builds : ~Promotes(h, b)
  BY <1>3 DEF Promotes, Serves
<1>5. CASE UNCHANGED dbVars
  <2>1. \A b \in desk'[h].found \ {desk'[h].req.on} : Demotable(h, b)'
    BY <1>2, <1>3, <1>5 DEF PromotionInv, Demotable, dbVars
  <2>2. ASSUME NEW g \in Handlers, Demoting(g)', NEW b \in desk'[g].found \ {desk'[g].req.on}
        PROVE  Demotable(g, b)'
    <3>1. CASE g = h
      BY <2>1, <2>2, <3>1
    <3>2. CASE g # h
      BY <1>1, <1>5, <2>2, <3>2 DEF PromotionInv, Demoting, Demotable, Leaves, dbVars
    <3>3. QED
      BY <3>1, <3>2
  <2>3. ASSUME NEW g \in Handlers, NEW b \in Builds,
               holder'[ReleaseRow(b)] = g, new'[ReleaseRow(b)] = "current"
        PROVE  Promotes(g, b)'
    <3>1. Promotes(g, b) /\ g # h
      BY <1>4, <1>5, <2>3 DEF PromotionInv, dbVars
    <3>2. QED
      BY <1>1, <3>1 DEF Promotes, Serves, Leaves
  <2>4. \A g \in Handlers : desk'[g].found \subseteq Builds
    BY <1>1, <1>3 DEF PromotionInv, Leaves
  <2>5. QED
    BY <2>2, <2>3, <2>4 DEF PromotionInv
<1>6. CASE ~UNCHANGED dbVars
  <2>1. Write(h, Row(ReleaseRow(c), "current")) /\ CanLock(h, ReleaseRow(c))
    BY <1>6 DEF Promote
  <2>2. /\ UNCHANGED db /\ holder'[ReleaseRow(c)] = h
        /\ \A b \in Builds \ {c} : /\ new'[ReleaseRow(b)] = new[ReleaseRow(b)]
                                /\ holder'[ReleaseRow(b)] = holder[ReleaseRow(b)]
    BY <1>2, <2>1, ReleaseRowsAreRows DEF Write, Row, ReleaseRow
  <2>3. \A b \in desk'[h].found \ {desk'[h].req.on} : Demotable(h, b)'
    BY <1>2, <1>3, <2>2 DEF PromotionInv, Demotable
  <2>4. QED
    BY <1>1, <1>2, <1>3, <1>4, <2>1, <2>2, <2>3, OneReleasePromotion DEF PromotionInv
<1>7. QED
  BY <1>5, <1>6

LEMMA StepPromotion == Base /\ PromotionInv /\ [Next]_vars => PromotionInv'
<1> SUFFICES ASSUME Base, PromotionInv, [Next]_vars PROVE PromotionInv'
  OBVIOUS
<1>1. ASSUME NEW h \in Handlers, NEW q \in deployed.requests, Post(h, q)
      PROVE  PromotionInv'
  BY <1>1, ReceivePromotion DEF Post
<1>2. ASSUME NEW h \in Handlers, Handle(h)
      PROVE  PromotionInv'
  <2>1. CASE Statement(h)
    BY <1>2, <2>1, RefusePromotion, RegisterPromotion, FindPromotion, DemotePromotion,
       PromotePromotion, OtherStatementsPromotion
    DEF Handle, Statement
  <2>2. CASE Commit(h) \/ Die(h)
    BY <1>2, <2>2, CommitPromotion, RefusePromotion DEF Handle, Die
  <2>3. QED
    BY <1>2, <2>1, <2>2 DEF Handle
<1>3. ASSUME Quiet, UNCHANGED desk
      PROVE  PromotionInv'
  BY <1>3, SamePromotion, ReleaseRowsAreRows DEF Quiet, ReleasesSame
<1>4. CASE Others
  BY <1>3, <1>4, OthersAreQuiet DEF opsVars
<1>5. CASE UNCHANGED vars
  BY <1>3, <1>5, SameRowsKeep DEF vars, opsVars, dbVars, Base
<1>6. QED
  BY <1>1, <1>2, <1>4, <1>5 DEF Next, Others

LEMMA InitPromotion == Init => PromotionInv
<1> SUFFICES ASSUME Init PROVE PromotionInv
  OBVIOUS
<1>1. \A b \in Builds : holder[ReleaseRow(b)] = NoTx
  BY ReleaseRowsAreRows DEF Init
<1>2. NoTx \notin Handlers
  BY TxsAre, NoTxIsNoTx
<1>3. \A h \in Handlers : desk[h].found = {} /\ ~Demoting(h)
  BY DEF Init, OpsInit, AtDesk, Demoting
<1>4. QED
  BY <1>1, <1>2, <1>3 DEF PromotionInv

(* However many promotions overlap, each demotes what it found current,    *)
(* unless somebody promoted it again.                                      *)
THEOREM PromotionsDemote == Spec => DemotesWhatItFound
<1>1. Base /\ PromotionInv => DemotesWhatItFoundStep
  <2> SUFFICES ASSUME Base, PromotionInv, NEW h \in Handlers, Commit(h),
                      desk[h].req.op = "promote", NEW b \in desk[h].found \ {desk[h].req.on}
               PROVE  db'[ReleaseRow(b)] # "current"
    BY DEF DemotesWhatItFoundStep
  <2>1. Demotable(h, b) /\ desk[h].pc = "commit" /\ ReleaseRow(b) \in RowIds
    BY ReleaseRowsAreRows DEF PromotionInv, Demoting, Commit
  <2>2. QED
    BY <2>1 DEF Demotable, Commit, Publish
<1>2. Spec => []PromotionInv
  BY InitBase, InitPromotion, StepBase, StepPromotion, PTL DEF Spec
<1>3. Spec => [][DemotesWhatItFoundStep]_vars
  BY <1>1, <1>2, RowsAreKept, PTL
<1>4. QED
  BY <1>3 DEF DemotesWhatItFound
=============================================================================
