----------------------------- MODULE WorkerProofs -----------------------------
(***************************************************************************)
(* What the broadcasts and the alert evaluator promise, beside any number  *)
(* of handlers that change the policies and SOPs they go by, and what      *)
(* types and locks the processes of the back office have together.         *)
(***************************************************************************)
EXTENDS VersionProofs

-----------------------------------------------------------------------------
(* The invariants.                                                         *)

(* Each kind of process locks rows of its own, and none while it rests.    *)
Busy(t) ==
  /\ t \in Handlers => desk[t].pc # "idle"
  /\ t \in Evaluators => eval[t].pc # "idle"
  /\ t \in Broadcasters => send[t].pc \notin {"idle", "pick"}

LocksSound ==
  /\ DOMAIN eval = Evaluators /\ \A e \in Evaluators : DOMAIN eval[e] = DOMAIN AtRest
  /\ DOMAIN send = Broadcasters /\ \A w \in Broadcasters : DOMAIN send[w] = DOMAIN Resting
  /\ \A x \in RowIds : holder[x] \in Txs \cup {NoTx}
  /\ \A t \in Txs : (\E x \in RowIds : holder[x] = t) => Busy(t)
  /\ \A x \in CampaignRows : holder[x] \in Broadcasters \cup {NoTx}
  /\ \A x \in AlertRows : holder[x] \in Evaluators \cup {NoTx}
  /\ \A ch \in Chats : holder[OptInRow(ch)] = NoTx
  /\ holder[PlanRow] = NoTx

ReleasesSound ==
  \A b \in Builds :
    /\ db[ReleaseRow(b)] \in {None, "candidate", "current", "rolled_back"}
    /\ new[ReleaseRow(b)] \in {None, "candidate", "current", "rolled_back"}

(* A target and the message it stands for, in one version of the rows.     *)
Pair(target, queued) ==
  /\ target \in {None, "pending", "enqueued", "skipped_plan", "skipped_no_optin"}
  /\ target = "enqueued" <=> queued # None

(* The rows of a campaign, committed and not: whoever holds one of them    *)
(* holds the campaign's own row.                                           *)
CampaignSound(c) ==
  LET x == CampaignRow(c)
  IN /\ db[x] \in {None, "queued", "running", "completed"}
     /\ new[x] \in {None, "queued", "running", "completed"}
     /\ db[x] = None => holder[x] = NoTx
     /\ holder[x] # NoTx => /\ send[holder[x]].campaign = c
                            /\ new[x] \in {"running", "completed"}
     /\ \A ch \in Chats :
          LET y == TargetRow(c, ch)
              z == QueuedRow(c, ch)
          IN /\ Pair(db[y], db[z]) /\ Pair(new[y], new[z])
             /\ holder[z] # NoTx => holder[z] = holder[y]
             /\ holder[y] # NoTx => holder[y] = holder[x]
             /\ db[x] = None => db[y] = None
             /\ db[x] = "completed" => db[y] # "pending"
             /\ new[x] = "completed" => new[y] # "pending"

Stages == {"idle", "pick", "targets", "plan", "consent", "enqueue", "commit"}

(* A broadcaster: the targets it has before it are still as it found them. *)
SenderSound(w) ==
  LET c == send[w].campaign
      left == send[w].left
  IN /\ send[w].pc \in Stages
     /\ left \in SUBSET Chats /\ Cardinality(left) <= TickSize
     /\ send[w].pc \in {"idle", "pick"} <=> c = None
     /\ send[w].pc \in {"idle", "pick", "targets", "commit"} => left = {}
     /\ send[w].pc \in {"consent", "enqueue"} => left # {}
     /\ c # None => /\ c \in Campaigns /\ holder[CampaignRow(c)] = w
                    /\ send[w].pc # "commit" => new[CampaignRow(c)] = "running"
     /\ \A ch \in left : /\ holder[TargetRow(c, ch)] = w
                         /\ new[TargetRow(c, ch)] = "pending"

(* What it has been told since its tick began, of consent and plan, and    *)
(* that the messages it has queued, or is about to queue, respect it.      *)
Respects(w, ch) ==
  (send[w].policy.consent => ch \in send[w].agreed) /\ send[w].allowed

SenderCareful(w) ==
  /\ send[w].pc # "idle" =>
       /\ Agreed \subseteq send[w].agreed
       /\ PlanAllows(send[w].policy, db[PlanRow]) => send[w].allowed
  /\ send[w].pc \in {"consent", "enqueue"} => send[w].allowed
  /\ send[w].pc = "enqueue" => Respects(w, Target(w))
  /\ send[w].campaign # None =>
       \A ch \in Chats : holder[QueuedRow(send[w].campaign, ch)] = w => Respects(w, ch)

CampaignsInv ==
  /\ \A c \in Campaigns : CampaignSound(c)
  /\ \A w \in Broadcasters : SenderSound(w) /\ SenderCareful(w)

(* An alert and its run, committed and not: they are written together.     *)
AlertSound(a) ==
  LET x == AlertRow(a)
      y == AutoRow(a)
  IN /\ db[y] # None <=> db[x] # None /\ a \in due
     /\ new[y] # None <=> new[x] # None /\ a \in due
     /\ holder[y] # NoTx => holder[y] = holder[x]
     /\ holder[x] # NoTx => db[x] = None /\ new[x] # None

AlertsInv ==
  \A a \in AlertIds : AlertSound(a)

-----------------------------------------------------------------------------
(* Who writes what.                                                        *)
Same(x) == db'[x] = db[x] /\ new'[x] = new[x] /\ holder'[x] = holder[x]

LEMMA WorkerRows ==
  /\ \A c \in Campaigns : CampaignRow(c) \in CampaignRows
  /\ \A c \in Campaigns, ch \in Chats :
       TargetRow(c, ch) \in CampaignRows /\ QueuedRow(c, ch) \in CampaignRows
  /\ \A ch \in Chats : OptInRow(ch) \in CampaignRows
  /\ PlanRow \in CampaignRows
  /\ \A a \in AlertIds : AlertRow(a) \in AlertRows /\ AutoRow(a) \in AlertRows
  /\ CampaignRows \subseteq RowIds /\ AlertRows \subseteq RowIds
  /\ \A b \in Builds : ReleaseRow(b) \in RowIds
BY RowsAre DEF CampaignRows, AlertRows, OpsRows

LEMMA KindsOfRows ==
  /\ \A x \in CampaignRows : x[1] \in {"campaign", "target", "outbox", "optin", "plan"}
  /\ \A x \in AlertRows : x[1] \in {"alert", "run"}
  /\ \A a : AlertRow(a)[1] = "alert" /\ AutoRow(a)[1] = "run"
  /\ \A n : RunRow(n)[1] = "run" /\ RunRow(n) \notin AlertRows
  /\ \A b : ReleaseRow(b)[1] = "release"
  /\ \A k : ConfigRow(k)[1] = "config"
BY DEF CampaignRows, AlertRows, CampaignRow, TargetRow, QueuedRow, OptInRow, PlanRow,
       AlertRow, AutoRow, RunRow, ReleaseRow, ConfigRow

ReleaseStatuses == {"candidate", "current", "rolled_back"}

(* A statement of a handler leaves the workers' rows alone.                *)
DeskWrites(h, x) ==
  /\ db'[x] = db[x] /\ holder'[x] = h /\ desk'[h].pc # "idle"
  /\ x \notin CampaignRows /\ x \notin AlertRows
  /\ x[1] = "release" => new'[x] \in ReleaseStatuses

LEMMA StatementsWrite ==
  ASSUME Base, NEW h \in Handlers, Statement(h), ~Refuse(h)
  PROVE  \A x \in RowIds : Same(x) \/ DeskWrites(h, x)
<1> DEFINE on == desk[h].req.on
           kinds == {"sop", "version", "config", "release"}
<1>1. desk'[h].pc # "idle"
  BY DEF Base, DeskOK, AtDesk, Goto, Statement, CreateSop, ReadVersion, InsertVersion,
         UpdateSop, ReadForRun, InsertRun, SelectConfig, WriteConfig, RegisterRelease,
         FindCurrent, Demote, Promote, Serves
<1>2. ASSUME NEW ws, Write(h, ws),
             \A x \in DOMAIN ws : /\ x[1] \in kinds \/ \E n : x = RunRow(n)
                                  /\ x[1] = "release" => ws[x] \in ReleaseStatuses
      PROVE  \A x \in RowIds : Same(x) \/ DeskWrites(h, x)
  <2> SUFFICES ASSUME NEW x \in RowIds PROVE Same(x) \/ DeskWrites(h, x)
    OBVIOUS
  <2>1. CASE x \in DOMAIN ws
    <3>1. x \notin CampaignRows /\ x \notin AlertRows
      BY <1>2, <2>1, KindsOfRows
    <3>2. db'[x] = db[x] /\ holder'[x] = h /\ new'[x] = ws[x]
      BY <1>2, <2>1 DEF Write
    <3>3. QED
      BY <1>1, <1>2, <2>1, <3>1, <3>2 DEF DeskWrites
  <2>2. CASE x \notin DOMAIN ws
    BY <1>2, <2>2 DEF Write, Same
  <2>3. QED
    BY <2>1, <2>2
<1>3. ASSUME NEW y, NEW r, Write(h, Row(y, r)), y[1] \in kinds \/ \E n : y = RunRow(n),
             y[1] = "release" => r \in ReleaseStatuses
      PROVE  \A x \in RowIds : Same(x) \/ DeskWrites(h, x)
  <2>1. DOMAIN Row(y, r) = {y} /\ Row(y, r)[y] = r
    BY DEF Row
  <2>2. QED
    BY <1>2, <1>3, <2>1
<1>4. CASE UNCHANGED dbVars
  BY <1>4 DEF dbVars, Same
<1>5. CASE CreateSop(h)
  <2> DEFINE rec == [current |-> 1, status |-> desk[h].req.to, by |-> desk[h].n]
             ws == Both(Row(SopRow(on), rec), Row(VersionRow(on, 1), desk[h].n))
  <2>1. Write(h, ws)
    BY <1>5 DEF CreateSop
  <2>2. \A x \in DOMAIN ws : x[1] \in {"sop", "version"}
    BY SopRowsDiffer DEF Both, Row
  <2> HIDE DEF ws
  <2>3. QED
    BY <1>2, <2>1, <2>2
<1>6. CASE InsertVersion(h) \/ UpdateSop(h)
  BY <1>3, <1>6, SopRowsDiffer DEF InsertVersion, UpdateSop
<1>7. CASE InsertRun(h)
  <2> DEFINE run == [sop |-> on, version |-> desk[h].seen]
  <2>1. Write(h, Row(RunRow(desk[h].n), run))
    BY <1>7 DEF InsertRun
  <2>2. RunRow(desk[h].n)[1] = "run"
    BY KindsOfRows
  <2> HIDE DEF run
  <2>3. QED
    BY <1>3, <2>1, <2>2
<1>8. CASE SelectConfig(h)
  <2> DEFINE ws == [y \in ConfigLocks(h, ConfigRow(on)) |-> new[y]]
  <2>1. Write(h, ws)
    BY <1>8 DEF SelectConfig
  <2>2. \A y \in DOMAIN ws : y[1] = "config"
    BY DEF ConfigLocks, ConfigRow
  <2> HIDE DEF ws
  <2>3. QED
    BY <1>2, <2>1, <2>2
<1>9. CASE WriteConfig(h)
  <2>1. PICK r : Write(h, Row(ConfigRow(on), r))
    BY <1>9 DEF WriteConfig
  <2>2. ConfigRow(on)[1] = "config"
    BY KindsOfRows
  <2>3. QED
    BY <1>3, <2>1, <2>2
<1>10. CASE RegisterRelease(h) \/ Promote(h)
  <2>1. CASE ~UNCHANGED dbVars
    <3>1. PICK r \in ReleaseStatuses : Write(h, Row(ReleaseRow(on), r))
      BY <1>10, <2>1 DEF RegisterRelease, Promote, ReleaseStatuses
    <3>2. ReleaseRow(on)[1] = "release"
      BY KindsOfRows
    <3>3. QED
      BY <1>3, <3>1, <3>2
  <2>2. QED
    BY <1>4, <2>1
<1>11. CASE Demote(h)
  <2>1. PICK b : Write(h, IF new[ReleaseRow(b)] = "current"
                            THEN Row(ReleaseRow(b), "rolled_back") ELSE NoRow)
    BY <1>11 DEF Demote
  <2>2. CASE new[ReleaseRow(b)] = "current"
    <3>1. Write(h, Row(ReleaseRow(b), "rolled_back"))
      BY <2>1, <2>2
    <3>2. ReleaseRow(b)[1] = "release" /\ "rolled_back" \in ReleaseStatuses
      BY KindsOfRows DEF ReleaseStatuses
    <3>3. QED
      BY <1>3, <3>1, <3>2
  <2>3. CASE new[ReleaseRow(b)] # "current"
    BY <1>2, <2>1, <2>3 DEF NoRow
  <2>4. QED
    BY <2>2, <2>3
<1>12. QED
  BY <1>4, <1>5, <1>6, <1>7, <1>8, <1>9, <1>10, <1>11
  DEF Statement, ReadVersion, ReadForRun, FindCurrent

-----------------------------------------------------------------------------
(* What the end of a transaction does to the rows.                         *)
Ended(t, x) ==
  IF holder[x] = t
    THEN /\ holder'[x] = NoTx
         /\ db'[x] = new'[x] /\ new'[x] \in {db[x], new[x]}
    ELSE Same(x)

LEMMA EndOf ==
  ASSUME NEW t, Publish(t) \/ Rollback(t)
  PROVE  \A x \in RowIds : Ended(t, x)
<1> SUFFICES ASSUME NEW x \in RowIds PROVE Ended(t, x)
  OBVIOUS
<1>1. CASE Publish(t)
  BY <1>1 DEF Publish, Release, Ended, Same
<1>2. CASE Rollback(t)
  BY <1>2 DEF Rollback, Release, Ended, Same
<1>3. QED
  BY <1>1, <1>2

(* Every transaction locks rows of its own kind, and ends before its       *)
(* process rests.                                                          *)
Locks(t, x) ==
  /\ holder'[x] = t /\ Busy(t)'
  /\ x \in CampaignRows => t \in Broadcasters /\ (x[1] \notin {"optin", "plan"})
  /\ x \in AlertRows => t \in Evaluators

LocksKept(t) ==
  /\ \A x \in RowIds : Same(x) \/ Ended(t, x) \/ Locks(t, x)
  /\ (\E x \in RowIds : holder'[x] = t) => Busy(t)'
  /\ \A u \in Txs \ {t} : Busy(u) => Busy(u)'
  /\ DOMAIN eval' = Evaluators /\ \A e \in Evaluators : DOMAIN eval'[e] = DOMAIN AtRest
  /\ DOMAIN send' = Broadcasters /\ \A w \in Broadcasters : DOMAIN send'[w] = DOMAIN Resting

LEMMA KeepLocks ==
  ASSUME LocksSound, NEW t \in Txs, LocksKept(t)
  PROVE  LocksSound'
<1>1. \A x \in RowIds : holder'[x] \in {holder[x], NoTx} \/ Locks(t, x)
  BY DEF LocksKept, Same, Ended
<1>2. \A x \in RowIds : holder'[x] \in Txs \cup {NoTx}
  BY <1>1 DEF LocksSound, Locks
<1>8. ASSUME NEW u \in Txs, NEW x \in RowIds, holder'[x] = u
      PROVE  Busy(u)'
  <2>1. CASE u = t
    BY <1>8, <2>1 DEF LocksKept
  <2>2. CASE u # t
    <3>1. holder[x] = u
      BY <1>1, <1>8, <2>2, NoTxIsNoTx DEF Locks
    <3>2. Busy(u)
      BY <3>1 DEF LocksSound
    <3>3. QED
      BY <2>2, <3>2 DEF LocksKept
  <2>3. QED
    BY <2>1, <2>2
<1>3. ASSUME NEW x \in CampaignRows
      PROVE  holder'[x] \in Broadcasters \cup {NoTx}
  BY <1>1, <1>3, WorkerRows DEF LocksSound, Locks
<1>4. ASSUME NEW x \in AlertRows
      PROVE  holder'[x] \in Evaluators \cup {NoTx}
  BY <1>1, <1>4, WorkerRows DEF LocksSound, Locks
<1>5. ASSUME NEW ch \in Chats
      PROVE  holder'[OptInRow(ch)] = NoTx
  <2>1. OptInRow(ch)[1] = "optin" /\ OptInRow(ch) \in CampaignRows /\ OptInRow(ch) \in RowIds
    BY WorkerRows DEF OptInRow
  <2>2. QED
    BY <1>1, <2>1 DEF LocksSound, Locks
<1>6. holder'[PlanRow] = NoTx
  <2>1. PlanRow[1] = "plan" /\ PlanRow \in CampaignRows /\ PlanRow \in RowIds
    BY WorkerRows DEF PlanRow
  <2>2. QED
    BY <1>1, <2>1 DEF LocksSound, Locks
<1>7. /\ DOMAIN eval' = Evaluators /\ \A e \in Evaluators : DOMAIN eval'[e] = DOMAIN AtRest
      /\ DOMAIN send' = Broadcasters /\ \A w \in Broadcasters : DOMAIN send'[w] = DOMAIN Resting
  BY DEF LocksKept
<1>9. \A u \in Txs : (\E x \in RowIds : holder'[x] = u) => Busy(u)'
  BY <1>8
<1>10. QED
  BY <1>2, <1>3, <1>4, <1>5, <1>6, <1>7, <1>9 DEF LocksSound, Resting, AtRest

(* Who was at rest held nothing.                                           *)
LEMMA IdleHoldNothing ==
  ASSUME LocksSound, NEW t \in Txs, ~Busy(t), NEW x \in RowIds
  PROVE  holder[x] # t
BY NoTxIsNoTx DEF LocksSound

LEMMA EndKeepsLocks ==
  ASSUME LocksSound, NEW t \in Txs, \A x \in RowIds : Ended(t, x),
         \A u \in Txs \ {t} : Busy(u) => Busy(u)',
         DOMAIN eval' = Evaluators, \A e \in Evaluators : DOMAIN eval'[e] = DOMAIN AtRest,
         DOMAIN send' = Broadcasters, \A w \in Broadcasters : DOMAIN send'[w] = DOMAIN Resting
  PROVE  LocksSound'
<1>1. \A x \in RowIds : holder'[x] # t
  BY NoTxIsNoTx DEF Ended, Same
<1>2. LocksKept(t)
  BY <1>1 DEF LocksKept
<1>3. QED
  BY <1>2, KeepLocks

(* A step that locks no row, of a process that stays busy if it was.       *)
LEMMA SameRowsKeepLocks ==
  ASSUME LocksSound, \A x \in RowIds : Same(x),
         \A t \in Txs : Busy(t) => Busy(t)',
         DOMAIN eval' = Evaluators, \A e \in Evaluators : DOMAIN eval'[e] = DOMAIN AtRest,
         DOMAIN send' = Broadcasters, \A w \in Broadcasters : DOMAIN send'[w] = DOMAIN Resting
  PROVE  LocksSound'
<1>1. \A x \in RowIds : holder'[x] = holder[x]
  BY DEF Same
<1>2. /\ \A x \in RowIds : holder'[x] \in Txs \cup {NoTx}
      /\ \A t \in Txs : (\E x \in RowIds : holder'[x] = t) => Busy(t)'
  BY <1>1 DEF LocksSound
<1>3. /\ \A x \in CampaignRows : holder'[x] \in Broadcasters \cup {NoTx}
      /\ \A x \in AlertRows : holder'[x] \in Evaluators \cup {NoTx}
      /\ \A ch \in Chats : holder'[OptInRow(ch)] = NoTx
      /\ holder'[PlanRow] = NoTx
  BY <1>1, WorkerRows DEF LocksSound
<1>4. QED
  BY <1>2, <1>3 DEF LocksSound, AtRest, Resting

-----------------------------------------------------------------------------
LEMMA HandlersKeepLocks ==
  ASSUME LocksSound, Base, NEW h \in Handlers, Handle(h)
  PROVE  LocksSound' /\ (\A x \in CampaignRows \cup AlertRows : Same(x))
<1>1. h \in Txs /\ h \notin Evaluators /\ h \notin Broadcasters /\ h # NoTx
  BY TxsAre, ProcessesDiffer, NoTxIsNoTx
<1>2. \A x \in CampaignRows \cup AlertRows : x \in RowIds /\ holder[x] # h
  <2>1. \A x \in CampaignRows : holder[x] # h
    BY <1>1 DEF LocksSound
  <2>2. \A x \in AlertRows : holder[x] # h
    BY <1>1 DEF LocksSound
  <2>3. QED
    BY <2>1, <2>2, WorkerRows
<1>3. UNCHANGED <<eval, send, deployed>>
  BY DEF Handle, alertVars, campaignVars
<1>4. \A g \in Handlers \ {h} : desk'[g].pc = desk[g].pc
  BY <1>3, StatementKeeps, CommitKeeps, RefuseKeeps DEF Handle, Die, Leaves
<1>5. \A u \in Txs \ {h} : Busy(u) => Busy(u)'
  BY <1>3, <1>4 DEF Busy
<1>6. CASE Publish(h) \/ Rollback(h)
  <2>1. \A x \in RowIds : Ended(h, x)
    BY <1>6, EndOf
  <2>2. LocksSound'
    BY <1>1, <1>3, <1>5, <2>1, EndKeepsLocks DEF LocksSound
  <2>3. QED
    BY <1>2, <2>1, <2>2 DEF Ended
<1>7. CASE Statement(h) /\ ~Refuse(h)
  <2>1. \A x \in RowIds : Same(x) \/ DeskWrites(h, x)
    BY <1>7, StatementsWrite
  <2>2. Busy(h)' <=> desk'[h].pc # "idle"
    BY <1>1 DEF Busy
  <2>3. \A x \in RowIds : Same(x) \/ Locks(h, x)
    BY <2>1, <2>2 DEF DeskWrites, Locks
  <2>4. desk'[h].pc # "idle" \/ \A x \in RowIds : Same(x)
    BY <2>1 DEF DeskWrites
  <2>5. desk[h].pc # "idle" /\ desk'[h].pc # "idle"
    BY <1>7
    DEF Base, DeskOK, AtDesk, Goto, Statement, CreateSop, ReadVersion, InsertVersion,
         UpdateSop, ReadForRun, InsertRun, SelectConfig, WriteConfig, RegisterRelease,
         FindCurrent, Demote, Promote, Serves
  <2>6. LocksKept(h)
    BY <1>3, <1>5, <2>2, <2>3, <2>5 DEF LocksKept, LocksSound
  <2>7. \A x \in CampaignRows \cup AlertRows : Same(x)
    BY <1>2, <2>1 DEF DeskWrites
  <2>8. QED
    BY <1>1, <2>6, <2>7, KeepLocks
<1>8. QED
  BY <1>6, <1>7 DEF Handle, Commit, Die, Refuse

LEMMA RequestsKeepLocks ==
  ASSUME LocksSound, Base, NEW h \in Handlers, NEW q \in deployed.requests, Post(h, q)
  PROVE  LocksSound' /\ (\A x \in RowIds : Same(x))
<1>1. \A x \in RowIds : Same(x)
  BY DEF Post, Receive, dbVars, Same
<1>2. UNCHANGED <<eval, send, deployed>>
  BY DEF Post, alertVars, campaignVars
<1>3. (\A g \in Handlers \ {h} : desk'[g] = desk[g]) /\ desk'[h].pc = "first"
  BY <1>2, ReceiveKeeps DEF Post, Leaves
<1>4. \A t \in Txs : Busy(t) => Busy(t)'
  BY <1>2, <1>3 DEF Busy
<1>5. QED
  BY <1>1, <1>2, <1>4, SameRowsKeepLocks DEF LocksSound

LEMMA WriteKeepsLocks ==
  ASSUME LocksSound, NEW t \in Txs, NEW ws, Write(t, ws), Busy(t)',
         \A x \in DOMAIN ws :
           /\ x \in CampaignRows => t \in Broadcasters /\ (x[1] \notin {"optin", "plan"})
           /\ x \in AlertRows => t \in Evaluators,
         \A u \in Txs \ {t} : Busy(u) => Busy(u)',
         DOMAIN eval' = Evaluators, \A e \in Evaluators : DOMAIN eval'[e] = DOMAIN AtRest,
         DOMAIN send' = Broadcasters, \A w \in Broadcasters : DOMAIN send'[w] = DOMAIN Resting
  PROVE  LocksSound' /\ (\A x \in RowIds \ DOMAIN ws : Same(x))
<1>1. \A x \in RowIds \ DOMAIN ws : Same(x)
  BY DEF Write, Same
<1>2. \A x \in RowIds : x \in DOMAIN ws => Locks(t, x)
  BY DEF Write, Locks
<1>3. LocksKept(t)
  BY <1>1, <1>2 DEF LocksKept
<1>4. QED
  BY <1>1, <1>3, KeepLocks

LEMMA EvaluatorsKeepLocks ==
  ASSUME LocksSound, Base, NEW e \in Evaluators, Tick(e)
  PROVE  LocksSound' /\ (\A x \in CampaignRows : Same(x))
<1>1. e \in Txs /\ e \notin Handlers /\ e \notin Broadcasters /\ e # NoTx
  BY TxsAre, ProcessesDiffer, NoTxIsNoTx
<1>2. \A x \in CampaignRows : x \in RowIds /\ holder[x] # e
  BY <1>1, WorkerRows DEF LocksSound
<1>3. UNCHANGED <<desk, send>>
  BY DEF Tick, opsVars, campaignVars
<1>4. /\ DOMAIN eval' = Evaluators
      /\ \A d \in Evaluators : DOMAIN eval'[d] = DOMAIN AtRest
      /\ \A d \in Evaluators \ {e} : eval'[d] = eval[d]
  <2> DEFINE goal == /\ DOMAIN eval' = Evaluators /\ DOMAIN eval'[e] = DOMAIN AtRest
                     /\ \A d \in Evaluators \ {e} : eval'[d] = eval[d]
  <2>1. DOMAIN eval = Evaluators /\ DOMAIN eval[e] = DOMAIN AtRest
    BY DEF LocksSound
  <2>2. ASSUME NEW v, DOMAIN v = DOMAIN AtRest, eval' = [eval EXCEPT ![e] = v]
        PROVE  goal
    BY <2>1, <2>2
  <2>3. ASSUME NEW spikes, StartTick(e, spikes)
        PROVE  goal
    <3>1. PICK v : v = [AtRest EXCEPT !.pc = "dead", !.spikes = spikes, !.time = now]
      OBVIOUS
    <3>2. DOMAIN v = DOMAIN AtRest
      BY <3>1 DEF AtRest
    <3>3. QED
      BY <2>2, <2>3, <3>1, <3>2 DEF StartTick
  <2>4. ASSUME eval' = [eval EXCEPT ![e] = AtRest]
        PROVE  goal
    BY <2>1, <2>4
  <2>5. ASSUME NEW pc, eval' = [eval EXCEPT ![e].pc = pc]
        PROVE  goal
    <3>1. PICK v : v = [eval[e] EXCEPT !.pc = pc]
      OBVIOUS
    <3>2. DOMAIN v = DOMAIN AtRest /\ eval' = [eval EXCEPT ![e] = v]
      BY <2>1, <2>5, <3>1
    <3>3. QED
      BY <2>2, <3>2
  <2>6. ASSUME NEW pc, eval' = [eval EXCEPT ![e].pc = pc, ![e].aborted = TRUE]
        PROVE  goal
    <3>1. PICK v : v = [eval[e] EXCEPT !.pc = pc, !.aborted = TRUE]
      OBVIOUS
    <3>2. DOMAIN v = DOMAIN AtRest /\ eval' = [eval EXCEPT ![e] = v]
      BY <2>1, <2>6, <3>1
    <3>3. QED
      BY <2>2, <3>2
  <2>7. goal
    BY <2>3, <2>4, <2>5, <2>6
    DEF Tick, Evaluate, EndTick, LoseEvaluation, NoSpike, StatementFails, Record
  <2>8. QED
    BY <2>7 DEF LocksSound
<1>5. \A u \in Txs \ {e} : Busy(u) => Busy(u)'
  BY <1>3, <1>4 DEF Busy
<1>6. CASE Publish(e) \/ Rollback(e)
  <2>1. \A x \in RowIds : Ended(e, x)
    BY <1>6, EndOf
  <2>2. LocksSound'
    BY <1>1, <1>3, <1>4, <1>5, <2>1, EndKeepsLocks DEF LocksSound
  <2>3. QED
    BY <1>2, <2>1, <2>2 DEF Ended
<1>7. CASE UNCHANGED dbVars /\ eval'[e].pc # "idle"
  <2>1. \A x \in RowIds : Same(x)
    BY <1>7 DEF dbVars, Same
  <2>2. \A u \in Txs : Busy(u) => Busy(u)'
    BY <1>1, <1>5, <1>7 DEF Busy
  <2>3. LocksSound'
    BY <1>3, <1>4, <2>1, <2>2, SameRowsKeepLocks DEF LocksSound
  <2>4. QED
    BY <1>2, <2>1, <2>3
<1>8. ASSUME NEW type \in Types, Record(e, type), new[AlertRow(AlertOf(e, type))] = None
      PROVE  LocksSound' /\ (\A x \in CampaignRows : Same(x))
  <2> DEFINE a == AlertOf(e, type)
             ws == Both(Row(AlertRow(a), "recorded"), AutoRun(e, a))
  <2>1. Write(e, ws) /\ eval' = [eval EXCEPT ![e].pc = Then(type)]
    BY <1>8 DEF Record
  <2>2. DOMAIN AutoRun(e, a) \subseteq {AutoRow(a)}
    BY DEF AutoRun, Row, NoRow
  <2>3. DOMAIN ws \subseteq {AlertRow(a), AutoRow(a)}
    BY <2>2 DEF Both, Row
  <2>4. \A x \in DOMAIN ws : x \notin CampaignRows
    BY <2>3, KindsOfRows
  <2>5. Busy(e)'
    BY <1>1, <2>1 DEF Busy, Then, LocksSound, AtRest
  <2> HIDE DEF ws
  <2>6. LocksSound' /\ (\A x \in RowIds \ DOMAIN ws : Same(x))
    BY <1>1, <1>3, <1>4, <1>5, <2>1, <2>4, <2>5, WriteKeepsLocks DEF LocksSound
  <2>7. QED
    BY <1>2, <2>4, <2>6
<1>9. ASSUME NEW type \in Types, Record(e, type) \/ NoSpike(e, type),
             ~(Record(e, type) /\ new[AlertRow(AlertOf(e, type))] = None)
      PROVE  UNCHANGED dbVars /\ eval'[e].pc # "idle"
  BY <1>9 DEF Record, NoSpike, Then, LocksSound, AtRest
<1>10. ASSUME NEW spikes, StartTick(e, spikes)
       PROVE  UNCHANGED dbVars /\ eval'[e].pc # "idle"
  BY <1>10 DEF StartTick, LocksSound, AtRest
<1>11. QED
  BY <1>6, <1>7, <1>8, <1>9, <1>10 DEF Tick, Evaluate, EndTick, LoseEvaluation, StatementFails

-----------------------------------------------------------------------------
(* Where a broadcaster is after its step.                                  *)
LEMMA SendersStep ==
  ASSUME LocksSound, NEW w \in Broadcasters, Broadcast(w) \/ BroadcastDies(w)
  PROVE  /\ DOMAIN send' = Broadcasters
         /\ \A v \in Broadcasters : DOMAIN send'[v] = DOMAIN Resting
         /\ \A v \in Broadcasters \ {w} : send'[v] = send[v]
<1>1. DOMAIN send = Broadcasters /\ DOMAIN send[w] = DOMAIN Resting
  BY DEF LocksSound
<1> DEFINE goal == /\ DOMAIN send' = Broadcasters /\ DOMAIN send'[w] = DOMAIN Resting
                   /\ \A v \in Broadcasters \ {w} : send'[v] = send[v]
<1>2. ASSUME send' = [send EXCEPT ![w] = Resting]
      PROVE  goal
  BY <1>1, <1>2
<1>3. ASSUME StartBroadcast(w)
      PROVE  goal
  <2>1. PICK policy, allowed :
          send' = [send EXCEPT ![w] = [Resting EXCEPT !.pc = "pick", !.policy = policy,
                                                      !.agreed = Agreed, !.allowed = allowed]]
    BY <1>3 DEF StartBroadcast
  <2>2. PICK v : v = [Resting EXCEPT !.pc = "pick", !.policy = policy, !.agreed = Agreed,
                                     !.allowed = allowed]
    OBVIOUS
  <2>3. DOMAIN v = DOMAIN Resting /\ send' = [send EXCEPT ![w] = v]
    BY <2>1, <2>2 DEF Resting
  <2>4. QED
    BY <1>1, <2>3
<1>4. ASSUME Pick(w) /\ Pickable # {}
      PROVE  goal
  <2>1. PICK c : send' = [send EXCEPT ![w].pc = "targets", ![w].campaign = c]
    BY <1>1, <1>4 DEF Pick
  <2>2. PICK v : v = [send[w] EXCEPT !.pc = "targets", !.campaign = c]
    OBVIOUS
  <2>3. DOMAIN v = DOMAIN Resting /\ send' = [send EXCEPT ![w] = v]
    BY <1>1, <2>1, <2>2
  <2>4. QED
    BY <1>1, <2>3
<1>5. ASSUME SelectTargets(w)
      PROVE  goal
  <2>1. PICK S : send' = [send EXCEPT ![w].pc = "plan", ![w].left = S]
    BY <1>1, <1>5 DEF SelectTargets
  <2>2. PICK v : v = [send[w] EXCEPT !.pc = "plan", !.left = S]
    OBVIOUS
  <2>3. DOMAIN v = DOMAIN Resting /\ send' = [send EXCEPT ![w] = v]
    BY <1>1, <2>1, <2>2
  <2>4. QED
    BY <1>1, <2>3
<1>6. ASSUME NEW status, Settle(w, status)
      PROVE  goal
  <2>1. send' = [send EXCEPT ![w].pc = "plan", ![w].left = send[w].left \ {Target(w)}]
    BY <1>1, <1>6 DEF Settle
  <2>2. PICK v : v = [send[w] EXCEPT !.pc = "plan", !.left = send[w].left \ {Target(w)}]
    OBVIOUS
  <2>3. DOMAIN v = DOMAIN Resting /\ send' = [send EXCEPT ![w] = v]
    BY <1>1, <2>1, <2>2
  <2>4. QED
    BY <1>1, <2>3
<1>7. ASSUME Enqueue(w)
      PROVE  goal
  <2>1. send' = [send EXCEPT ![w].pc = "plan", ![w].left = send[w].left \ {Target(w)}]
    BY <1>1, <1>7 DEF Enqueue
  <2>2. PICK v : v = [send[w] EXCEPT !.pc = "plan", !.left = send[w].left \ {Target(w)}]
    OBVIOUS
  <2>3. DOMAIN v = DOMAIN Resting /\ send' = [send EXCEPT ![w] = v]
    BY <1>1, <2>1, <2>2
  <2>4. QED
    BY <1>1, <2>3
<1>8. ASSUME CheckPlan(w) /\ ~Settle(w, "skipped_plan")
      PROVE  goal
  <2>1. send' = [send EXCEPT ![w].pc = "consent"]
    BY <1>1, <1>8 DEF CheckPlan
  <2>2. PICK v : v = [send[w] EXCEPT !.pc = "consent"]
    OBVIOUS
  <2>3. DOMAIN v = DOMAIN Resting /\ send' = [send EXCEPT ![w] = v]
    BY <1>1, <2>1, <2>2
  <2>4. QED
    BY <1>1, <2>3
<1>9. ASSUME CheckConsent(w) /\ ~Settle(w, "skipped_no_optin")
      PROVE  goal
  <2>1. send' = [send EXCEPT ![w].pc = "enqueue"]
    BY <1>1, <1>9 DEF CheckConsent
  <2>2. PICK v : v = [send[w] EXCEPT !.pc = "enqueue"]
    OBVIOUS
  <2>3. DOMAIN v = DOMAIN Resting /\ send' = [send EXCEPT ![w] = v]
    BY <1>1, <2>1, <2>2
  <2>4. QED
    BY <1>1, <2>3
<1>10. ASSUME MaybeFinish(w)
      PROVE  goal
  <2>1. send' = [send EXCEPT ![w].pc = "commit"]
    BY <1>1, <1>10 DEF MaybeFinish
  <2>2. PICK v : v = [send[w] EXCEPT !.pc = "commit"]
    OBVIOUS
  <2>3. DOMAIN v = DOMAIN Resting /\ send' = [send EXCEPT ![w] = v]
    BY <1>1, <2>1, <2>2
  <2>4. QED
    BY <1>1, <2>3
<1>11. ASSUME Pick(w) /\ Pickable = {}
      PROVE  goal
  BY <1>2, <1>11 DEF Pick
<1>12. goal
  BY <1>2, <1>3, <1>4, <1>5, <1>6, <1>7, <1>8, <1>9, <1>10, <1>11
  DEF Broadcast, BroadcastDies, BroadcastStep, LoseBroadcast, CommitBroadcast
<1>13. QED
  BY <1>12 DEF LocksSound

LEMMA BroadcastersKeepLocks ==
  ASSUME LocksSound, Base, NEW w \in Broadcasters, Broadcast(w) \/ BroadcastDies(w)
  PROVE  LocksSound' /\ (\A x \in AlertRows : Same(x))
<1>1. w \in Txs /\ w \notin Handlers /\ w \notin Evaluators /\ w # NoTx
  BY TxsAre, ProcessesDiffer, NoTxIsNoTx
<1>2. \A x \in AlertRows : x \in RowIds /\ holder[x] # w
  BY <1>1, WorkerRows DEF LocksSound
<1>3. UNCHANGED <<desk, eval>>
  BY DEF Broadcast, BroadcastDies, opsVars, alertVars
<1>4. /\ DOMAIN send' = Broadcasters
      /\ \A v \in Broadcasters : DOMAIN send'[v] = DOMAIN Resting
      /\ \A v \in Broadcasters \ {w} : send'[v] = send[v]
  BY SendersStep
<1>5. \A u \in Txs \ {w} : Busy(u) => Busy(u)'
  BY <1>3, <1>4 DEF Busy
<1>6. /\ DOMAIN send = Broadcasters /\ DOMAIN send[w] = DOMAIN Resting
      /\ DOMAIN eval' = Evaluators /\ \A e \in Evaluators : DOMAIN eval'[e] = DOMAIN AtRest
  BY <1>3 DEF LocksSound
<1>7. CASE Publish(w) \/ Rollback(w)
  <2>1. \A x \in RowIds : Ended(w, x)
    BY <1>7, EndOf
  <2>2. LocksSound'
    BY <1>1, <1>4, <1>5, <1>6, <2>1, EndKeepsLocks
  <2>3. QED
    BY <1>2, <2>1, <2>2 DEF Ended
<1>8. CASE UNCHANGED dbVars /\ (Busy(w) => Busy(w)')
  <2>1. \A x \in RowIds : Same(x)
    BY <1>8 DEF dbVars, Same
  <2>2. \A u \in Txs : Busy(u) => Busy(u)'
    BY <1>1, <1>5, <1>8
  <2>3. LocksSound'
    BY <1>4, <1>6, <2>1, <2>2, SameRowsKeepLocks
  <2>4. QED
    BY <1>2, <2>1, <2>3
<1>9. ASSUME NEW ws, Write(w, ws), send'[w].pc \notin {"idle", "pick"},
             \A x \in DOMAIN ws : x[1] \in {"campaign", "target", "outbox"}
      PROVE  LocksSound' /\ (\A x \in AlertRows : Same(x))
  <2>1. Busy(w)'
    BY <1>1, <1>9 DEF Busy
  <2>2. \A x \in DOMAIN ws : x \notin AlertRows /\ (x[1] \notin {"optin", "plan"})
    BY <1>9, KindsOfRows
  <2>3. LocksSound' /\ (\A x \in RowIds \ DOMAIN ws : Same(x))
    BY <1>1, <1>4, <1>5, <1>6, <1>9, <2>1, <2>2, WriteKeepsLocks
  <2>4. QED
    BY <1>2, <2>2, <2>3
<1>10. CASE StartBroadcast(w)
  BY <1>1, <1>8, <1>10 DEF StartBroadcast, Busy
<1>11. CASE Pick(w)
  <2>1. CASE Pickable = {}
    BY <1>1, <1>8, <1>11, <2>1 DEF Pick, Busy
  <2>2. CASE Pickable # {}
    <3>1. PICK c : /\ Write(w, Row(CampaignRow(c), "running"))
                   /\ send' = [send EXCEPT ![w].pc = "targets", ![w].campaign = c]
      BY <1>11, <2>2 DEF Pick
    <3>2. send'[w].pc = "targets"
      BY <1>6, <3>1 DEF Resting
    <3>3. QED
      BY <1>9, <3>1, <3>2 DEF Row, CampaignRow
  <2>3. QED
    BY <2>1, <2>2
<1>12. CASE SelectTargets(w)
  <2> DEFINE ws(S) == [x \in {TargetRow(send[w].campaign, ch) : ch \in S} |-> new[x]]
  <2>1. PICK S : Write(w, ws(S)) /\ send' = [send EXCEPT ![w].pc = "plan", ![w].left = S]
    BY <1>12 DEF SelectTargets
  <2>2. \A x \in DOMAIN ws(S) : x[1] = "target"
    BY DEF TargetRow
  <2>3. send'[w].pc = "plan"
    BY <1>6, <2>1 DEF Resting
  <2> HIDE DEF ws
  <2>4. QED
    BY <1>9, <2>1, <2>2, <2>3
<1>13. ASSUME NEW status, Settle(w, status)
       PROVE  LocksSound' /\ (\A x \in AlertRows : Same(x))
  <2>1. send'[w].pc = "plan"
    BY <1>6, <1>13 DEF Settle, Resting
  <2>2. QED
    BY <1>9, <1>13, <2>1 DEF Settle, Row, TargetRow
<1>14. CASE Enqueue(w)
  <2> DEFINE c == send[w].campaign
             ws == Both(Row(QueuedRow(c, Target(w)), "PENDING"),
                        Row(TargetRow(c, Target(w)), "enqueued"))
  <2>1. Write(w, ws)
    BY <1>14 DEF Enqueue
  <2>2. \A x \in DOMAIN ws : x[1] \in {"outbox", "target"}
    BY DEF Both, Row, QueuedRow, TargetRow
  <2>3. send'[w].pc = "plan"
    BY <1>6, <1>14 DEF Enqueue, Resting
  <2> HIDE DEF ws
  <2>4. QED
    BY <1>9, <2>1, <2>2, <2>3
<1>15. CASE MaybeFinish(w)
  <2>1. send'[w].pc = "commit"
    BY <1>6, <1>15 DEF MaybeFinish, Resting
  <2>2. QED
    BY <1>9, <1>15, <2>1 DEF MaybeFinish, Row, NoRow, CampaignRow
<1>16. ASSUME NEW pc \in {"consent", "enqueue"}, send' = [send EXCEPT ![w].pc = pc],
              UNCHANGED dbVars
       PROVE  LocksSound' /\ (\A x \in AlertRows : Same(x))
  <2>1. send'[w].pc = pc
    BY <1>6, <1>16 DEF Resting
  <2>2. Busy(w)'
    BY <1>1, <2>1 DEF Busy
  <2>3. QED
    BY <1>8, <1>16, <2>2
<1>17. CASE CheckPlan(w) \/ CheckConsent(w)
  BY <1>13, <1>16, <1>17 DEF CheckPlan, CheckConsent
<1>18. QED
  BY <1>7, <1>10, <1>11, <1>12, <1>14, <1>15, <1>17
  DEF Broadcast, BroadcastDies, BroadcastStep, LoseBroadcast, CommitBroadcast

(* Whatever owners do, they do at once: no lock is left.                   *)
LEMMA OwnersKeepLocks ==
  ASSUME LocksSound, Base, OwnerActs
  PROVE  /\ LocksSound' /\ UNCHANGED <<holder, eval, desk, deployed>>
         /\ \A x \in AlertRows : Same(x)
<1>1. UNCHANGED <<holder, eval, desk, deployed>>
  BY DEF OwnerActs, opsVars, alertVars, CreateCampaign, PutOptIn, ChangePlan, WriteNow
<1>2. ASSUME NEW c \in Campaigns, CreateCampaign(c)
      PROVE  (\A x \in AlertRows : Same(x)) /\ send' = send
  <2> DEFINE rows == Both(Row(CampaignRow(c), "queued"),
                          [x \in {TargetRow(c, ch) : ch \in Audience[c]} |-> "pending"])
  <2>1. \A x \in DOMAIN rows : x[1] \in {"campaign", "target"}
    BY DEF Both, Row, CampaignRow, TargetRow
  <2>2. /\ db' = [x \in RowIds |-> IF x \in DOMAIN rows THEN rows[x] ELSE db[x]]
        /\ new' = [x \in RowIds |-> IF x \in DOMAIN rows THEN rows[x] ELSE new[x]]
        /\ send' = send
    BY <1>2 DEF CreateCampaign, campaignVars
  <2> HIDE DEF rows
  <2>3. \A x \in AlertRows : x \notin DOMAIN rows /\ x \in RowIds
    BY <2>1, KindsOfRows, WorkerRows
  <2>4. QED
    BY <1>1, <2>2, <2>3 DEF Same
<1>3. ASSUME NEW y \in CampaignRows, NEW v, WriteNow(y, v)
      PROVE  \A x \in AlertRows : Same(x)
  <2>1. \A x \in AlertRows : x # y /\ x \in RowIds
    BY KindsOfRows, WorkerRows
  <2>2. QED
    BY <1>3, <2>1 DEF WriteNow, Same, Base, RowsOK
<1>4. /\ DOMAIN send' = Broadcasters
      /\ \A w \in Broadcasters : DOMAIN send'[w] = DOMAIN Resting /\ send'[w].pc = send[w].pc
  <2>1. DOMAIN send = Broadcasters /\ \A w \in Broadcasters : DOMAIN send[w] = DOMAIN Resting
    BY DEF LocksSound
  <2>2. ASSUME NEW ch, NEW opted, PutOptIn(ch, opted), NEW w \in Broadcasters
        PROVE  DOMAIN send'[w] = DOMAIN Resting /\ send'[w].pc = send[w].pc
    <3>1. send'[w] \in {send[w], [send[w] EXCEPT !.agreed = send[w].agreed \cup {ch}]}
      BY <2>1, <2>2 DEF PutOptIn, Resting
    <3>2. PICK u : u = [send[w] EXCEPT !.agreed = send[w].agreed \cup {ch}]
      OBVIOUS
    <3>3. DOMAIN u = DOMAIN Resting /\ u.pc = send[w].pc
      BY <2>1, <3>2 DEF Resting
    <3>4. QED
      BY <2>1, <3>1, <3>2, <3>3
  <2>3. ASSUME NEW plan, ChangePlan(plan), NEW w \in Broadcasters
        PROVE  DOMAIN send'[w] = DOMAIN Resting /\ send'[w].pc = send[w].pc
    <3>1. PICK a : send'[w] = [send[w] EXCEPT !.allowed = a]
      BY <2>1, <2>3 DEF ChangePlan
    <3>2. PICK u : u = [send[w] EXCEPT !.allowed = a]
      OBVIOUS
    <3>3. DOMAIN u = DOMAIN Resting /\ u.pc = send[w].pc
      BY <2>1, <3>2 DEF Resting
    <3>4. QED
      BY <3>1, <3>2, <3>3
  <2>4. DOMAIN send' = Broadcasters
    BY <1>2, <2>1 DEF OwnerActs, PutOptIn, ChangePlan
  <2>5. QED
    BY <1>2, <2>1, <2>2, <2>3, <2>4 DEF OwnerActs
<1>5. \A t \in Txs : Busy(t) => Busy(t)'
  BY <1>1, <1>4 DEF Busy
<1>6. \A x \in AlertRows : Same(x)
  BY <1>2, <1>3, WorkerRows DEF OwnerActs, PutOptIn, ChangePlan
<1>7. LocksSound'
  BY <1>1, <1>4, <1>5 DEF LocksSound
<1>8. QED
  BY <1>1, <1>6, <1>7

LEMMA StepLocks == Base /\ LocksSound /\ [Next]_vars => LocksSound'
<1> SUFFICES ASSUME Base, LocksSound, [Next]_vars PROVE LocksSound'
  OBVIOUS
<1>1. CASE UNCHANGED <<holder, desk, eval, send>>
  BY <1>1 DEF LocksSound, Busy
<1>2. CASE UNCHANGED vars \/ Wait
  <2>1. UNCHANGED <<holder, desk, eval, send>>
    BY <1>2 DEF vars, dbVars, opsVars, alertVars, campaignVars, Wait, TimePasses
  <2>2. QED
    BY <1>1, <2>1
<1>3. QED
  BY <1>2, RequestsKeepLocks, HandlersKeepLocks, EvaluatorsKeepLocks, BroadcastersKeepLocks,
     OwnersKeepLocks
  DEF Next

LEMMA InitLocks == Init => LocksSound
<1> SUFFICES ASSUME Init PROVE LocksSound
  OBVIOUS
<1>1. \A x \in RowIds : holder[x] = NoTx
  BY DEF Init
<1>2. /\ DOMAIN eval = Evaluators /\ \A e \in Evaluators : DOMAIN eval[e] = DOMAIN AtRest
      /\ DOMAIN send = Broadcasters /\ \A w \in Broadcasters : DOMAIN send[w] = DOMAIN Resting
  BY DEF Init, AlertsInit, CampaignsInit
<1>3. QED
  BY <1>1, <1>2, WorkerRows, NoTxIsNoTx DEF LocksSound

-----------------------------------------------------------------------------
(* Releases: what is there is one of the statuses, also before it is       *)
(* committed.                                                              *)
LEMMA KeepReleases ==
  ASSUME ReleasesSound,
         \A b \in Builds : LET x == ReleaseRow(b)
                           IN /\ db'[x] \in {db[x], new[x]}
                              /\ new'[x] \in {db[x], new[x]} \cup ReleaseStatuses
  PROVE  ReleasesSound'
BY DEF ReleasesSound, ReleaseStatuses

LEMMA StepReleases == Base /\ ReleasesSound /\ [Next]_vars => ReleasesSound'
<1> SUFFICES ASSUME Base, ReleasesSound, [Next]_vars PROVE ReleasesSound'
  OBVIOUS
<1>1. \A b \in Builds : ReleaseRow(b) \in DeskRows /\ ReleaseRow(b) \in RowIds
  BY WorkerRows DEF DeskRows
<1>2. CASE Others
  BY <1>1, <1>2, OthersAreQuiet, KeepReleases DEF Quiet
<1>3. CASE UNCHANGED dbVars
  BY <1>3, KeepReleases DEF dbVars
<1>4. ASSUME NEW h \in Handlers, Statement(h), ~Refuse(h)
      PROVE  ReleasesSound'
  <2>1. \A x \in RowIds : Same(x) \/ DeskWrites(h, x)
    BY <1>4, StatementsWrite
  <2>2. \A b \in Builds : ReleaseRow(b)[1] = "release"
    BY KindsOfRows
  <2>3. QED
    BY <1>1, <2>1, <2>2, KeepReleases DEF Same, DeskWrites
<1>5. ASSUME NEW h \in Handlers, Publish(h) \/ Rollback(h)
      PROVE  ReleasesSound'
  <2>1. \A x \in RowIds : Ended(h, x)
    BY <1>5, EndOf
  <2>2. QED
    BY <1>1, <2>1, KeepReleases DEF Ended, Same
<1>6. QED
  BY <1>2, <1>3, <1>4, <1>5
  DEF Next, Others, Post, Receive, Handle, Commit, Die, Refuse, vars, dbVars

LEMMA InitReleases == Init => ReleasesSound
<1> SUFFICES ASSUME Init PROVE ReleasesSound
  OBVIOUS
<1>1. ASSUME NEW b \in Builds
      PROVE  db[ReleaseRow(b)] \in {None, "candidate", "current", "rolled_back"}
             /\ new[ReleaseRow(b)] = db[ReleaseRow(b)]
  BY WorkerRows, ReleasesAtStart DEF Init
<1>2. QED
  BY <1>1 DEF ReleasesSound

-----------------------------------------------------------------------------
(* Alerts.                                                                 *)
LEMMA KeepAlert ==
  ASSUME NEW a \in AlertIds, AlertSound(a), Same(AlertRow(a)), Same(AutoRow(a)),
         a \in due' <=> a \in due
  PROVE  AlertSound(a)'
BY DEF AlertSound, Same

LEMMA KeepAlerts ==
  ASSUME AlertsInv, \A x \in AlertRows : Same(x), UNCHANGED due
  PROVE  AlertsInv'
<1> SUFFICES ASSUME NEW a \in AlertIds PROVE AlertSound(a)'
  BY DEF AlertsInv
<1>1. AlertSound(a) /\ Same(AlertRow(a)) /\ Same(AutoRow(a))
  BY WorkerRows DEF AlertsInv
<1>2. QED
  BY <1>1, KeepAlert

LEMMA AlertRowsDiffer ==
  /\ \A a, b \in AlertIds : AlertRow(a) = AlertRow(b) \/ AutoRow(a) = AutoRow(b) => a = b
  /\ \A a, b : AlertRow(a) # AutoRow(b)
BY DEF AlertRow, AutoRow, AlertIds

(* An alert is committed with its run, or lost with it.                    *)
LEMMA EndKeepsAlerts ==
  ASSUME AlertsInv, Base, NEW e, e # NoTx, Publish(e) \/ Rollback(e), UNCHANGED due
  PROVE  AlertsInv'
<1> SUFFICES ASSUME NEW a \in AlertIds PROVE AlertSound(a)'
  BY DEF AlertsInv
<1> DEFINE x == AlertRow(a)
           y == AutoRow(a)
<1>1. AlertSound(a) /\ x \in RowIds /\ y \in RowIds
  BY WorkerRows DEF AlertsInv
<1>2. holder[y] # NoTx => holder[y] = holder[x]
  BY <1>1 DEF AlertSound
<1>3. CASE holder[x] # e
  <2>1. Same(x) /\ Same(y)
    <3>1. holder[y] # e
      BY <1>2, <1>3
    <3>2. Ended(e, x) /\ Ended(e, y)
      BY <1>1, EndOf
    <3>3. QED
      BY <1>3, <3>1, <3>2 DEF Ended
  <2>2. QED
    BY <1>1, <2>1, KeepAlert
<1>4. CASE holder[x] = e
  <2>1. holder[y] = e \/ (holder[y] = NoTx /\ new[y] = db[y])
    <3>1. CASE holder[y] = NoTx
      BY <1>1, <3>1 DEF Base, RowsOK, UnlockedIsCommitted
    <3>2. QED
      BY <1>2, <1>4, <3>1
  <2>2. holder'[x] = NoTx /\ holder'[y] = NoTx
    BY <1>1, <1>4, <2>1 DEF Publish, Rollback, Release
  <2>3. CASE Publish(e)
    <3>1. db'[x] = new[x] /\ new'[x] = new[x] /\ db'[y] = new[y] /\ new'[y] = new[y]
      BY <1>1, <1>4, <2>1, <2>3 DEF Publish
    <3>2. QED
      BY <1>1, <2>2, <3>1 DEF AlertSound
  <2>4. CASE Rollback(e)
    <3>1. db'[x] = db[x] /\ new'[x] = db[x] /\ db'[y] = db[y] /\ new'[y] = db[y]
      BY <1>1, <1>4, <2>1, <2>4 DEF Rollback
    <3>2. QED
      BY <1>1, <2>2, <3>1 DEF AlertSound
  <2>5. QED
    BY <2>3, <2>4
<1>5. QED
  BY <1>3, <1>4

(* A new alert: nobody else is recording it, and its run, if one is to be  *)
(* started, is written with it.                                            *)
LEMMA RecordKeepsAlerts ==
  ASSUME AlertsInv, Base, SopsInv, LocksSound, NEW e \in Evaluators, NEW type \in Types,
         Record(e, type), new[AlertRow(AlertOf(e, type))] = None
  PROVE  AlertsInv'
<1>0. PICK a : a = AlertOf(e, type)
  OBVIOUS
<1> DEFINE x == AlertRow(a)
           y == AutoRow(a)
           s == SopFor[type]
           run == [sop |-> s, version |-> Sees(e, SopRow(s)).current]
           ws == Both(Row(x, "recorded"), AutoRun(e, a))
<1>1. e # NoTx /\ a[1] = type /\ x # y /\ new[x] = None
  BY <1>0, TxsAre, NoTxIsNoTx, AlertRowsDiffer DEF AlertOf
<1>2. Write(e, ws) /\ due' = IF Mapped(e, type) THEN due \cup {a} ELSE due \ {a}
  BY <1>0, <1>1 DEF Record
<1>3. AutoRun(e, a) = IF Mapped(e, type) /\ ~RunExists(e, a) THEN Row(y, run) ELSE NoRow
  BY <1>1 DEF AutoRun
<1>4. DOMAIN ws \subseteq {x, y}
  BY <1>3 DEF Both, Row, NoRow
<1>5. ASSUME NEW b \in AlertIds \ {a}
      PROVE  AlertSound(b)'
  <2>1. AlertRow(b) # x /\ AutoRow(b) # y /\ AlertRow(b) # y /\ AutoRow(b) # x
    BY <1>0, <1>5 DEF AlertRow, AutoRow, AlertIds, AlertOf
  <2>2. Same(AlertRow(b)) /\ Same(AutoRow(b))
    BY <1>2, <1>4, <2>1, WorkerRows DEF Write, Same
  <2>3. b \in due' <=> b \in due
    BY <1>2, <1>5
  <2>4. QED
    BY <2>2, <2>3, KeepAlert DEF AlertsInv
<1>6. ASSUME a \in AlertIds
      PROVE  AlertSound(a)'
  <2>1. AlertSound(a) /\ x \in RowIds /\ y \in RowIds
    BY <1>6, WorkerRows DEF AlertsInv
  <2>2. holder[x] = NoTx /\ new[x] = None
    BY <1>1, <2>1 DEF AlertSound
  <2>3. db[x] = None /\ holder[y] = NoTx /\ db[y] = None /\ new[y] = None
    BY <2>1, <2>2 DEF AlertSound, Base, RowsOK, UnlockedIsCommitted
  <2>4. ~RunExists(e, a)
    BY <1>1, <2>3 DEF RunExists, Sees
  <2>5. x \in DOMAIN ws /\ ws[x] = "recorded"
    BY DEF Both, Row
  <2>6. UNCHANGED db /\ new'[x] = "recorded" /\ holder'[x] = e
    BY <1>2, <2>1, <2>5 DEF Write
  <2>7. CASE Mapped(e, type)
    <3>1. y \in DOMAIN ws /\ ws[y] = run
      BY <1>1, <1>3, <2>4, <2>7 DEF Both, Row
    <3>2. new'[y] = run /\ holder'[y] = e
      BY <1>2, <2>1, <3>1 DEF Write
    <3>3. Sees(e, SopRow(s)) = db[SopRow(s)] /\ s \in Sops
      BY AlertsNameSops, ProcessesDiffer, TxsAre, NoTxIsNoTx, SopRowsAreRows
      DEF Sees, Base, RowsOK
    <3>4. db[SopRow(s)] # None
      BY <2>7, <3>3 DEF Mapped
    <3>5. db[SopRow(s)].current \in Versions
      BY <3>3, <3>4 DEF SopsInv, SopSound, SopRecords
    <3>6. run \in [sop : Sops, version : Versions]
      BY <3>3, <3>5
    <3>7. run # None
      BY <3>6, NoneIsNoAlert
    <3>8. new'[x] # None /\ a \in due'
      BY <1>2, <2>6, <2>7, NoneIsNoAlert
    <3> HIDE DEF run, x, y
    <3>9. QED
      BY <2>3, <2>6, <3>2, <3>7, <3>8 DEF AlertSound, x, y
  <2>8. CASE ~Mapped(e, type)
    <3>1. y \notin DOMAIN ws
      BY <1>1, <1>3, <2>8 DEF Both, Row, NoRow
    <3>2. new'[y] = None /\ holder'[y] = NoTx
      BY <1>2, <2>1, <2>3, <3>1 DEF Write
    <3>3. new'[x] # None /\ a \notin due'
      BY <1>2, <2>6, <2>8, NoneIsNoAlert
    <3>4. QED
      BY <2>3, <2>6, <3>2, <3>3 DEF AlertSound
  <2>9. QED
    BY <2>7, <2>8
<1>7. QED
  BY <1>5, <1>6 DEF AlertsInv

LEMMA StepAlerts ==
  Base /\ SopsInv /\ LocksSound /\ AlertsInv /\ [Next]_vars => AlertsInv'
<1> SUFFICES ASSUME Base, SopsInv, LocksSound, AlertsInv, [Next]_vars PROVE AlertsInv'
  OBVIOUS
<1>1. CASE (\A x \in AlertRows : Same(x)) /\ UNCHANGED due
  BY <1>1, KeepAlerts
<1>2. CASE UNCHANGED <<dbVars, due>>
  BY <1>1, <1>2 DEF dbVars, Same
<1>3. ASSUME NEW e \in Evaluators, Tick(e)
      PROVE  AlertsInv'
  <2>1. e # NoTx
    BY TxsAre, NoTxIsNoTx
  <2>2. ASSUME NEW type \in Types, Record(e, type)
        PROVE  AlertsInv'
    <3>1. CASE new[AlertRow(AlertOf(e, type))] = None
      BY <2>2, <3>1, RecordKeepsAlerts
    <3>2. CASE new[AlertRow(AlertOf(e, type))] # None
      BY <1>2, <2>2, <3>2 DEF Record
    <3>3. QED
      BY <3>1, <3>2
  <2>3. QED
    BY <1>2, <1>3, <2>1, <2>2, EndKeepsAlerts
    DEF Tick, StartTick, Evaluate, EndTick, LoseEvaluation, NoSpike, StatementFails
<1>4. ASSUME NEW h \in Handlers, Handle(h)
      PROVE  AlertsInv'
  BY <1>1, <1>4, HandlersKeepLocks DEF Handle, alertVars
<1>5. ASSUME NEW w \in Broadcasters, Broadcast(w) \/ BroadcastDies(w)
      PROVE  AlertsInv'
  BY <1>1, <1>5, BroadcastersKeepLocks DEF Broadcast, BroadcastDies, alertVars
<1>6. CASE OwnerActs
  BY <1>1, <1>6, OwnersKeepLocks DEF OwnerActs, alertVars
<1>7. CASE Wait \/ UNCHANGED vars
  BY <1>2, <1>7 DEF Wait, TimePasses, vars, alertVars
<1>8. ASSUME NEW h \in Handlers, NEW q \in deployed.requests, Post(h, q)
      PROVE  AlertsInv'
  BY <1>2, <1>8 DEF Post, Receive, alertVars
<1>9. QED
  BY <1>3, <1>4, <1>5, <1>6, <1>7, <1>8 DEF Next

LEMMA InitAlerts == Init => AlertsInv
<1> SUFFICES ASSUME Init, NEW a \in AlertIds PROVE AlertSound(a)
  BY DEF AlertsInv
<1>1. AlertRow(a) \in RowIds /\ AutoRow(a) \in RowIds /\ AutoRow(a)[1] = "run"
  BY WorkerRows, KindsOfRows
<1>2. /\ holder[AlertRow(a)] = NoTx /\ holder[AutoRow(a)] = NoTx
      /\ db[AutoRow(a)] = None /\ new = db /\ due = {}
  BY <1>1, NoRunsAtStart DEF Init, AlertsInit
<1>3. QED
  BY <1>2 DEF AlertSound

(* Every alert for which a mapped, active SOP was found has its run, and   *)
(* no run is there without its alert, however many evaluators overlap, are *)
(* aborted or are lost, and whatever the operators change meanwhile.       *)
THEOREM AlertsHaveRuns == Spec => []AlertsWithRuns
<1>1. Spec => []AlertsInv
  BY InitBase, InitSops, InitLocks, InitAlerts, StepBase, StepSops, StepLocks, StepAlerts, PTL
  DEF Spec
<1>2. AlertsInv => AlertsWithRuns
  BY DEF AlertsInv, AlertSound, AlertsWithRuns
<1>3. QED
  BY <1>1, <1>2, PTL

-----------------------------------------------------------------------------
(* Broadcasts.                                                             *)
LEMMA CampaignRowsDiffer ==
  /\ \A c, d : CampaignRow(c) = CampaignRow(d) => c = d
  /\ \A c, d, ch, dh : TargetRow(c, ch) = TargetRow(d, dh) => c = d /\ ch = dh
  /\ \A c, d, ch, dh : QueuedRow(c, ch) = QueuedRow(d, dh) => c = d /\ ch = dh
  /\ \A c, d, ch : CampaignRow(c) # TargetRow(d, ch) /\ CampaignRow(c) # QueuedRow(d, ch)
  /\ \A c, d, ch, dh : TargetRow(c, ch) # QueuedRow(d, dh)
  /\ \A c, ch, dh : OptInRow(dh) \notin {CampaignRow(c), TargetRow(c, ch), QueuedRow(c, ch)}
  /\ \A c, ch : PlanRow \notin {CampaignRow(c), TargetRow(c, ch), QueuedRow(c, ch)}
  /\ \A ch, dh : OptInRow(ch) = OptInRow(dh) => ch = dh
  /\ \A ch : OptInRow(ch) # PlanRow
BY DEF CampaignRow, TargetRow, QueuedRow, OptInRow, PlanRow

(* The rows of one campaign, and what was told of consent and plan.        *)
SameCampaign(c) ==
  /\ Same(CampaignRow(c))
  /\ \A ch \in Chats : Same(TargetRow(c, ch)) /\ Same(QueuedRow(c, ch))

SameTerms == (\A ch \in Chats : Same(OptInRow(ch))) /\ Same(PlanRow)

LEMMA KeepCampaign ==
  ASSUME NEW c \in Campaigns, CampaignSound(c), SameCampaign(c),
         holder[CampaignRow(c)] # NoTx => send'[holder[CampaignRow(c)]].campaign = c
  PROVE  CampaignSound(c)'
BY DEF CampaignSound, SameCampaign, Same, Pair

LEMMA SameTermsAgree ==
  ASSUME SameTerms
  PROVE  Agreed' = Agreed /\ db'[PlanRow] = db[PlanRow]
BY DEF SameTerms, Same, Agreed

LEMMA KeepSender ==
  ASSUME NEW w \in Broadcasters, SenderSound(w), SenderCareful(w), UNCHANGED send[w],
         SameTerms, send[w].campaign # None => SameCampaign(send[w].campaign)
  PROVE  SenderSound(w)' /\ SenderCareful(w)'
<1> DEFINE c == send[w].campaign
<1>1. Agreed' = Agreed /\ db'[PlanRow] = db[PlanRow]
  BY SameTermsAgree
<1>2. send[w].left \in SUBSET Chats /\ (c = None => send[w].left = {})
  BY DEF SenderSound
<1>3. c # None => /\ holder'[CampaignRow(c)] = holder[CampaignRow(c)]
                  /\ new'[CampaignRow(c)] = new[CampaignRow(c)]
                  /\ \A ch \in Chats : /\ holder'[TargetRow(c, ch)] = holder[TargetRow(c, ch)]
                                       /\ new'[TargetRow(c, ch)] = new[TargetRow(c, ch)]
                                       /\ holder'[QueuedRow(c, ch)] = holder[QueuedRow(c, ch)]
  BY DEF SameCampaign, Same
<1>4. SenderSound(w)'
  BY <1>2, <1>3 DEF SenderSound
<1>5. Target(w)' = Target(w)
  BY DEF Target
<1>6. SenderCareful(w)'
  BY <1>1, <1>3, <1>5 DEF SenderCareful, Respects, PlanAllows
<1>7. QED
  BY <1>4, <1>6

(* A step that leaves campaigns alone, and those who work on them.         *)
LEMMA KeepCampaigns ==
  ASSUME CampaignsInv, \A x \in CampaignRows : Same(x), UNCHANGED send
  PROVE  CampaignsInv'
<1>1. SameTerms /\ \A c \in Campaigns : SameCampaign(c)
  BY WorkerRows DEF SameTerms, SameCampaign
<1>2. ASSUME NEW c \in Campaigns
      PROVE  CampaignSound(c)'
  BY <1>1, KeepCampaign DEF CampaignsInv, CampaignSound
<1>3. ASSUME NEW w \in Broadcasters
      PROVE  SenderSound(w)' /\ SenderCareful(w)'
  BY <1>1, KeepSender DEF CampaignsInv, SenderSound
<1>4. QED
  BY <1>2, <1>3 DEF CampaignsInv

(* A step of w that touches at most the campaign it has, or one that       *)
(* nobody has.                                                             *)
LEMMA OneSenderSteps ==
  ASSUME CampaignsInv, LocksSound, NEW w \in Broadcasters, SameTerms,
         \A v \in Broadcasters \ {w} : send'[v] = send[v],
         NEW mine \in SUBSET Campaigns, send[w].campaign \in mine \cup {None},
         \A c \in mine : holder[CampaignRow(c)] \in {w, NoTx} /\ CampaignSound(c)',
         \A c \in Campaigns \ mine : SameCampaign(c),
         SenderSound(w)', SenderCareful(w)'
  PROVE  CampaignsInv'
<1>1. ASSUME NEW v \in Broadcasters \ {w}
      PROVE  SenderSound(v)' /\ SenderCareful(v)'
  <2>1. SenderSound(v) /\ SenderCareful(v) /\ v # NoTx
    BY TxsAre, NoTxIsNoTx DEF CampaignsInv
  <2>2. send[v].campaign # None => send[v].campaign \in Campaigns \ mine
    BY <2>1 DEF SenderSound
  <2>3. QED
    BY <2>1, <2>2, KeepSender
<1>2. ASSUME NEW c \in Campaigns \ mine
      PROVE  CampaignSound(c)'
  <2>1. CampaignSound(c) /\ SameCampaign(c) /\ CampaignRow(c) \in CampaignRows
    BY WorkerRows DEF CampaignsInv
  <2>2. ASSUME holder[CampaignRow(c)] # NoTx
        PROVE  send'[holder[CampaignRow(c)]].campaign = c
    <3>1. PICK v : v = holder[CampaignRow(c)]
      OBVIOUS
    <3>2. v \in Broadcasters /\ send[v].campaign = c
      BY <2>1, <2>2, <3>1 DEF CampaignSound, LocksSound
    <3>3. v # w
      BY <3>2, CampaignsAreNamed
    <3>4. send'[v] = send[v]
      BY <3>2, <3>3
    <3>5. QED
      BY <3>1, <3>2, <3>4
  <2>3. QED
    BY <2>1, <2>2, KeepCampaign
<1>3. QED
  BY <1>1, <1>2 DEF CampaignsInv

(* What w holds of its own campaign.                                       *)
LEMMA RowsOfSender ==
  ASSUME CampaignsInv, LocksSound, NEW w \in Broadcasters, send[w].campaign # None,
         NEW c, c = send[w].campaign
  PROVE  /\ c \in Campaigns /\ CampaignSound(c) /\ holder[CampaignRow(c)] = w /\ w # NoTx
         /\ CampaignRow(c) \in RowIds
         /\ \A ch \in Chats : /\ TargetRow(c, ch) \in RowIds /\ QueuedRow(c, ch) \in RowIds
                              /\ holder[TargetRow(c, ch)] \in {w, NoTx}
                              /\ holder[QueuedRow(c, ch)] \in {w, NoTx}
<1>1. c \in Campaigns /\ holder[CampaignRow(c)] = w /\ w # NoTx
  BY TxsAre, NoTxIsNoTx DEF CampaignsInv, SenderSound
<1>2. CampaignSound(c)
  BY <1>1 DEF CampaignsInv
<1>3. QED
  BY <1>1, <1>2, WorkerRows DEF CampaignSound

(* A statement of w writes some rows of its campaign c.                    *)
LEMMA WritesApart ==
  ASSUME NEW w, NEW c, NEW ws, Write(w, ws),
         \A x \in DOMAIN ws : \E ch : x \in {CampaignRow(c), TargetRow(c, ch), QueuedRow(c, ch)}
  PROVE  SameTerms /\ \A d \in Campaigns \ {c} : SameCampaign(d)
<1>1. \A x \in RowIds \ DOMAIN ws : Same(x)
  BY DEF Write, Same
<1>2. SameTerms
  <2>1. \A ch \in Chats : OptInRow(ch) \in RowIds \ DOMAIN ws
    BY WorkerRows, CampaignRowsDiffer
  <2>2. PlanRow \in RowIds \ DOMAIN ws
    BY WorkerRows, CampaignRowsDiffer
  <2>3. QED
    BY <1>1, <2>1, <2>2 DEF SameTerms
<1>3. ASSUME NEW d \in Campaigns \ {c}
      PROVE  SameCampaign(d)
  <2>1. CampaignRow(d) \in RowIds \ DOMAIN ws
    BY WorkerRows, CampaignRowsDiffer
  <2>2. \A ch \in Chats : TargetRow(d, ch) \in RowIds \ DOMAIN ws
    BY WorkerRows, CampaignRowsDiffer
  <2>3. \A ch \in Chats : QueuedRow(d, ch) \in RowIds \ DOMAIN ws
    BY WorkerRows, CampaignRowsDiffer
  <2>4. QED
    BY <1>1, <2>1, <2>2, <2>3 DEF SameCampaign
<1>4. QED
  BY <1>2, <1>3

-----------------------------------------------------------------------------
(* Ticks: the start, and picking a campaign.                               *)
LEMMA RestIsSound ==
  ASSUME NEW w \in Broadcasters, send'[w] = Resting
  PROVE  SenderSound(w)' /\ SenderCareful(w)'
<1>1. {} \in SUBSET Chats /\ Cardinality({}) <= TickSize
  BY FS_EmptySet, TicksAreBounded
<1>2. QED
  BY <1>1 DEF SenderSound, SenderCareful, Resting, Stages

LEMMA StartKeepsCampaigns ==
  ASSUME CampaignsInv, LocksSound, NEW w \in Broadcasters, Broadcast(w), StartBroadcast(w)
  PROVE  CampaignsInv'
<1>1. \A x \in CampaignRows : Same(x)
  BY DEF StartBroadcast, dbVars, Same
<1>2. SameTerms /\ \A c \in Campaigns : SameCampaign(c)
  BY <1>1, WorkerRows DEF SameTerms, SameCampaign
<1>3. Agreed' = Agreed /\ db'[PlanRow] = db[PlanRow]
  BY <1>2, SameTermsAgree
<1>4. PICK policy :
        send' = [send EXCEPT ![w] =
                  [Resting EXCEPT !.pc = "pick", !.policy = policy, !.agreed = Agreed,
                                  !.allowed = PlanAllows(policy, db[PlanRow])]]
  BY DEF StartBroadcast
<1>5. /\ send'[w].pc = "pick" /\ send'[w].policy = policy /\ send'[w].agreed = Agreed
      /\ send'[w].allowed = PlanAllows(policy, db[PlanRow])
      /\ send'[w].campaign = None /\ send'[w].left = {}
  BY <1>4 DEF LocksSound, Resting
<1>6. {} \in SUBSET Chats /\ Cardinality({}) <= TickSize
  BY FS_EmptySet, TicksAreBounded
<1>7. SenderSound(w)'
  BY <1>5, <1>6 DEF SenderSound, Stages
<1>8. SenderCareful(w)'
  BY <1>3, <1>5 DEF SenderCareful, PlanAllows
<1>9. send[w].campaign = None
  BY DEF CampaignsInv, SenderSound, StartBroadcast
<1>10. {} \in SUBSET Campaigns /\ send[w].campaign \in {} \cup {None}
  BY <1>9
<1>11. QED
  BY <1>2, <1>7, <1>8, <1>10, SendersStep, OneSenderSteps

LEMMA PickKeepsCampaigns ==
  ASSUME CampaignsInv, LocksSound, Base, NEW w \in Broadcasters, Broadcast(w), Pick(w)
  PROVE  CampaignsInv'
<1>1. /\ SenderSound(w) /\ SenderCareful(w) /\ send[w].pc = "pick" /\ w # NoTx
      /\ send[w].campaign = None /\ send[w].left = {}
  BY TxsAre, NoTxIsNoTx DEF CampaignsInv, SenderSound, Pick
<1>2. \A v \in Broadcasters \ {w} : send'[v] = send[v]
  BY SendersStep
<1>3. CASE Pickable = {}
  <2>1. SameTerms /\ \A c \in Campaigns : SameCampaign(c)
    BY <1>3, WorkerRows DEF Pick, dbVars, SameTerms, SameCampaign, Same
  <2>2. send'[w] = Resting
    BY <1>3 DEF Pick, LocksSound
  <2>3. {} \in SUBSET Campaigns /\ send[w].campaign \in {} \cup {None}
    BY <1>1
  <2>4. QED
    BY <1>2, <2>1, <2>2, <2>3, RestIsSound, OneSenderSteps
<1>4. CASE Pickable # {}
  <2>1. PICK c \in Pickable :
          /\ Write(w, Row(CampaignRow(c), "running"))
          /\ send' = [send EXCEPT ![w].pc = "targets", ![w].campaign = c]
    BY <1>4 DEF Pick
  <2> DEFINE x == CampaignRow(c)
  <2>2. c \in Campaigns /\ db[x] = "queued" /\ holder[x] = NoTx /\ x \in RowIds
    BY <2>1, WorkerRows DEF Pickable
  <2>3. /\ send'[w].pc = "targets" /\ send'[w].campaign = c /\ send'[w].left = {}
        /\ send'[w].policy = send[w].policy /\ send'[w].agreed = send[w].agreed
        /\ send'[w].allowed = send[w].allowed
    BY <1>1, <2>1 DEF LocksSound, Resting
  <2>4. SameTerms /\ \A d \in Campaigns \ {c} : SameCampaign(d)
    BY <2>1, WritesApart DEF Row
  <2>5. /\ UNCHANGED db /\ holder'[x] = w /\ new'[x] = "running"
        /\ \A ch \in Chats : Same(TargetRow(c, ch)) /\ Same(QueuedRow(c, ch))
    BY <2>1, <2>2, CampaignRowsDiffer, WorkerRows DEF Write, Row, Same
  <2>6. CampaignSound(c) /\ \A ch \in Chats : /\ holder[TargetRow(c, ch)] = NoTx
                                              /\ holder[QueuedRow(c, ch)] = NoTx
    BY <2>2 DEF CampaignsInv, CampaignSound
  <2>7. CampaignSound(c)'
    BY <2>2, <2>3, <2>5, <2>6, NoneIsNoStatus DEF CampaignSound, Same, Pair
  <2>8. c # None
    BY <2>2, CampaignsAreNamed
  <2>9. SenderSound(w)'
    BY <1>1, <2>2, <2>3, <2>5, <2>8 DEF SenderSound, Stages
  <2>10. Agreed' = Agreed /\ db'[PlanRow] = db[PlanRow]
    BY <2>4, SameTermsAgree
  <2>11. \A ch \in Chats : holder'[QueuedRow(c, ch)] # w
    BY <1>1, <2>5, <2>6 DEF Same
  <2>12. SenderCareful(w)'
    BY <1>1, <2>3, <2>10, <2>11 DEF SenderCareful, PlanAllows
  <2>13. {c} \in SUBSET Campaigns /\ send[w].campaign \in {c} \cup {None}
    BY <1>1, <2>2
  <2>14. QED
    BY <1>2, <2>2, <2>4, <2>7, <2>9, <2>12, <2>13, OneSenderSteps
<1>5. QED
  BY <1>3, <1>4

-----------------------------------------------------------------------------
(* The targets.                                                            *)
LEMMA SelectKeepsCampaigns ==
  ASSUME CampaignsInv, LocksSound, Base, NEW w \in Broadcasters, Broadcast(w), SelectTargets(w)
  PROVE  CampaignsInv'
<1>1. /\ SenderSound(w) /\ SenderCareful(w) /\ send[w].pc = "targets"
      /\ send[w].campaign # None
  BY DEF CampaignsInv, SenderSound, SelectTargets
<1>2. PICK c : c = send[w].campaign
  OBVIOUS
<1> DEFINE x == CampaignRow(c)
           ws(S) == [y \in {TargetRow(c, ch) : ch \in S} |-> new[y]]
<1>3. /\ c \in Campaigns /\ CampaignSound(c) /\ holder[x] = w /\ w # NoTx /\ x \in RowIds
      /\ \A ch \in Chats : /\ TargetRow(c, ch) \in RowIds /\ QueuedRow(c, ch) \in RowIds
                           /\ holder[TargetRow(c, ch)] \in {w, NoTx}
                           /\ holder[QueuedRow(c, ch)] \in {w, NoTx}
  BY <1>1, <1>2, RowsOfSender
<1>4. PICK S : /\ S \subseteq {ch \in Pending(w, c) : holder[TargetRow(c, ch)] = NoTx}
               /\ Cardinality(S) <= TickSize
               /\ Write(w, ws(S))
               /\ send' = [send EXCEPT ![w].pc = "plan", ![w].left = S]
  <2>1. PICK S : /\ S \subseteq {ch \in Pending(w, send[w].campaign) :
                                   holder[TargetRow(send[w].campaign, ch)] = NoTx}
                 /\ Cardinality(S) <= TickSize
                 /\ Write(w, [y \in {TargetRow(send[w].campaign, ch) : ch \in S} |-> new[y]])
                 /\ send' = [send EXCEPT ![w].pc = "plan", ![w].left = S]
    BY DEF SelectTargets
  <2>2. ws(S) = [y \in {TargetRow(send[w].campaign, ch) : ch \in S} |-> new[y]]
    BY <1>2
  <2>3. Write(w, ws(S))
    BY <2>1, <2>2
  <2> HIDE DEF ws
  <2>4. QED
    BY <1>2, <2>1, <2>3
<1>5. /\ send'[w].pc = "plan" /\ send'[w].campaign = c /\ send'[w].left = S
      /\ send'[w].policy = send[w].policy /\ send'[w].agreed = send[w].agreed
      /\ send'[w].allowed = send[w].allowed
  BY <1>2, <1>4 DEF LocksSound, Resting
<1>6. SameTerms /\ \A d \in Campaigns \ {c} : SameCampaign(d)
  <2>1. \A y \in DOMAIN ws(S) : \E ch : y = TargetRow(c, ch)
    OBVIOUS
  <2> HIDE DEF ws
  <2>2. QED
    BY <1>4, <2>1, WritesApart
<1>7. S \in SUBSET Chats /\ \A ch \in S : new[TargetRow(c, ch)] = "pending"
  BY <1>3, <1>4 DEF Pending, Sees, Base, RowsOK, UnlockedIsCommitted
<1>8. /\ UNCHANGED db /\ Same(x) /\ \A ch \in Chats : Same(QueuedRow(c, ch))
      /\ \A ch \in Chats : new'[TargetRow(c, ch)] = new[TargetRow(c, ch)]
  BY <1>3, <1>4, CampaignRowsDiffer DEF Write, Same
<1>9. \A ch \in Chats : IF ch \in S THEN holder'[TargetRow(c, ch)] = w
                                    ELSE holder'[TargetRow(c, ch)] = holder[TargetRow(c, ch)]
  BY <1>3, <1>4, CampaignRowsDiffer DEF Write
<1>10. \A ch \in Chats : /\ holder'[TargetRow(c, ch)] \in {w, NoTx}
                         /\ holder'[QueuedRow(c, ch)] # NoTx =>
                              holder'[QueuedRow(c, ch)] = holder'[TargetRow(c, ch)]
  BY <1>3, <1>7, <1>8, <1>9 DEF CampaignSound, Same
<1>11. CampaignSound(c)'
  BY <1>3, <1>5, <1>8, <1>10 DEF CampaignSound, Same, Pair
<1>12. new[x] = "running"
  BY <1>1, <1>2 DEF SenderSound
<1>13. SenderSound(w)'
  BY <1>1, <1>2, <1>3, <1>4, <1>5, <1>7, <1>8, <1>9, <1>12 DEF SenderSound, Stages, Same
<1>14. Agreed' = Agreed /\ db'[PlanRow] = db[PlanRow]
  BY <1>6, SameTermsAgree
<1>15. SenderCareful(w)'
  BY <1>1, <1>2, <1>5, <1>8, <1>14 DEF SenderCareful, Respects, PlanAllows, Same
<1>16. {c} \in SUBSET Campaigns /\ send[w].campaign \in {c} \cup {None}
  BY <1>2, <1>3
<1>17. QED
  BY <1>3, <1>6, <1>11, <1>13, <1>15, <1>16, SendersStep, OneSenderSteps

(* A target that is settled, with or without a message: its row is locked  *)
(* and pending, so there was no message before.                            *)
LEMMA SettledKeepsCampaigns ==
  ASSUME CampaignsInv, LocksSound, NEW w \in Broadcasters, Broadcast(w),
         send[w].pc \in {"plan", "consent", "enqueue"}, send[w].left # {},
         NEW c, c = send[w].campaign, NEW t, t = Target(w),
         NEW ws, Write(w, ws), TargetRow(c, t) \in DOMAIN ws,
         ws[TargetRow(c, t)] \in {"enqueued", "skipped_plan", "skipped_no_optin"},
         DOMAIN ws \subseteq {TargetRow(c, t), QueuedRow(c, t)},
         IF ws[TargetRow(c, t)] = "enqueued"
           THEN QueuedRow(c, t) \in DOMAIN ws /\ ws[QueuedRow(c, t)] = "PENDING" /\ Respects(w, t)
           ELSE QueuedRow(c, t) \notin DOMAIN ws,
         send' = [send EXCEPT ![w].pc = "plan", ![w].left = send[w].left \ {t}]
  PROVE  CampaignsInv'
<1> DEFINE x == CampaignRow(c)
           y == TargetRow(c, t)
           z == QueuedRow(c, t)
           left == send[w].left
<1>1. SenderSound(w) /\ SenderCareful(w) /\ c # None
  BY DEF CampaignsInv, SenderSound
<1>2. /\ c \in Campaigns /\ CampaignSound(c) /\ holder[x] = w /\ w # NoTx /\ x \in RowIds
      /\ \A ch \in Chats : /\ TargetRow(c, ch) \in RowIds /\ QueuedRow(c, ch) \in RowIds
                           /\ holder[TargetRow(c, ch)] \in {w, NoTx}
                           /\ holder[QueuedRow(c, ch)] \in {w, NoTx}
  BY <1>1, RowsOfSender
<1>3. t \in left /\ left \in SUBSET Chats /\ holder[y] = w /\ new[y] = "pending"
      /\ new[x] = "running"
  BY <1>1 DEF Target, SenderSound
<1>4. /\ send'[w].pc = "plan" /\ send'[w].campaign = c /\ send'[w].left = left \ {t}
      /\ send'[w].policy = send[w].policy /\ send'[w].agreed = send[w].agreed
      /\ send'[w].allowed = send[w].allowed
  BY DEF LocksSound, Resting
<1>5. SameTerms /\ \A d \in Campaigns \ {c} : SameCampaign(d)
  BY WritesApart
<1>6. /\ UNCHANGED db /\ Same(x) /\ holder'[y] = w /\ new'[y] = ws[y]
      /\ \A ch \in Chats \ {t} : Same(TargetRow(c, ch)) /\ Same(QueuedRow(c, ch))
  <2>1. x \notin DOMAIN ws
    BY CampaignRowsDiffer
  <2>2. \A ch \in Chats \ {t} : TargetRow(c, ch) \notin DOMAIN ws /\ QueuedRow(c, ch) \notin DOMAIN ws
    BY CampaignRowsDiffer
  <2>3. QED
    BY <1>2, <1>3, <2>1, <2>2 DEF Write, Same
<1>7. new[z] = None /\ y \in RowIds /\ z \in RowIds
  BY <1>2, <1>3 DEF CampaignSound, Pair
<1>8. \/ ws[y] = "enqueued" /\ new'[z] = "PENDING" /\ holder'[z] = w
      \/ ws[y] # "enqueued" /\ new'[z] = None /\ holder'[z] = holder[z]
  BY <1>7 DEF Write
<1>9. Pair(new'[y], new'[z])
  BY <1>6, <1>8, NoneIsNoStatus DEF Pair
<1>10. ASSUME NEW ch \in Chats
       PROVE  /\ Pair(new'[TargetRow(c, ch)], new'[QueuedRow(c, ch)])
              /\ Pair(db'[TargetRow(c, ch)], db'[QueuedRow(c, ch)])
              /\ holder'[QueuedRow(c, ch)] # NoTx =>
                   holder'[QueuedRow(c, ch)] = holder'[TargetRow(c, ch)]
              /\ holder'[TargetRow(c, ch)] # NoTx => holder'[TargetRow(c, ch)] = w
  <2>1. CASE ch = t
    <3>1. Pair(db'[y], db'[z])
      BY <1>2, <1>3, <1>6 DEF CampaignSound
    <3>2. holder'[z] \in {w, NoTx}
      BY <1>2, <1>3, <1>8
    <3>3. QED
      BY <1>6, <1>9, <2>1, <3>1, <3>2
  <2>2. CASE ch # t
    BY <1>2, <1>6, <2>2 DEF CampaignSound, Same
  <2>3. QED
    BY <2>1, <2>2
<1>11. CampaignSound(c)'
  <2>1. /\ db[x] \in {None, "queued", "running", "completed"} /\ db[x] # None
        /\ \A ch \in Chats : db[x] = "completed" => db[TargetRow(c, ch)] # "pending"
    BY <1>2 DEF CampaignSound
  <2>2. db'[x] = db[x] /\ new'[x] = "running" /\ holder'[x] = w
    BY <1>2, <1>3, <1>6 DEF Same
  <2>3. send'[w].campaign = c
    BY <1>4
  <2>4. \A ch \in Chats : db'[TargetRow(c, ch)] = db[TargetRow(c, ch)]
    BY <1>6
  <2>5. QED
    BY <1>10, <2>1, <2>2, <2>3, <2>4 DEF CampaignSound
<1>12. SenderSound(w)'
  <2>1. IsFiniteSet(left) /\ Cardinality(left) <= TickSize
    BY <1>1, <1>3, FS_Subset, TicksAreBounded DEF SenderSound
  <2>2. /\ left \ {t} \in SUBSET Chats /\ Cardinality(left \ {t}) <= Cardinality(left)
        /\ Cardinality(left) \in Nat /\ Cardinality(left \ {t}) \in Nat
    BY <1>3, <2>1, FS_Subset, FS_CardinalityType
  <2>3. Cardinality(left \ {t}) <= TickSize
    BY <2>1, <2>2, TicksAreBounded
  <2>4. \A ch \in left \ {t} : holder'[TargetRow(c, ch)] = w /\ new'[TargetRow(c, ch)] = "pending"
    BY <1>1, <1>3, <1>6 DEF SenderSound, Same
  <2>5. holder'[x] = w /\ new'[x] = "running"
    BY <1>2, <1>3, <1>6 DEF Same
  <2> HIDE DEF left
  <2>6. QED
    BY <1>1, <1>2, <1>4, <2>2, <2>3, <2>4, <2>5 DEF SenderSound, Stages
<1>13. Agreed' = Agreed /\ db'[PlanRow] = db[PlanRow]
  BY <1>5, SameTermsAgree
<1>14. ASSUME NEW ch \in Chats, holder'[QueuedRow(c, ch)] = w
       PROVE  Respects(w, ch)
  <2>1. CASE ch = t /\ ws[y] = "enqueued"
    BY <2>1
  <2>2. CASE ~(ch = t /\ ws[y] = "enqueued")
    <3>1. holder[QueuedRow(c, ch)] = w
      BY <1>6, <1>8, <1>14, <2>2 DEF Same
    <3>2. QED
      BY <1>1, <3>1 DEF SenderCareful
  <2>3. QED
    BY <2>1, <2>2
<1>15. SenderCareful(w)'
  BY <1>1, <1>4, <1>13, <1>14 DEF SenderCareful, Respects, PlanAllows
<1>16. {c} \in SUBSET Campaigns /\ send[w].campaign \in {c} \cup {None}
  BY <1>2
<1>17. \A v \in Broadcasters \ {w} : send'[v] = send[v]
  BY SendersStep
<1>18. \A d \in {c} : holder[CampaignRow(d)] \in {w, NoTx} /\ CampaignSound(d)'
  BY <1>2, <1>11
<1>19. QED
  BY <1>5, <1>12, <1>15, <1>16, <1>17, <1>18, OneSenderSteps

LEMMA SettleKeepsCampaigns ==
  ASSUME CampaignsInv, LocksSound, NEW w \in Broadcasters, Broadcast(w),
         send[w].pc \in {"plan", "consent"}, send[w].left # {},
         NEW status \in {"skipped_plan", "skipped_no_optin"}, Settle(w, status)
  PROVE  CampaignsInv'
<1>1. PICK c, t : c = send[w].campaign /\ t = Target(w)
  OBVIOUS
<1>2. PICK ws : ws = Row(TargetRow(c, t), status)
  OBVIOUS
<1>3. Write(w, ws) /\ send' = [send EXCEPT ![w].pc = "plan", ![w].left = send[w].left \ {t}]
  BY <1>1, <1>2 DEF Settle
<1>4. DOMAIN ws = {TargetRow(c, t)} /\ ws[TargetRow(c, t)] = status
  BY <1>2 DEF Row
<1>5. QueuedRow(c, t) \notin DOMAIN ws
  BY <1>4, CampaignRowsDiffer
<1>6. QED
  BY <1>1, <1>3, <1>4, <1>5, SettledKeepsCampaigns

LEMMA EnqueueKeepsCampaigns ==
  ASSUME CampaignsInv, LocksSound, NEW w \in Broadcasters, Broadcast(w), Enqueue(w)
  PROVE  CampaignsInv'
<1>1. PICK c, t : c = send[w].campaign /\ t = Target(w)
  OBVIOUS
<1>2. PICK ws : ws = Both(Row(QueuedRow(c, t), "PENDING"), Row(TargetRow(c, t), "enqueued"))
  OBVIOUS
<1>3. /\ Write(w, ws) /\ send[w].pc = "enqueue"
      /\ send' = [send EXCEPT ![w].pc = "plan", ![w].left = send[w].left \ {t}]
  BY <1>1, <1>2 DEF Enqueue
<1>4. /\ DOMAIN ws = {TargetRow(c, t), QueuedRow(c, t)}
      /\ ws[TargetRow(c, t)] = "enqueued" /\ ws[QueuedRow(c, t)] = "PENDING"
  BY <1>2, CampaignRowsDiffer DEF Both, Row
<1>5. send[w].left # {} /\ Respects(w, t)
  BY <1>1, <1>3 DEF CampaignsInv, SenderSound, SenderCareful
<1>6. QED
  BY <1>1, <1>3, <1>4, <1>5, SettledKeepsCampaigns

(* What is asked of plan and consent is asked of what is true now.         *)
LEMMA AskKeepsCampaigns ==
  ASSUME CampaignsInv, LocksSound, NEW w \in Broadcasters, Broadcast(w), UNCHANGED dbVars,
         \/ /\ send[w].pc = "plan" /\ send[w].left # {}
            /\ PlanAllows(send[w].policy, db[PlanRow])
            /\ send' = [send EXCEPT ![w].pc = "consent"]
         \/ /\ send[w].pc = "consent" /\ Consents(w)
            /\ send' = [send EXCEPT ![w].pc = "enqueue"]
  PROVE  CampaignsInv'
<1>1. \A x \in CampaignRows : Same(x)
  BY DEF dbVars, Same
<1>2. SameTerms /\ \A d \in Campaigns : SameCampaign(d)
  BY <1>1, WorkerRows DEF SameTerms, SameCampaign
<1>3. Agreed' = Agreed /\ db'[PlanRow] = db[PlanRow]
  BY <1>2, SameTermsAgree
<1>4. /\ SenderSound(w) /\ SenderCareful(w) /\ send[w].campaign \in Campaigns
      /\ send[w].campaign # None /\ send[w].left # {}
  BY DEF CampaignsInv, SenderSound
<1>5. PICK c : c = send[w].campaign
  OBVIOUS
<1>6. /\ send'[w].pc \in {"consent", "enqueue"} /\ send'[w].campaign = send[w].campaign
      /\ send'[w].left = send[w].left
      /\ send'[w].policy = send[w].policy /\ send'[w].agreed = send[w].agreed
      /\ send'[w].allowed = send[w].allowed
      /\ send'[w].pc = "enqueue" => send[w].pc = "consent" /\ Consents(w)
      /\ send'[w].pc = "consent" => PlanAllows(send[w].policy, db[PlanRow])
  BY DEF LocksSound, Resting
<1>7. UNCHANGED holder /\ UNCHANGED new
  BY DEF dbVars
<1>8. SenderSound(w)'
  BY <1>4, <1>6, <1>7 DEF SenderSound, Stages
<1>9. Target(w)' = Target(w) /\ Target(w) \in Chats
  BY <1>4, <1>6 DEF Target, SenderSound
<1>10. send[w].allowed
  BY <1>4, <1>6 DEF SenderCareful
<1>11. send'[w].pc = "enqueue" => Respects(w, Target(w))
  BY <1>4, <1>6, <1>9, <1>10 DEF SenderCareful, Respects, Consents, Agreed
<1>12. SenderCareful(w)'
  BY <1>3, <1>4, <1>6, <1>7, <1>9, <1>10, <1>11 DEF SenderCareful, Respects, PlanAllows
<1>13. {c} \in SUBSET Campaigns /\ send[w].campaign \in {c} \cup {None}
  BY <1>4, <1>5
<1>14. holder[CampaignRow(c)] = w /\ CampaignSound(c) /\ CampaignSound(c)'
  <2>1. holder[CampaignRow(c)] = w /\ CampaignSound(c) /\ c \in Campaigns
    BY <1>4, <1>5, RowsOfSender
  <2>2. send'[holder[CampaignRow(c)]].campaign = c
    BY <1>5, <1>6, <2>1
  <2>3. QED
    BY <1>2, <2>1, <2>2, KeepCampaign
<1>15. \A d \in {c} : holder[CampaignRow(d)] \in {w, NoTx} /\ CampaignSound(d)'
  BY <1>14
<1>16. \A v \in Broadcasters \ {w} : send'[v] = send[v]
  BY SendersStep
<1>17. QED
  BY <1>2, <1>8, <1>12, <1>13, <1>15, <1>16, OneSenderSteps

(* A campaign is completed when no target is pending in what its tick      *)
(* sees: all that is not committed of it is the tick's own.                *)
LEMMA FinishKeepsCampaigns ==
  ASSUME CampaignsInv, LocksSound, Base, NEW w \in Broadcasters, Broadcast(w), MaybeFinish(w)
  PROVE  CampaignsInv'
<1>1. /\ SenderSound(w) /\ SenderCareful(w) /\ send[w].pc = "plan" /\ send[w].left = {}
      /\ send[w].campaign # None
  BY DEF CampaignsInv, SenderSound, MaybeFinish
<1>2. PICK c : c = send[w].campaign
  OBVIOUS
<1> DEFINE x == CampaignRow(c)
<1>3. /\ c \in Campaigns /\ CampaignSound(c) /\ holder[x] = w /\ w # NoTx /\ x \in RowIds
      /\ \A ch \in Chats : /\ TargetRow(c, ch) \in RowIds /\ QueuedRow(c, ch) \in RowIds
                           /\ holder[TargetRow(c, ch)] \in {w, NoTx}
                           /\ holder[QueuedRow(c, ch)] \in {w, NoTx}
  BY <1>1, <1>2, RowsOfSender
<1>4. PICK ws : /\ Write(w, ws)
                /\ ws = IF Finishes(w) THEN Row(x, "completed") ELSE NoRow
  BY <1>2 DEF MaybeFinish
<1>5. /\ send'[w].pc = "commit" /\ send'[w].campaign = c /\ send'[w].left = {}
      /\ send'[w].policy = send[w].policy /\ send'[w].agreed = send[w].agreed
      /\ send'[w].allowed = send[w].allowed
  BY <1>1, <1>2 DEF MaybeFinish, LocksSound, Resting
<1>6. DOMAIN ws \subseteq {x}
  BY <1>4 DEF Row, NoRow
<1>7. SameTerms /\ \A d \in Campaigns \ {c} : SameCampaign(d)
  BY <1>4, <1>6, WritesApart
<1>8. /\ UNCHANGED db /\ holder'[x] = w
      /\ \A ch \in Chats : Same(TargetRow(c, ch)) /\ Same(QueuedRow(c, ch))
  BY <1>3, <1>4, <1>6, CampaignRowsDiffer DEF Write, Same
<1>9. new[x] = "running"
  BY <1>1, <1>2 DEF SenderSound
<1>10. new'[x] = IF Finishes(w) THEN "completed" ELSE "running"
  BY <1>3, <1>4, <1>9 DEF Write, Row, NoRow
<1>11. Finishes(w) => \A ch \in Chats : new[TargetRow(c, ch)] # "pending"
  BY <1>2, <1>3 DEF Finishes, Pending, Sees, Base, RowsOK, UnlockedIsCommitted
<1>12. CampaignSound(c)'
  BY <1>3, <1>5, <1>8, <1>10, <1>11 DEF CampaignSound, Same, Pair
<1>13. SenderSound(w)'
  BY <1>1, <1>2, <1>3, <1>5, <1>8 DEF SenderSound, Stages
<1>14. Agreed' = Agreed /\ db'[PlanRow] = db[PlanRow]
  BY <1>7, SameTermsAgree
<1>15. SenderCareful(w)'
  BY <1>1, <1>2, <1>5, <1>8, <1>14 DEF SenderCareful, Respects, PlanAllows, Same
<1>16. {c} \in SUBSET Campaigns /\ send[w].campaign \in {c} \cup {None}
  BY <1>2, <1>3
<1>17. \A v \in Broadcasters \ {w} : send'[v] = send[v]
  BY SendersStep
<1>18. \A d \in {c} : holder[CampaignRow(d)] \in {w, NoTx} /\ CampaignSound(d)'
  BY <1>3, <1>12
<1>19. QED
  BY <1>7, <1>13, <1>15, <1>16, <1>17, <1>18, OneSenderSteps

-----------------------------------------------------------------------------
(* The end of a tick: its campaign is as it saw it, or as it was.          *)
LEMMA EndKeepsCampaigns ==
  ASSUME CampaignsInv, LocksSound, Base, NEW w \in Broadcasters,
         Broadcast(w) \/ BroadcastDies(w), Publish(w) \/ Rollback(w),
         send' = [send EXCEPT ![w] = Resting]
  PROVE  CampaignsInv'
<1>1. SenderSound(w) /\ w # NoTx /\ w \in Txs
  BY TxsAre, NoTxIsNoTx DEF CampaignsInv
<1>2. send'[w] = Resting /\ \A v \in Broadcasters \ {w} : send'[v] = send[v]
  BY SendersStep DEF LocksSound
<1>3. SenderSound(w)' /\ SenderCareful(w)'
  BY <1>2, RestIsSound
<1>4. SameTerms
  <2>1. \A y \in RowIds : holder[y] # w => Same(y)
    BY EndOf DEF Ended
  <2>2. \A ch \in Chats : OptInRow(ch) \in RowIds /\ holder[OptInRow(ch)] # w
    BY <1>1, WorkerRows DEF LocksSound
  <2>3. PlanRow \in RowIds /\ holder[PlanRow] # w
    BY <1>1, WorkerRows DEF LocksSound
  <2>4. QED
    BY <2>1, <2>2, <2>3 DEF SameTerms
<1>5. ASSUME NEW d \in Campaigns, holder[CampaignRow(d)] # w
      PROVE  SameCampaign(d)
  <2>1. CampaignSound(d)
    BY DEF CampaignsInv
  <2>2. \A ch \in Chats : holder[TargetRow(d, ch)] # w /\ holder[QueuedRow(d, ch)] # w
    BY <1>1, <1>5, <2>1 DEF CampaignSound
  <2>3. \A y \in RowIds : holder[y] # w => Same(y)
    BY EndOf DEF Ended
  <2>4. QED
    BY <1>5, <2>2, <2>3, WorkerRows DEF SameCampaign
<1>6. PICK mine : mine = {d \in Campaigns : holder[CampaignRow(d)] = w}
  OBVIOUS
<1>7. ASSUME NEW d \in mine
      PROVE  CampaignSound(d)'
  <2> DEFINE x == CampaignRow(d)
  <2>1. d \in Campaigns /\ holder[x] = w /\ CampaignSound(d)
    BY <1>6, <1>7 DEF CampaignsInv
  <2>2. \A ch \in Chats : /\ holder[TargetRow(d, ch)] \in {w, NoTx}
                          /\ holder[QueuedRow(d, ch)] \in {w, NoTx}
                          /\ TargetRow(d, ch) \in RowIds /\ QueuedRow(d, ch) \in RowIds
    BY <2>1, WorkerRows DEF CampaignSound
  <2>3. x \in RowIds
    BY <2>1, WorkerRows
  <2>4. holder'[x] = NoTx /\ \A ch \in Chats : /\ holder'[TargetRow(d, ch)] = NoTx
                                               /\ holder'[QueuedRow(d, ch)] = NoTx
    BY <2>1, <2>2, <2>3 DEF Publish, Rollback, Release
  <2>5. CASE Publish(w)
    <3>1. /\ db'[x] = new[x] /\ new'[x] = new[x]
          /\ \A ch \in Chats : /\ new'[TargetRow(d, ch)] = new[TargetRow(d, ch)]
                               /\ new'[QueuedRow(d, ch)] = new[QueuedRow(d, ch)]
      BY <2>1, <2>3, <2>5 DEF Publish
    <3>2. ASSUME NEW y \in RowIds, holder[y] \in {w, NoTx}
          PROVE  db'[y] = new[y]
      BY <2>5, <3>2 DEF Publish, Base, RowsOK, UnlockedIsCommitted
    <3>3. \A ch \in Chats : /\ db'[TargetRow(d, ch)] = new[TargetRow(d, ch)]
                            /\ db'[QueuedRow(d, ch)] = new[QueuedRow(d, ch)]
      BY <2>2, <3>2
    <3>4. new[x] \in {"running", "completed"} /\ new[x] # None
      BY <1>1, <2>1, NoneIsNoStatus DEF CampaignSound
    <3>5. QED
      BY <2>1, <2>4, <3>1, <3>3, <3>4 DEF CampaignSound
  <2>6. CASE Rollback(w)
    <3>1. ASSUME NEW y \in RowIds, holder[y] \in {w, NoTx}
          PROVE  db'[y] = db[y] /\ new'[y] = db[y]
      BY <2>6, <3>1 DEF Rollback, Base, RowsOK, UnlockedIsCommitted
    <3>2. /\ db'[x] = db[x] /\ new'[x] = db[x]
          /\ \A ch \in Chats : /\ db'[TargetRow(d, ch)] = db[TargetRow(d, ch)]
                               /\ new'[TargetRow(d, ch)] = db[TargetRow(d, ch)]
                               /\ db'[QueuedRow(d, ch)] = db[QueuedRow(d, ch)]
                               /\ new'[QueuedRow(d, ch)] = db[QueuedRow(d, ch)]
      BY <2>1, <2>2, <2>3, <3>1
    <3>3. QED
      BY <2>1, <2>4, <3>2 DEF CampaignSound
  <2>7. QED
    BY <2>5, <2>6
<1>8. mine \in SUBSET Campaigns /\ send[w].campaign \in mine \cup {None}
  BY <1>1, <1>6 DEF SenderSound
<1>9. \A d \in mine : holder[CampaignRow(d)] \in {w, NoTx} /\ CampaignSound(d)'
  BY <1>6, <1>7
<1>10. \A d \in Campaigns \ mine : SameCampaign(d)
  BY <1>5, <1>6
<1>11. QED
  BY <1>2, <1>3, <1>4, <1>8, <1>9, <1>10, OneSenderSteps

LEMMA BroadcastersKeepCampaigns ==
  ASSUME CampaignsInv, LocksSound, Base, NEW w \in Broadcasters, Broadcast(w) \/ BroadcastDies(w)
  PROVE  CampaignsInv'
<1>1. CASE Broadcast(w) /\ (CheckPlan(w) \/ CheckConsent(w))
  <2>1. send[w].left # {} /\ send[w].pc \in {"plan", "consent"}
    BY <1>1 DEF CheckPlan, CheckConsent, CampaignsInv, SenderSound
  <2>2. ASSUME NEW status \in {"skipped_plan", "skipped_no_optin"}, Settle(w, status)
        PROVE  CampaignsInv'
    BY <1>1, <2>1, <2>2, SettleKeepsCampaigns
  <2>3. QED
    BY <1>1, <2>1, <2>2, AskKeepsCampaigns DEF CheckPlan, CheckConsent
<1>2. CASE Broadcast(w) /\ ~(CheckPlan(w) \/ CheckConsent(w))
  BY <1>2, StartKeepsCampaigns, PickKeepsCampaigns, SelectKeepsCampaigns, EnqueueKeepsCampaigns,
     FinishKeepsCampaigns, EndKeepsCampaigns
  DEF Broadcast, BroadcastStep, CommitBroadcast
<1>3. CASE BroadcastDies(w)
  BY <1>3, EndKeepsCampaigns DEF BroadcastDies, LoseBroadcast
<1>4. QED
  BY <1>1, <1>2, <1>3

-----------------------------------------------------------------------------
(* Owners: a new campaign, of which there was nothing before, and changes  *)
(* of consent and plan, which tell the ticks that are under way.           *)
LEMMA CreateKeepsCampaigns ==
  ASSUME CampaignsInv, LocksSound, Base, NEW c \in Campaigns, CreateCampaign(c)
  PROVE  CampaignsInv'
<1> DEFINE x == CampaignRow(c)
<1>1. PICK rows : rows = Both(Row(x, "queued"),
                              [y \in {TargetRow(c, ch) : ch \in Audience[c]} |-> "pending"])
  OBVIOUS
<1>2. /\ db' = [y \in RowIds |-> IF y \in DOMAIN rows THEN rows[y] ELSE db[y]]
      /\ new' = [y \in RowIds |-> IF y \in DOMAIN rows THEN rows[y] ELSE new[y]]
      /\ UNCHANGED <<holder, send>> /\ db[x] = None
  BY <1>1 DEF CreateCampaign, campaignVars
<1>3. /\ x \in DOMAIN rows /\ rows[x] = "queued"
      /\ \A y \in DOMAIN rows : y = x \/ (rows[y] = "pending" /\ \E ch : y = TargetRow(c, ch))
  BY <1>1 DEF Both, Row
<1>4. CampaignSound(c)
  BY DEF CampaignsInv
<1>5. x \in RowIds /\ \A ch \in Chats : TargetRow(c, ch) \in RowIds /\ QueuedRow(c, ch) \in RowIds
  BY WorkerRows
<1>6. /\ holder[x] = NoTx
      /\ \A ch \in Chats : /\ holder[TargetRow(c, ch)] = NoTx /\ holder[QueuedRow(c, ch)] = NoTx
                           /\ new[TargetRow(c, ch)] = None /\ db[TargetRow(c, ch)] = None
                           /\ new[QueuedRow(c, ch)] = None /\ db[QueuedRow(c, ch)] = None
  <2>1. holder[x] = NoTx
    BY <1>2, <1>4 DEF CampaignSound
  <2>2. ASSUME NEW ch \in Chats
        PROVE  /\ holder[TargetRow(c, ch)] = NoTx /\ holder[QueuedRow(c, ch)] = NoTx
               /\ db[TargetRow(c, ch)] = None /\ db[QueuedRow(c, ch)] = None
    BY <1>2, <1>4, <2>1, NoneIsNoStatus DEF CampaignSound, Pair
  <2>3. \A ch \in Chats : new[TargetRow(c, ch)] = None /\ new[QueuedRow(c, ch)] = None
    BY <1>5, <2>2 DEF Base, RowsOK, UnlockedIsCommitted
  <2>4. QED
    BY <2>1, <2>2, <2>3
<1>7. db'[x] = "queued" /\ new'[x] = "queued" /\ holder'[x] = NoTx
  BY <1>2, <1>3, <1>5, <1>6
<1>8. ASSUME NEW ch \in Chats
      PROVE  /\ db'[TargetRow(c, ch)] \in {None, "pending"}
             /\ new'[TargetRow(c, ch)] \in {None, "pending"}
             /\ db'[QueuedRow(c, ch)] = None /\ new'[QueuedRow(c, ch)] = None
             /\ holder'[TargetRow(c, ch)] = NoTx /\ holder'[QueuedRow(c, ch)] = NoTx
  <2>1. QueuedRow(c, ch) \notin DOMAIN rows /\ TargetRow(c, ch) # x
    BY <1>3, CampaignRowsDiffer
  <2>2. TargetRow(c, ch) \in DOMAIN rows => rows[TargetRow(c, ch)] = "pending"
    BY <1>3, <2>1
  <2>3. QED
    BY <1>2, <1>5, <1>6, <2>1, <2>2
<1>9. CampaignSound(c)'
  BY <1>7, <1>8, NoneIsNoStatus DEF CampaignSound, Pair
<1>10. \A y \in RowIds \ DOMAIN rows : Same(y)
  BY <1>2 DEF Same
<1>11. SameTerms
  <2>1. (\A ch \in Chats : OptInRow(ch) \notin DOMAIN rows) /\ PlanRow \notin DOMAIN rows
    BY <1>3, CampaignRowsDiffer
  <2>2. QED
    BY <1>10, <2>1, WorkerRows DEF SameTerms
<1>12. ASSUME NEW d \in Campaigns \ {c}
       PROVE  SameCampaign(d)
  <2>1. CampaignRow(d) \notin DOMAIN rows
    BY <1>3, CampaignRowsDiffer
  <2>2. \A ch \in Chats : TargetRow(d, ch) \notin DOMAIN rows /\ QueuedRow(d, ch) \notin DOMAIN rows
    BY <1>3, CampaignRowsDiffer
  <2>3. QED
    BY <1>10, <2>1, <2>2, WorkerRows DEF SameCampaign
<1>13. ASSUME NEW d \in Campaigns \ {c}
       PROVE  CampaignSound(d)'
  <2>1. CampaignSound(d) /\ SameCampaign(d)
    BY <1>12 DEF CampaignsInv
  <2>2. holder[CampaignRow(d)] # NoTx => send'[holder[CampaignRow(d)]].campaign = d
    BY <1>2, <2>1 DEF CampaignSound
  <2>3. QED
    BY <2>1, <2>2, KeepCampaign
<1>14. ASSUME NEW w \in Broadcasters
       PROVE  SenderSound(w)' /\ SenderCareful(w)'
  <2>1. SenderSound(w) /\ SenderCareful(w) /\ w # NoTx
    BY TxsAre, NoTxIsNoTx DEF CampaignsInv
  <2>2. send[w].campaign # None => send[w].campaign \in Campaigns \ {c}
    BY <1>6, <2>1 DEF SenderSound
  <2>3. UNCHANGED send[w]
    BY <1>2
  <2>4. QED
    BY <1>11, <1>12, <2>1, <2>2, <2>3, KeepSender
<1>15. QED
  BY <1>9, <1>13, <1>14 DEF CampaignsInv

LEMMA TermsKeepCampaigns ==
  ASSUME CampaignsInv, LocksSound, UNCHANGED holder, \A c \in Campaigns : SameCampaign(c),
         \A w \in Broadcasters :
           /\ send'[w].pc = send[w].pc /\ send'[w].policy = send[w].policy
           /\ send'[w].campaign = send[w].campaign /\ send'[w].left = send[w].left
           /\ send[w].agreed \cup (Agreed' \ Agreed) \subseteq send'[w].agreed
           /\ send[w].allowed => send'[w].allowed
           /\ db'[PlanRow] # db[PlanRow] /\ PlanAllows(send[w].policy, db'[PlanRow]) =>
                send'[w].allowed
  PROVE  CampaignsInv'
<1>1. ASSUME NEW c \in Campaigns
      PROVE  CampaignSound(c)'
  <2>1. CampaignSound(c) /\ SameCampaign(c) /\ holder[CampaignRow(c)] \in Broadcasters \cup {NoTx}
    BY WorkerRows DEF CampaignsInv, LocksSound
  <2>2. holder[CampaignRow(c)] # NoTx => send'[holder[CampaignRow(c)]].campaign = c
    BY <2>1 DEF CampaignSound
  <2>3. QED
    BY <2>1, <2>2, KeepCampaign
<1>2. ASSUME NEW w \in Broadcasters
      PROVE  SenderSound(w)' /\ SenderCareful(w)'
  <2> DEFINE c == send[w].campaign
  <2>1. SenderSound(w) /\ SenderCareful(w)
    BY DEF CampaignsInv
  <2>2. /\ send'[w].pc = send[w].pc /\ send'[w].policy = send[w].policy
        /\ send'[w].campaign = send[w].campaign /\ send'[w].left = send[w].left
        /\ send[w].agreed \cup (Agreed' \ Agreed) \subseteq send'[w].agreed
        /\ send[w].allowed => send'[w].allowed
        /\ db'[PlanRow] # db[PlanRow] /\ PlanAllows(send[w].policy, db'[PlanRow]) =>
             send'[w].allowed
    OBVIOUS
  <2>3. c # None => /\ new'[CampaignRow(c)] = new[CampaignRow(c)]
                    /\ \A ch \in Chats : new'[TargetRow(c, ch)] = new[TargetRow(c, ch)]
    BY <2>1 DEF SenderSound, SameCampaign, Same
  <2>4. send[w].left \in SUBSET Chats /\ (c = None => send[w].left = {})
    BY <2>1 DEF SenderSound
  <2>5. SenderSound(w)'
    BY <2>1, <2>2, <2>3, <2>4 DEF SenderSound
  <2>6. Target(w)' = Target(w)
    BY <2>2 DEF Target
  <2>7. \A ch : Respects(w, ch) => (send'[w].policy.consent => ch \in send'[w].agreed)
                                   /\ send'[w].allowed
    BY <2>2 DEF Respects
  <2>8. /\ send[w].pc # "idle" => Agreed' \subseteq send'[w].agreed
        /\ send[w].pc # "idle" =>
             (PlanAllows(send[w].policy, db'[PlanRow]) => send'[w].allowed)
    BY <2>1, <2>2 DEF SenderCareful
  <2>9. SenderCareful(w)'
    BY <2>1, <2>2, <2>6, <2>7, <2>8 DEF SenderCareful, Respects, PlanAllows
  <2>10. QED
    BY <2>5, <2>9
<1>3. QED
  BY <1>1, <1>2 DEF CampaignsInv

LEMMA OptInKeepsCampaigns ==
  ASSUME CampaignsInv, LocksSound, Base, NEW ch \in Chats, NEW opted \in BOOLEAN,
         PutOptIn(ch, opted)
  PROVE  CampaignsInv'
<1>1. /\ db' = [db EXCEPT ![OptInRow(ch)] = opted] /\ new' = [new EXCEPT ![OptInRow(ch)] = opted]
      /\ UNCHANGED holder
  BY DEF PutOptIn, WriteNow
<1>2. \A c \in Campaigns : SameCampaign(c)
  BY <1>1, CampaignRowsDiffer, WorkerRows DEF SameCampaign, Same, Base, RowsOK
<1>3. /\ db'[PlanRow] = db[PlanRow]
      /\ \A dh \in Chats \ {ch} : db'[OptInRow(dh)] = db[OptInRow(dh)]
      /\ db'[OptInRow(ch)] = opted
  BY <1>1, CampaignRowsDiffer, WorkerRows DEF Base, RowsOK
<1>4. Agreed' \ Agreed \subseteq IF opted THEN {ch} ELSE {}
  BY <1>3 DEF Agreed
<1>5. ASSUME NEW w \in Broadcasters
      PROVE  /\ send'[w].pc = send[w].pc /\ send'[w].policy = send[w].policy
             /\ send'[w].campaign = send[w].campaign /\ send'[w].left = send[w].left
             /\ send'[w].agreed = send[w].agreed \cup IF opted THEN {ch} ELSE {}
             /\ send'[w].allowed = send[w].allowed
  <2>1. DOMAIN send[w] = DOMAIN Resting
    BY DEF LocksSound
  <2>2. CASE opted
    <3>1. send'[w] = [send[w] EXCEPT !.agreed = send[w].agreed \cup {ch}]
      BY <2>1, <2>2 DEF PutOptIn, Resting
    <3>2. QED
      BY <2>1, <2>2, <3>1 DEF Resting
  <2>3. CASE ~opted
    BY <2>3 DEF PutOptIn
  <2>4. QED
    BY <2>2, <2>3
<1>6. QED
  BY <1>1, <1>2, <1>3, <1>4, <1>5, TermsKeepCampaigns

LEMMA PlanKeepsCampaigns ==
  ASSUME CampaignsInv, LocksSound, Base, NEW plan, ChangePlan(plan)
  PROVE  CampaignsInv'
<1>1. /\ db' = [db EXCEPT ![PlanRow] = plan] /\ new' = [new EXCEPT ![PlanRow] = plan]
      /\ UNCHANGED holder
  BY DEF ChangePlan, WriteNow
<1>2. \A c \in Campaigns : SameCampaign(c)
  BY <1>1, CampaignRowsDiffer, WorkerRows DEF SameCampaign, Same, Base, RowsOK
<1>3. db'[PlanRow] = plan /\ \A ch \in Chats : db'[OptInRow(ch)] = db[OptInRow(ch)]
  BY <1>1, CampaignRowsDiffer, WorkerRows DEF Base, RowsOK
<1>4. Agreed' = Agreed
  BY <1>3 DEF Agreed
<1>5. ASSUME NEW w \in Broadcasters
      PROVE  /\ send'[w].pc = send[w].pc /\ send'[w].policy = send[w].policy
             /\ send'[w].campaign = send[w].campaign /\ send'[w].left = send[w].left
             /\ send'[w].agreed = send[w].agreed
             /\ send'[w].allowed = (send[w].allowed \/ PlanAllows(send[w].policy, plan))
  <2>1. DOMAIN send[w] = DOMAIN Resting
    BY DEF LocksSound
  <2>2. send'[w] = [send[w] EXCEPT !.allowed = send[w].allowed
                                                \/ PlanAllows(send[w].policy, plan)]
    BY <2>1 DEF ChangePlan, Resting
  <2>3. QED
    BY <2>1, <2>2 DEF Resting
<1>6. QED
  BY <1>1, <1>2, <1>3, <1>4, <1>5, TermsKeepCampaigns

LEMMA StepCampaigns ==
  Base /\ LocksSound /\ CampaignsInv /\ [Next]_vars => CampaignsInv'
<1> SUFFICES ASSUME Base, LocksSound, CampaignsInv, [Next]_vars PROVE CampaignsInv'
  OBVIOUS
<1>1. CASE (\A x \in CampaignRows : Same(x)) /\ UNCHANGED send
  BY <1>1, KeepCampaigns
<1>2. CASE UNCHANGED <<dbVars, send>>
  BY <1>1, <1>2 DEF dbVars, Same
<1>3. ASSUME NEW w \in Broadcasters, Broadcast(w) \/ BroadcastDies(w)
      PROVE  CampaignsInv'
  BY <1>3, BroadcastersKeepCampaigns
<1>4. ASSUME NEW h \in Handlers, Handle(h)
      PROVE  CampaignsInv'
  BY <1>1, <1>4, HandlersKeepLocks DEF Handle, campaignVars
<1>5. ASSUME NEW e \in Evaluators, Tick(e)
      PROVE  CampaignsInv'
  BY <1>1, <1>5, EvaluatorsKeepLocks DEF Tick, campaignVars
<1>6. CASE OwnerActs
  BY <1>6, CreateKeepsCampaigns, OptInKeepsCampaigns, PlanKeepsCampaigns DEF OwnerActs
<1>7. CASE Wait \/ UNCHANGED vars
  BY <1>2, <1>7 DEF Wait, TimePasses, vars, campaignVars
<1>8. ASSUME NEW h \in Handlers, NEW q \in deployed.requests, Post(h, q)
      PROVE  CampaignsInv'
  BY <1>2, <1>8 DEF Post, Receive, campaignVars
<1>9. QED
  BY <1>3, <1>4, <1>5, <1>6, <1>7, <1>8 DEF Next

LEMMA InitCampaigns == Init => CampaignsInv
<1> SUFFICES ASSUME Init PROVE CampaignsInv
  OBVIOUS
<1>1. \A x \in RowIds : /\ holder[x] = NoTx /\ new[x] = db[x]
                        /\ db[x] = IF x \in DOMAIN InitialRows THEN InitialRows[x] ELSE None
  BY DEF Init
<1>2. ASSUME NEW c \in Campaigns
      PROVE  CampaignSound(c)
  <2>1. db[CampaignRow(c)] \in {None, "queued"}
    BY <1>1, CampaignsAtStart, WorkerRows
  <2>2. ASSUME NEW ch \in Chats
        PROVE  /\ db[TargetRow(c, ch)] \in {None, "pending"} /\ db[QueuedRow(c, ch)] = None
               /\ db[CampaignRow(c)] = None => db[TargetRow(c, ch)] = None
    <3>1. CampaignRow(c) \in RowIds /\ TargetRow(c, ch) \in RowIds /\ QueuedRow(c, ch) \in RowIds
      BY WorkerRows
    <3>2. QED
      BY <1>1, <3>1, CampaignsAtStart, NoneIsNoStatus
  <2>3. /\ holder[CampaignRow(c)] = NoTx /\ new[CampaignRow(c)] = db[CampaignRow(c)]
        /\ \A ch \in Chats : /\ holder[TargetRow(c, ch)] = NoTx /\ holder[QueuedRow(c, ch)] = NoTx
                             /\ new[TargetRow(c, ch)] = db[TargetRow(c, ch)]
                             /\ new[QueuedRow(c, ch)] = db[QueuedRow(c, ch)]
    BY <1>1, WorkerRows
  <2>4. QED
    BY <2>1, <2>2, <2>3, NoneIsNoStatus DEF CampaignSound, Pair
<1>3. ASSUME NEW w \in Broadcasters
      PROVE  SenderSound(w) /\ SenderCareful(w)
  <2>1. send[w] = Resting
    BY DEF Init, CampaignsInit
  <2>2. {} \in SUBSET Chats /\ Cardinality({}) <= TickSize
    BY FS_EmptySet, TicksAreBounded
  <2>3. QED
    BY <2>1, <2>2 DEF SenderSound, SenderCareful, Resting, Stages
<1>4. QED
  BY <1>2, <1>3 DEF CampaignsInv

-----------------------------------------------------------------------------
LEMMA CampaignsAreSound == Spec => [](Base /\ LocksSound /\ CampaignsInv)
BY InitBase, InitLocks, InitCampaigns, StepBase, StepLocks, StepCampaigns, PTL DEF Spec

(* A target says "enqueued" if and only if its message is in the outbox,   *)
(* and a completed campaign has no pending target, whatever ticks of any   *)
(* number of workers overlap or are lost.                                  *)
THEOREM CampaignsAddUp == Spec => []TargetsAddUp
<1>1. CampaignsInv => TargetsAddUp
  BY DEF CampaignsInv, CampaignSound, Pair, TargetsAddUp
<1>2. QED
  BY <1>1, CampaignsAreSound, PTL

(* A message that a tick commits respects the consent and the plan there   *)
(* were at some time since the tick began.                                 *)
THEOREM ConsentIsRespected == Spec => ConsentRespected
<1>1. Base /\ LocksSound /\ CampaignsInv => ConsentRespectedStep
  <2> SUFFICES ASSUME Base, LocksSound, CampaignsInv, NEW w \in Broadcasters, CommitBroadcast(w),
                      NEW ch \in Chats, NEW x, x = QueuedRow(send[w].campaign, ch),
                      db[x] = None, db'[x] # None
               PROVE  (send[w].policy.consent => ch \in send[w].agreed) /\ send[w].allowed
    BY DEF ConsentRespectedStep
  <2>1. SenderSound(w) /\ SenderCareful(w) /\ send[w].campaign # None
    BY DEF CampaignsInv, SenderSound, CommitBroadcast
  <2>2. x \in RowIds
    BY <2>1, RowsOfSender
  <2>3. holder[x] = w
    BY <2>2 DEF CommitBroadcast, Publish
  <2>4. Respects(w, ch)
    BY <2>1, <2>3 DEF SenderCareful
  <2>5. QED
    BY <2>4 DEF Respects
<1>2. Spec => [][ConsentRespectedStep]_vars
  BY <1>1, CampaignsAreSound, PTL
<1>3. QED
  BY <1>2 DEF ConsentRespected

(* Rows have the values their columns allow, an unlocked row has one       *)
(* version, and a process that rests holds no row.                         *)
THEOREM TypeCorrect == Spec => []TypeOK
<1>1. Base /\ SopsInv /\ LocksSound /\ ReleasesSound /\ CampaignsInv => TypeOK
  <2> SUFFICES ASSUME Base, SopsInv, LocksSound, ReleasesSound, CampaignsInv PROVE TypeOK
    OBVIOUS
  <2>1. CampaignsTypeOK
    BY DEF CampaignsInv, CampaignSound, SenderSound, Pair, CampaignsTypeOK
  <2>2. UnlockedIsCommitted
    BY DEF Base, RowsOK
  <2>3. \A b \in Builds :
          db[ReleaseRow(b)] \in {None, "candidate", "current", "rolled_back"}
    BY DEF ReleasesSound
  <2>4. \A s \in Sops : db[SopRow(s)] # None => db[SopRow(s)].current \in Versions
    BY DEF SopsInv, SopSound, SopRecords
  <2>5. ASSUME NEW x \in RowIds
        PROVE  /\ holder[x] \in Txs \cup {NoTx}
               /\ holder[x] \in Handlers => desk[holder[x]].pc # "idle"
               /\ holder[x] \in Evaluators => eval[holder[x]].pc # "idle"
               /\ holder[x] \in Broadcasters => send[holder[x]].pc # "idle"
    <3>1. PICK t : t = holder[x]
      OBVIOUS
    <3>2. t \in Txs \cup {NoTx} /\ (t \in Txs => Busy(t))
      BY <3>1 DEF LocksSound
    <3>3. t \in Handlers \cup Evaluators \cup Broadcasters => t \in Txs
      BY TxsAre
    <3>4. QED
      BY <3>1, <3>2, <3>3 DEF Busy
  <2>6. QED
    BY <2>1, <2>2, <2>3, <2>4, <2>5 DEF TypeOK
<1>2. Spec => [](SopsInv /\ ReleasesSound)
  BY InitBase, InitSops, InitReleases, StepBase, StepSops, StepReleases, PTL DEF Spec
<1>3. QED
  BY <1>1, <1>2, CampaignsAreSound, PTL
=============================================================================
