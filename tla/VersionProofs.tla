---------------------------- MODULE VersionProofs ----------------------------
(***************************************************************************)
(* The history of SOPs: versions that are computed without a lock have no  *)
(* gaps and are never lost, for any number of handlers and requests.       *)
(***************************************************************************)
EXTENDS BackofficeProofs, FiniteSetTheorems

(* What is committed of a SOP.                                             *)
SopSound(s) ==
  LET sop == db[SopRow(s)]
  IN IF sop = None
       THEN \A v \in Versions : db[VersionRow(s, v)] = None
       ELSE /\ sop \in SopRecords
            /\ \A v \in Versions : db[VersionRow(s, v)] # None <=> v <= sop.current
            /\ db[VersionRow(s, sop.current)] = sop.by

(* No request writes two versions, and nobody at work has written one yet. *)
WritersDiffer(s) ==
  \A v \in Versions : db[VersionRow(s, v)] # None =>
    /\ db[VersionRow(s, v)] \in 0..posted
    /\ \A w \in Versions : db[VersionRow(s, w)] = db[VersionRow(s, v)] => w = v

Active(h) == desk[h].pc # "idle"

ActiveDiffer(h) ==
  Active(h) =>
    /\ desk[h].n \in 1..posted
    /\ \A s \in Sops, v \in Versions : db[VersionRow(s, v)] # desk[h].n
    /\ \A g \in Handlers \ {h} : Active(g) => desk[g].n # desk[h].n

(* Where an edit is, and what it holds there.                              *)
Edited(h) == desk[h].req.op \in Edits /\ desk[h].pc = "commit"
Inserted(h) == Serves(h, "update_sop", "update") \/ Edited(h)

Owns(h) ==
  \A s \in Sops :
    /\ holder[SopRow(s)] = h => Edited(h) /\ desk[h].req.on = s
    /\ \A v \in Versions : holder[VersionRow(s, v)] = h =>
         Inserted(h) /\ desk[h].req.on = s /\ desk[h].seen = v

HasVersion(h) ==
  /\ desk[h].seen \in Versions
  /\ holder[VersionRow(desk[h].req.on, desk[h].seen)] = h
  /\ new[VersionRow(desk[h].req.on, desk[h].seen)] = desk[h].n

HasSop(h) ==
  LET x == SopRow(desk[h].req.on)
  IN holder[x] = h /\ new[x] \in SopRecords /\ new[x].current = desk[h].seen
     /\ new[x].by = desk[h].n

(* What handlers have read is still worth something: a version number read *)
(* without a lock may be taken, but leaves no gap; who has inserted it is  *)
(* the only one who has the number after the current one.                  *)
HandlerSound(h) ==
  LET sop == db[SopRow(desk[h].req.on)]
      v == desk[h].seen
  IN /\ Serves(h, "update_sop", "insert") =>
          sop # None /\ v \in Versions /\ v <= sop.current + 1
     /\ Serves(h, "update_sop", "update") =>
          sop # None /\ HasVersion(h) /\ v = sop.current + 1
     /\ Edited(h) =>
          HasVersion(h) /\ HasSop(h) /\ v = IF sop = None THEN 1 ELSE sop.current + 1
     /\ Serves(h, "start_run", "insert") =>
          sop # None /\ v \in Versions /\ v <= sop.current

(* A run names a version that is there, also before it is committed.       *)
RunSound(r) ==
  r # None => r.sop \in Sops /\ r.version \in Versions /\ db[VersionRow(r.sop, r.version)] # None

DoneSound(e) ==
  /\ e.sop \in Sops /\ e.version \in Versions /\ e.by \in 1..MaxRequests
  /\ db[VersionRow(e.sop, e.version)] = e.by

SopsInv ==
  /\ posted \in 0..MaxRequests
  /\ \A s \in Sops : SopSound(s) /\ WritersDiffer(s)
  /\ \A h \in Handlers : ActiveDiffer(h) /\ Owns(h) /\ HandlerSound(h)
  /\ \A e \in done : DoneSound(e)

RunsInv == \A x \in RowIds : x[1] = "run" => RunSound(db[x]) /\ RunSound(new[x])

-----------------------------------------------------------------------------
LEMMA SopRowsAreRows ==
  \A s \in Sops :
    /\ SopRow(s) \in DeskRows /\ SopRow(s) \in RowIds
    /\ \A v \in Versions : VersionRow(s, v) \in DeskRows /\ VersionRow(s, v) \in RowIds
BY DeskRowsAreRows DEF DeskRows

LEMMA SopRowsDiffer ==
  /\ \A s, t : SopRow(s) = SopRow(t) => s = t
  /\ \A s, t, v, w : VersionRow(s, v) = VersionRow(t, w) => s = t /\ v = w
  /\ \A s, t, v : SopRow(s) # VersionRow(t, v)
  /\ \A s : SopRow(s)[1] = "sop"
  /\ \A s, v : VersionRow(s, v)[1] = "version"
BY DEF SopRow, VersionRow

(* There are no more versions than requests, so the next one has a row.    *)
LEMMA NextVersionFits ==
  ASSUME SopsInv, NEW h \in Handlers, Active(h), NEW s \in Sops, db[SopRow(s)] # None
  PROVE  db[SopRow(s)].current \in Nat /\ db[SopRow(s)].current + 1 \in Versions
<1> DEFINE c == db[SopRow(s)].current
           f == [v \in 1..(c + 1) |-> IF v <= c THEN db[VersionRow(s, v)] ELSE desk[h].n]
<1>1. c \in Versions /\ \A v \in Versions : v <= c => db[VersionRow(s, v)] # None
  BY DEF SopsInv, SopSound, SopRecords
<1>2. c \in Nat /\ posted \in Nat /\ posted <= MaxRequests /\ MaxRequests \in Nat
  BY <1>1, RequestsAreBounded DEF SopsInv, Versions
<1>3. \A v \in 1..c : v \in Versions
  BY <1>1, <1>2 DEF Versions
<1>4. /\ \A v \in 1..c : db[VersionRow(s, v)] \in 0..posted /\ db[VersionRow(s, v)] # desk[h].n
      /\ \A v, w \in 1..c : db[VersionRow(s, v)] = db[VersionRow(s, w)] => v = w
      /\ desk[h].n \in 0..posted
  BY <1>1, <1>2, <1>3 DEF SopsInv, WritersDiffer, ActiveDiffer
<1>5. f \in [1..(c + 1) -> 0..posted]
  BY <1>2, <1>4
<1>6. \A v, w \in 1..(c + 1) : f[v] = f[w] => v = w
  BY <1>2, <1>4
<1>7. /\ IsFiniteSet(1..(c + 1)) /\ Cardinality(1..(c + 1)) = c + 1
      /\ IsFiniteSet(0..posted) /\ Cardinality(0..posted) = posted + 1
  <2>1. 1 \in Int /\ c + 1 \in Int /\ 0 \in Int /\ posted \in Int
    BY <1>2
  <2>2. /\ IsFiniteSet(1..(c + 1))
        /\ Cardinality(1..(c + 1)) = IF 1 > c + 1 THEN 0 ELSE (c + 1) - 1 + 1
    BY <2>1, FS_Interval
  <2>3. /\ IsFiniteSet(0..posted)
        /\ Cardinality(0..posted) = IF 0 > posted THEN 0 ELSE posted - 0 + 1
    BY <2>1, FS_Interval
  <2>4. QED
    BY <1>2, <2>2, <2>3
<1>8. ~(posted + 1 < c + 1)
  <2>1. SUFFICES ASSUME posted + 1 < c + 1 PROVE FALSE
    OBVIOUS
  <2> DEFINE S == 1..(c + 1)
             T == 0..posted
  <2>2. IsFiniteSet(S) /\ IsFiniteSet(T) /\ Cardinality(T) < Cardinality(S) /\ f \in [S -> T]
    BY <1>5, <1>7, <2>1
  <2> HIDE DEF S, T, f
  <2>3. \E v, w \in S : v # w /\ f[v] = f[w]
    BY <2>2, FS_PigeonHole
  <2>4. QED
    BY <1>6, <2>3 DEF S
<1>9. QED
  BY <1>2, <1>8 DEF Versions

-----------------------------------------------------------------------------
(* A handler that commits nothing touches no row that another one holds.   *)
Untouched(x) == new'[x] = new[x] /\ holder'[x] = holder[x]

LeftBy(h, x) ==
  \/ Untouched(x)
  \/ holder[x] \in {h, NoTx} /\ holder'[x] \in {h, NoTx}

SopsLeftBy(h) ==
  \A s \in Sops : LeftBy(h, SopRow(s)) /\ \A v \in Versions : LeftBy(h, VersionRow(s, v))

SopsKept ==
  \A s \in Sops : /\ db'[SopRow(s)] = db[SopRow(s)]
                 /\ \A v \in Versions : db'[VersionRow(s, v)] = db[VersionRow(s, v)]

(* The other handlers remember what they did.                              *)
Peers(h) ==
  \A g \in Handlers \ {h} :
    /\ desk'[g].pc = desk[g].pc /\ desk'[g].req = desk[g].req
    /\ desk'[g].n = desk[g].n /\ desk'[g].seen = desk[g].seen

LEMMA EditsName ==
  ASSUME Base, NEW h \in Handlers
  PROVE  /\ desk[h].req.op \in Edits => desk[h].req.on \in Sops
         /\ desk[h].req.op \in Edits => desk[h].req.to \in STRING
         /\ desk[h].req.op = "start_run" => desk[h].req.on \in Sops
BY DEF Base, DeskOK, Named, Edits

LEMMA OtherHandler ==
  ASSUME SopsInv, Base, NEW h \in Handlers, NEW g \in Handlers \ {h},
         SopsKept, SopsLeftBy(h), Peers(h)
  PROVE  Owns(g)' /\ HandlerSound(g)'
<1> /\ desk'[g].pc = desk[g].pc /\ desk'[g].req = desk[g].req
    /\ desk'[g].n = desk[g].n /\ desk'[g].seen = desk[g].seen
  BY DEF Peers
<1>1. g # NoTx /\ g # h
  BY TxsAre, NoTxIsNoTx
<1>2. /\ \A s \in Sops : /\ holder'[SopRow(s)] = g <=> holder[SopRow(s)] = g
                         /\ holder[SopRow(s)] = g => new'[SopRow(s)] = new[SopRow(s)]
      /\ \A s \in Sops, v \in Versions :
           /\ holder'[VersionRow(s, v)] = g <=> holder[VersionRow(s, v)] = g
           /\ holder[VersionRow(s, v)] = g => new'[VersionRow(s, v)] = new[VersionRow(s, v)]
  BY <1>1 DEF SopsLeftBy, LeftBy, Untouched
<1>3. Owns(g)'
  <2>1. Owns(g)
    BY DEF SopsInv
  <2>2. QED
    BY <1>2, <2>1 DEF Owns, Edited, Inserted, Serves
<1>4. HandlerSound(g)
  BY DEF SopsInv
<1>5. (desk[g].req.op \in Edits => desk[g].req.on \in Sops) /\ "update_sop" \in Edits
  BY EditsName DEF Edits
<1>6. desk[g].req.op \in Edits /\ HasVersion(g) => HasVersion(g)'
  BY <1>2, <1>5 DEF HasVersion
<1>7. desk[g].req.op \in Edits /\ HasSop(g) => HasSop(g)'
  BY <1>2, <1>5 DEF HasSop
<1>8. HandlerSound(g)'
  <2>1. Serves(g, "update_sop", "insert")' => Serves(g, "update_sop", "insert")
    BY DEF Serves
  <2>2. Serves(g, "update_sop", "update")' => Serves(g, "update_sop", "update") /\ HasVersion(g)'
    BY <1>4, <1>5, <1>6 DEF HandlerSound, Serves
  <2>3. Edited(g)' => Edited(g) /\ HasVersion(g)' /\ HasSop(g)'
    BY <1>4, <1>6, <1>7 DEF HandlerSound, Edited
  <2>4. Serves(g, "start_run", "insert")' => Serves(g, "start_run", "insert")
    BY DEF Serves
  <2>5. /\ desk[g].req.op \in Edits \cup {"start_run"} => desk[g].req.on \in Sops
        /\ {"update_sop"} \subseteq Edits
    BY EditsName DEF Edits
  <2>6. Serves(g, "update_sop", "insert")' \/ Serves(g, "update_sop", "update")'
          \/ Edited(g)' \/ Serves(g, "start_run", "insert")'
        => db'[SopRow(desk[g].req.on)] = db[SopRow(desk[g].req.on)]
    BY <2>5 DEF Serves, Edited, SopsKept
  <2>7. QED
    BY <1>4, <2>1, <2>2, <2>3, <2>4, <2>6 DEF HandlerSound
<1>9. QED
  BY <1>3, <1>8

LEMMA FrameSops ==
  ASSUME SopsInv, Base, NEW h \in Handlers, Peers(h), SopsKept, UNCHANGED <<posted, done>>,
         SopsLeftBy(h), Active(h)' => Active(h) /\ desk'[h].n = desk[h].n,
         Owns(h)', HandlerSound(h)'
  PROVE  SopsInv'
<1>1. ASSUME NEW g \in Handlers \ {h}
      PROVE  Owns(g)' /\ HandlerSound(g)'
  BY OtherHandler
<1>2. ASSUME NEW s \in Sops
      PROVE  SopSound(s)' /\ WritersDiffer(s)'
  <2>1. SopSound(s) /\ WritersDiffer(s)
    BY DEF SopsInv
  <2>2. SopSound(s)'
    BY <2>1 DEF SopSound, SopsKept, SopRecords
  <2>3. WritersDiffer(s)'
    BY <2>1 DEF WritersDiffer, SopsKept
  <2>4. QED
    BY <2>2, <2>3
<1>3. ASSUME NEW g \in Handlers
      PROVE  ActiveDiffer(g)'
  <2>1. \A f \in Handlers : Active(f)' => Active(f) /\ desk'[f].n = desk[f].n
    BY DEF Peers, Active
  <2>2. QED
    BY <2>1 DEF SopsInv, ActiveDiffer, SopsKept
<1>4. \A e \in done' : DoneSound(e)'
  BY DEF SopsInv, DoneSound, SopsKept
<1>5. QED
  BY <1>1, <1>2, <1>3, <1>4 DEF SopsInv

LEMMA SameSops ==
  ASSUME SopsInv, Base, Quiet, UNCHANGED opsVars
  PROVE  SopsInv'
<1>1. /\ \A s \in Sops : db'[SopRow(s)] = db[SopRow(s)] /\ Untouched(SopRow(s))
      /\ \A s \in Sops, v \in Versions :
           db'[VersionRow(s, v)] = db[VersionRow(s, v)] /\ Untouched(VersionRow(s, v))
  BY SopRowsAreRows DEF Quiet, Untouched
<1>2. ASSUME NEW s \in Sops
      PROVE  SopSound(s)' /\ WritersDiffer(s)'
  <2>1. SopSound(s) /\ WritersDiffer(s)
    BY DEF SopsInv
  <2>2. WritersDiffer(s)'
    BY <1>1, <2>1 DEF WritersDiffer, opsVars
  <2>3. SopSound(s)'
    BY <1>1, <2>1 DEF SopSound, SopRecords
  <2>4. QED
    BY <2>2, <2>3
<1>3. ASSUME NEW h \in Handlers
      PROVE  ActiveDiffer(h)' /\ Owns(h)' /\ HandlerSound(h)'
  <2>1. ActiveDiffer(h) /\ Owns(h) /\ HandlerSound(h)
    BY DEF SopsInv
  <2>2. ActiveDiffer(h)'
    BY <1>1, <2>1 DEF ActiveDiffer, Active, opsVars
  <2>3. Owns(h)'
    BY <1>1, <2>1 DEF Owns, Untouched, Edited, Inserted, Serves, opsVars
  <2>4. desk[h].req.op \in Edits => desk[h].req.on \in Sops
    BY EditsName
  <2>5. desk[h].req.op = "start_run" => desk[h].req.on \in Sops
    BY EditsName
  <2>6. HandlerSound(h)'
    BY <1>1, <2>1, <2>4, <2>5
    DEF HandlerSound, HasVersion, HasSop, Untouched, Edited, Edits, Serves, opsVars
  <2>7. QED
    BY <2>2, <2>3, <2>6
<1>4. ASSUME NEW e \in done'
      PROVE  DoneSound(e)'
  BY <1>1, <1>4 DEF SopsInv, DoneSound, opsVars
<1>5. QED
  BY <1>2, <1>3, <1>4 DEF SopsInv, opsVars

-----------------------------------------------------------------------------
LEMMA RefuseSops ==
  ASSUME SopsInv, Base, NEW h \in Handlers, Refuse(h), UNCHANGED <<posted, done, deployed>>
  PROVE  SopsInv'
<1>1. Leaves(h) /\ desk'[h] = AtDesk
  BY RefuseKeeps
<1>2. UNCHANGED db
  BY DEF Refuse, Rollback
<1>3. h # NoTx
  BY TxsAre, NoTxIsNoTx
<1>4. ASSUME NEW x \in DeskRows
      PROVE  LeftBy(h, x) /\ holder'[x] # h
  <2>1. x \in RowIds
    BY DeskRowsAreRows
  <2>2. holder[x] = h => holder'[x] = NoTx
    BY <2>1 DEF Refuse, Rollback, Release
  <2>3. holder[x] # h => Untouched(x)
    BY <2>1 DEF Refuse, Rollback, Release, Untouched
  <2>4. CASE holder[x] = h
    BY <1>3, <2>2, <2>4 DEF LeftBy
  <2>5. CASE holder[x] # h
    BY <2>3, <2>5 DEF LeftBy, Untouched
  <2>6. QED
    BY <2>4, <2>5
<1>5. SopsLeftBy(h) /\ Owns(h)'
  BY <1>4, SopRowsAreRows DEF SopsLeftBy, Owns
<1>6. HandlerSound(h)' /\ ~Active(h)'
  BY <1>1 DEF HandlerSound, Edited, Serves, Active, AtDesk
<1>7. QED
  BY <1>1, <1>2, <1>5, <1>6, FrameSops DEF Active, Leaves, Peers, SopsKept

LEMMA CreateSops ==
  ASSUME SopsInv, Base, NEW h \in Handlers, CreateSop(h), ~Refuse(h),
         UNCHANGED <<posted, done, deployed>>
  PROVE  SopsInv'
<1> DEFINE s == desk[h].req.on
           n == desk[h].n
           rec == [current |-> 1, status |-> desk[h].req.to, by |-> n]
           ws == Both(Row(SopRow(s), rec), Row(VersionRow(s, 1), n))
<1>1. Leaves(h)
  BY StatementKeeps DEF Statement
<1>2. s \in Sops /\ 1 \in Versions /\ desk[h].req.to \in STRING
  BY EditsName, RequestsAreBounded DEF CreateSop, Serves, Edits, Versions
<1>3. /\ Write(h, ws) /\ CanLock(h, SopRow(s)) /\ new[SopRow(s)] = None
      /\ desk[h].pc = "first" /\ desk[h].req.op = "create_sop"
      /\ desk'[h].pc = "commit" /\ desk'[h].req = desk[h].req /\ desk'[h].n = n
      /\ desk'[h].seen = 1
  BY DEF CreateSop, Serves, Base, DeskOK, AtDesk
<1>4. DOMAIN ws = {SopRow(s), VersionRow(s, 1)} /\ ws[SopRow(s)] = rec
      /\ ws[VersionRow(s, 1)] = n
  BY SopRowsDiffer DEF Both, Row
<1>5. n \in 1..posted /\ n \in 0..MaxRequests
  BY <1>3, RequestsAreBounded DEF SopsInv, ActiveDiffer, Active
<1>6. rec \in SopRecords
  BY <1>2, <1>5 DEF SopRecords
<1> HIDE DEF ws, rec
<1>7. /\ UNCHANGED db
      /\ holder'[SopRow(s)] = h /\ new'[SopRow(s)] = rec
      /\ holder'[VersionRow(s, 1)] = h /\ new'[VersionRow(s, 1)] = n
      /\ \A x \in RowIds \ {SopRow(s), VersionRow(s, 1)} : Untouched(x)
  BY <1>2, <1>3, <1>4, SopRowsAreRows DEF Write, Untouched
<1>8. holder[SopRow(s)] = NoTx /\ db[SopRow(s)] = None
  <2>1. holder[SopRow(s)] # h
    BY <1>2, <1>3 DEF SopsInv, Owns, Edited
  <2>2. QED
    BY <1>2, <1>3, <2>1, SopRowsAreRows DEF CanLock, Base, RowsOK, UnlockedIsCommitted
<1>9. holder[VersionRow(s, 1)] \in {h, NoTx}
  <2>1. SUFFICES ASSUME NEW g \in Handlers, holder[VersionRow(s, 1)] = g PROVE FALSE
    BY <1>2, SopRowsAreRows DEF Base, RowsOK
  <2>2. Inserted(g) /\ desk[g].req.on = s
    BY <1>2, <2>1 DEF SopsInv, Owns
  <2>3. HandlerSound(g)
    BY DEF SopsInv
  <2>4. CASE Edited(g)
    BY <1>8, <2>2, <2>3, <2>4, TxsAre, NoTxIsNoTx DEF HandlerSound, HasSop
  <2>5. CASE Serves(g, "update_sop", "update")
    BY <1>8, <2>2, <2>3, <2>5 DEF HandlerSound
  <2>6. QED
    BY <2>2, <2>4, <2>5 DEF Inserted
<1>10. SopsLeftBy(h)
  <2>1. LeftBy(h, SopRow(s)) /\ LeftBy(h, VersionRow(s, 1))
    BY <1>7, <1>8, <1>9 DEF LeftBy
  <2>2. \A x \in RowIds : LeftBy(h, x)
    BY <1>7, <2>1 DEF LeftBy
  <2>3. QED
    BY <2>2, SopRowsAreRows DEF SopsLeftBy
<1>11. Edited(h)'
  BY <1>3 DEF Edited, Edits
<1>12. Owns(h)'
  <2>1. \A t \in Sops : holder[SopRow(t)] # h /\ \A v \in Versions : holder[VersionRow(t, v)] # h
    BY <1>3 DEF SopsInv, Owns, Edited, Inserted, Serves
  <2>2. ASSUME NEW t \in Sops, holder'[SopRow(t)] = h
        PROVE  t = s
    BY <1>7, <2>1, <2>2, SopRowsAreRows, SopRowsDiffer DEF Untouched
  <2>3. ASSUME NEW t \in Sops, NEW v \in Versions, holder'[VersionRow(t, v)] = h
        PROVE  t = s /\ v = 1
    BY <1>7, <2>1, <2>3, SopRowsAreRows, SopRowsDiffer DEF Untouched
  <2>4. QED
    BY <1>3, <1>11, <2>2, <2>3 DEF Owns, Inserted
<1>13. HandlerSound(h)'
  <2>1. HasVersion(h)'
    BY <1>2, <1>3, <1>7 DEF HasVersion
  <2>2. HasSop(h)'
    BY <1>3, <1>6, <1>7 DEF HasSop, rec
  <2>3. QED
    BY <1>3, <1>7, <1>8, <2>1, <2>2 DEF HandlerSound, Serves
<1>14. QED
  BY <1>1, <1>3, <1>7, <1>10, <1>12, <1>13, FrameSops DEF Active, Leaves, Peers, SopsKept

(* A handler that only reads and remembers.                                *)
LEMMA ReadSops ==
  ASSUME SopsInv, Base, NEW h \in Handlers, ReadVersion(h) \/ ReadForRun(h), ~Refuse(h),
         UNCHANGED <<posted, done, deployed>>
  PROVE  SopsInv'
<1> DEFINE s == desk[h].req.on
<1>1. Leaves(h)
  BY StatementKeeps DEF Statement
<1>2. UNCHANGED <<db, new, holder>>
  BY DEF ReadVersion, ReadForRun, dbVars
<1>3. /\ desk[h].pc = "first" /\ desk[h].req.op \in {"update_sop", "start_run"}
      /\ desk'[h].pc = "insert" /\ desk'[h].req = desk[h].req /\ desk'[h].n = desk[h].n
  BY DEF ReadVersion, ReadForRun, Serves, Base, DeskOK, AtDesk
<1>4. s \in Sops
  BY <1>3, EditsName DEF Edits
<1>5. Sees(h, SopRow(s)) = db[SopRow(s)]
  BY <1>3, <1>4 DEF Sees, SopsInv, Owns, Edited
<1>6. db[SopRow(s)] # None
  BY <1>5 DEF ReadVersion, ReadForRun
<1>7. db[SopRow(s)].current \in Versions /\ db[SopRow(s)].current + 1 \in Versions
  BY <1>3, <1>4, <1>6, NextVersionFits DEF Active, SopsInv, SopSound, SopRecords
<1>8. /\ desk[h].req.op = "update_sop" => desk'[h].seen = db[SopRow(s)].current + 1
      /\ desk[h].req.op = "start_run" => desk'[h].seen = db[SopRow(s)].current
  BY <1>5 DEF ReadVersion, ReadForRun, Serves, Base, DeskOK, AtDesk
<1>9. SopsLeftBy(h)
  <2>1. \A x : LeftBy(h, x)
    BY <1>2 DEF LeftBy, Untouched
  <2>2. QED
    BY <2>1 DEF SopsLeftBy
<1>10. Owns(h)'
  BY <1>2, <1>3 DEF SopsInv, Owns, Edited, Inserted, Serves
<1>11. HandlerSound(h)'
  BY <1>2, <1>3, <1>6, <1>7, <1>8 DEF HandlerSound, Serves, Edited, Versions
<1>12. QED
  BY <1>1, <1>2, <1>3, <1>9, <1>10, <1>11, FrameSops DEF Active, Leaves, Peers, SopsKept

(* The unique key: a number that is free now is the one after the current  *)
(* one, whenever it was computed.                                          *)
LEMMA InsertSops ==
  ASSUME SopsInv, Base, NEW h \in Handlers, InsertVersion(h), ~Refuse(h),
         UNCHANGED <<posted, done, deployed>>
  PROVE  SopsInv'
<1> DEFINE s == desk[h].req.on
           v == desk[h].seen
           x == VersionRow(s, v)
<1>1. Leaves(h)
  BY StatementKeeps DEF Statement
<1>2. s \in Sops /\ desk[h].req.op = "update_sop" /\ desk[h].pc = "insert"
  BY EditsName DEF InsertVersion, Serves, Edits
<1>3. db[SopRow(s)] # None /\ v \in Versions /\ v <= db[SopRow(s)].current + 1
  BY <1>2 DEF SopsInv, HandlerSound, Serves
<1>4. /\ Write(h, Row(x, desk[h].n)) /\ CanLock(h, x) /\ new[x] = None
      /\ desk'[h].pc = "update" /\ desk'[h].req = desk[h].req /\ desk'[h].n = desk[h].n
      /\ desk'[h].seen = v
  BY DEF InsertVersion, Taken, Goto, Base, DeskOK, AtDesk
<1>5. x \in RowIds
  BY <1>2, <1>3, SopRowsAreRows
<1>6. holder[x] = NoTx /\ db[x] = None
  <2>1. holder[x] # h
    BY <1>2, <1>3 DEF SopsInv, Owns, Inserted, Edited, Serves
  <2>2. QED
    BY <1>4, <1>5, <2>1 DEF CanLock, Base, RowsOK, UnlockedIsCommitted
<1>7. v = db[SopRow(s)].current + 1
  <2>1. db[SopRow(s)].current \in Versions /\ ~(v <= db[SopRow(s)].current)
    BY <1>2, <1>3, <1>6 DEF SopsInv, SopSound, SopRecords
  <2>2. QED
    BY <1>3, <2>1 DEF Versions
<1>8. /\ UNCHANGED db /\ holder'[x] = h /\ new'[x] = desk[h].n
      /\ \A y \in RowIds \ {x} : Untouched(y)
  BY <1>4, <1>5 DEF Write, Row, Untouched
<1>9. SopsLeftBy(h)
  <2>1. \A y \in RowIds : LeftBy(h, y)
    BY <1>6, <1>8 DEF LeftBy
  <2>2. QED
    BY <2>1, SopRowsAreRows DEF SopsLeftBy
<1>10. Serves(h, "update_sop", "update")' /\ ~Edited(h)'
  BY <1>2, <1>4 DEF Serves, Edited
<1>11. Owns(h)'
  <2>1. \A t \in Sops : holder[SopRow(t)] # h /\ \A w \in Versions : holder[VersionRow(t, w)] # h
    BY <1>2 DEF SopsInv, Owns, Edited, Inserted, Serves
  <2>2. \A t \in Sops : holder'[SopRow(t)] # h
    BY <1>8, <2>1, SopRowsAreRows, SopRowsDiffer DEF Untouched
  <2>3. ASSUME NEW t \in Sops, NEW w \in Versions, holder'[VersionRow(t, w)] = h
        PROVE  t = s /\ w = v
    BY <1>8, <2>1, <2>3, SopRowsAreRows, SopRowsDiffer DEF Untouched
  <2>4. QED
    BY <1>4, <1>10, <2>2, <2>3 DEF Owns, Inserted
<1>12. HandlerSound(h)'
  <2>1. HasVersion(h)'
    BY <1>3, <1>4, <1>8 DEF HasVersion
  <2>2. QED
    BY <1>3, <1>4, <1>7, <1>8, <1>10, <2>1 DEF HandlerSound, Serves
<1>13. QED
  BY <1>1, <1>2, <1>4, <1>8, <1>9, <1>11, <1>12, FrameSops DEF Active, Leaves, Peers, SopsKept

LEMMA UpdateSops ==
  ASSUME SopsInv, Base, NEW h \in Handlers, UpdateSop(h), ~Refuse(h),
         UNCHANGED <<posted, done, deployed>>
  PROVE  SopsInv'
<1> DEFINE s == desk[h].req.on
           x == SopRow(s)
           rec == [current |-> desk[h].seen, status |-> desk[h].req.to, by |-> desk[h].n]
<1>1. Leaves(h)
  BY StatementKeeps DEF Statement
<1>2. /\ s \in Sops /\ desk[h].req.op = "update_sop" /\ desk[h].pc = "update"
      /\ desk[h].req.to \in STRING
  BY EditsName DEF UpdateSop, Serves, Edits
<1>3. db[x] # None /\ HasVersion(h) /\ desk[h].seen = db[x].current + 1
  BY <1>2 DEF SopsInv, HandlerSound, Serves
<1>4. /\ Write(h, Row(x, rec)) /\ CanLock(h, x)
      /\ desk'[h].pc = "commit" /\ desk'[h].req = desk[h].req /\ desk'[h].n = desk[h].n
      /\ desk'[h].seen = desk[h].seen
  BY DEF UpdateSop, Goto, Base, DeskOK, AtDesk
<1>5. rec \in SopRecords
  BY <1>2, <1>3, RequestsAreBounded
  DEF SopRecords, HasVersion, SopsInv, ActiveDiffer, Active
<1> HIDE DEF rec
<1>6. x \in RowIds
  BY <1>2, SopRowsAreRows
<1>7. /\ UNCHANGED db /\ holder'[x] = h /\ new'[x] = rec
      /\ \A y \in RowIds \ {x} : Untouched(y)
  BY <1>4, <1>6 DEF Write, Row, Untouched
<1>8. SopsLeftBy(h)
  <2>1. \A y \in RowIds : LeftBy(h, y)
    BY <1>4, <1>7 DEF LeftBy, CanLock
  <2>2. QED
    BY <2>1, SopRowsAreRows DEF SopsLeftBy
<1>9. Edited(h)' /\ Inserted(h)'
  BY <1>2, <1>4 DEF Edited, Edits, Inserted
<1>10. Owns(h)'
  <2>1. \A t \in Sops :
          /\ holder[SopRow(t)] # h
          /\ \A w \in Versions : holder[VersionRow(t, w)] = h => t = s /\ w = desk[h].seen
    BY <1>2 DEF SopsInv, Owns, Edited
  <2>2. ASSUME NEW t \in Sops, holder'[SopRow(t)] = h
        PROVE  t = s
    BY <1>7, <2>1, <2>2, SopRowsAreRows, SopRowsDiffer DEF Untouched
  <2>3. ASSUME NEW t \in Sops, NEW w \in Versions, holder'[VersionRow(t, w)] = h
        PROVE  t = s /\ w = desk[h].seen
    BY <1>7, <2>1, <2>3, SopRowsAreRows, SopRowsDiffer DEF Untouched
  <2>4. QED
    BY <1>4, <1>9, <2>2, <2>3 DEF Owns
<1>11. HandlerSound(h)'
  <2>1. VersionRow(s, desk[h].seen) \in RowIds /\ VersionRow(s, desk[h].seen) # x
    BY <1>2, <1>3, SopRowsAreRows, SopRowsDiffer DEF HasVersion
  <2>2. HasVersion(h)'
    BY <1>3, <1>4, <1>7, <2>1 DEF HasVersion, Untouched
  <2>3. HasSop(h)'
    BY <1>4, <1>5, <1>7 DEF HasSop, rec
  <2>4. QED
    BY <1>3, <1>4, <1>7, <2>2, <2>3 DEF HandlerSound, Serves
<1>12. QED
  BY <1>1, <1>2, <1>4, <1>7, <1>8, <1>10, <1>11, FrameSops DEF Active, Leaves, Peers, SopsKept

(* Statements that write no row of a SOP.                                  *)
LEMMA OtherStatementsSops ==
  ASSUME SopsInv, Base, NEW h \in Handlers, Statement(h), ~Refuse(h),
         ~CreateSop(h), ~ReadVersion(h), ~InsertVersion(h), ~UpdateSop(h), ~ReadForRun(h),
         UNCHANGED deployed
  PROVE  SopsInv'
<1>1. Leaves(h) /\ UNCHANGED <<posted, done>>
  BY StatementKeeps DEF Statement
<1>2. /\ desk[h].pc # "idle" /\ desk'[h].n = desk[h].n
      /\ ~Inserted(h) /\ ~Edited(h)
      /\ ~Edited(h)' /\ ~Serves(h, "update_sop", "insert")'
      /\ ~Serves(h, "update_sop", "update")' /\ ~Serves(h, "start_run", "insert")'
  BY DEF Base, DeskOK, AtDesk, Goto, Serves, Inserted, Edited, Edits,
         Statement, InsertRun, SelectConfig, WriteConfig, RegisterRelease, FindCurrent,
         Demote, Promote
<1>3. ASSUME NEW ws, Write(h, ws),
             \A y \in DOMAIN ws : y[1] \in {"run", "config", "release"}
      PROVE  UNCHANGED db /\ \A s \in Sops :
               Untouched(SopRow(s)) /\ \A v \in Versions : Untouched(VersionRow(s, v))
  <2>1. \A s \in Sops : SopRow(s) \notin DOMAIN ws
                       /\ \A v \in Versions : VersionRow(s, v) \notin DOMAIN ws
    BY <1>3, SopRowsDiffer
  <2>2. QED
    BY <1>3, <2>1, SopRowsAreRows DEF Write, Untouched
<1>4. UNCHANGED db /\ \A s \in Sops :
        Untouched(SopRow(s)) /\ \A v \in Versions : Untouched(VersionRow(s, v))
  <2>1. ASSUME NEW x, x[1] \in {"run", "config", "release"}, NEW r, Write(h, Row(x, r))
        PROVE  UNCHANGED db /\ \A s \in Sops :
                 Untouched(SopRow(s)) /\ \A v \in Versions : Untouched(VersionRow(s, v))
    BY <1>3, <2>1 DEF Row
  <2>2. CASE InsertRun(h)
    BY <2>1, <2>2 DEF InsertRun, RunRow
  <2>3. CASE SelectConfig(h)
    <3> DEFINE ws == [y \in ConfigLocks(h, ConfigRow(desk[h].req.on)) |-> new[y]]
    <3>1. Write(h, ws)
      BY <2>3 DEF SelectConfig
    <3>2. \A y \in DOMAIN ws : y[1] = "config"
      BY DEF ConfigLocks, ConfigRow
    <3> HIDE DEF ws
    <3>3. QED
      BY <1>3, <3>1, <3>2
  <2>4. CASE WriteConfig(h)
    BY <2>1, <2>4 DEF WriteConfig, ConfigRow
  <2>5. CASE UNCHANGED dbVars
    BY <2>5 DEF dbVars, Untouched
  <2>6. CASE RegisterRelease(h) \/ Promote(h)
    BY <2>1, <2>5, <2>6 DEF RegisterRelease, Promote, ReleaseRow
  <2>7. CASE Demote(h)
    <3>1. PICK b : Write(h, IF new[ReleaseRow(b)] = "current"
                              THEN Row(ReleaseRow(b), "rolled_back") ELSE NoRow)
      BY <2>7 DEF Demote
    <3>2. CASE new[ReleaseRow(b)] = "current"
      BY <2>1, <3>1, <3>2 DEF ReleaseRow
    <3>3. CASE new[ReleaseRow(b)] # "current"
      BY <1>3, <3>1, <3>3 DEF NoRow
    <3>4. QED
      BY <3>2, <3>3
  <2>8. QED
    BY <2>2, <2>3, <2>4, <2>5, <2>6, <2>7 DEF Statement, FindCurrent
<1>5. SopsLeftBy(h)
  BY <1>4 DEF SopsLeftBy, LeftBy
<1>6. Owns(h)'
  BY <1>2, <1>4 DEF SopsInv, Owns, Untouched
<1>7. HandlerSound(h)'
  BY <1>2 DEF HandlerSound
<1>8. QED
  BY <1>1, <1>2, <1>4, <1>5, <1>6, <1>7, FrameSops DEF Active, Leaves, Peers, SopsKept

-----------------------------------------------------------------------------
LEMMA ReceiveSops ==
  ASSUME SopsInv, Base, NEW h \in Handlers, NEW q \in deployed.requests, Receive(h, q),
         UNCHANGED deployed
  PROVE  SopsInv'
<1>1. /\ Leaves(h) /\ UNCHANGED <<dbVars, done>>
      /\ desk[h].pc = "idle" /\ desk'[h].pc = "first"
  BY ReceiveKeeps
<1>2. /\ posted \in Nat /\ posted < MaxRequests /\ posted' = posted + 1
      /\ desk'[h].n = posted + 1
  BY RequestsAreBounded DEF Receive, SopsInv, AtDesk, Base, DeskOK
<1>3. SopsKept /\ SopsLeftBy(h)
  <2>1. \A x : LeftBy(h, x) /\ db'[x] = db[x]
    BY <1>1 DEF dbVars, LeftBy, Untouched
  <2>2. QED
    BY <2>1 DEF SopsKept, SopsLeftBy
<1>4. ASSUME NEW g \in Handlers
      PROVE  Owns(g)' /\ HandlerSound(g)'
  <2>1. CASE g = h
    BY <1>1, <2>1 DEF SopsInv, Owns, HandlerSound, Edited, Inserted, Serves, dbVars
  <2>2. CASE g # h
    BY <1>1, <1>3, <2>2, OtherHandler DEF Leaves, Peers
  <2>3. QED
    BY <2>1, <2>2
<1>5. posted' \in 0..MaxRequests
  BY <1>2, RequestsAreBounded
<1>6. ASSUME NEW s \in Sops
      PROVE  SopSound(s)' /\ WritersDiffer(s)'
  <2>1. SopSound(s) /\ WritersDiffer(s)
    BY DEF SopsInv
  <2>2. SopSound(s)'
    BY <1>3, <2>1 DEF SopSound, SopsKept, SopRecords
  <2>3. WritersDiffer(s)'
    BY <1>2, <1>3, <2>1 DEF WritersDiffer, SopsKept
  <2>4. QED
    BY <2>2, <2>3
<1>7. \A s \in Sops, v \in Versions : db[VersionRow(s, v)] # posted + 1
  <2> SUFFICES ASSUME NEW s \in Sops, NEW v \in Versions, db[VersionRow(s, v)] = posted + 1
               PROVE  FALSE
    OBVIOUS
  <2>1. db[VersionRow(s, v)] # None
    BY <1>2, RequestsAreBounded, NoneIsNoValue
  <2>2. db[VersionRow(s, v)] \in 0..posted
    BY <2>1 DEF SopsInv, WritersDiffer
  <2>3. QED
    BY <1>2, <2>2
<1>8. ASSUME NEW g \in Handlers
      PROVE  ActiveDiffer(g)'
  <2>1. ActiveDiffer(g)
    BY DEF SopsInv
  <2>2. \A f \in Handlers \ {h} :
          /\ desk'[f] = desk[f]
          /\ Active(f) => desk[f].n \in 1..posted
    BY <1>1 DEF Leaves, SopsInv, ActiveDiffer
  <2>3. CASE g = h
    BY <1>2, <1>3, <1>7, <2>2, <2>3 DEF ActiveDiffer, Active, SopsKept
  <2>4. CASE g # h
    BY <1>2, <1>3, <2>1, <2>2, <2>4 DEF ActiveDiffer, Active, SopsKept
  <2>5. QED
    BY <2>3, <2>4
<1>9. ASSUME NEW e \in done'
      PROVE  DoneSound(e)'
  BY <1>1, <1>3, <1>9 DEF SopsInv, DoneSound, SopsKept
<1>10. QED
  BY <1>4, <1>5, <1>6, <1>8, <1>9 DEF SopsInv

LEMMA CommitKeepsRest ==
  ASSUME SopsInv, Base, NEW h \in Handlers, Commit(h), UNCHANGED deployed
  PROVE  /\ Peers(h) /\ desk'[h] = AtDesk /\ ~Active(h)'
         /\ SopsLeftBy(h) /\ Owns(h)' /\ HandlerSound(h)' /\ UNCHANGED posted
<1>1. Peers(h) /\ desk'[h] = AtDesk /\ UNCHANGED posted
  BY CommitKeeps DEF Peers, Commit
<1>2. h # NoTx
  BY TxsAre, NoTxIsNoTx
<1>3. ASSUME NEW x \in DeskRows
      PROVE  LeftBy(h, x) /\ holder'[x] # h
  <2>1. x \in RowIds
    BY DeskRowsAreRows
  <2>2. CASE holder[x] = h
    <3>1. holder'[x] = NoTx
      BY <2>1, <2>2 DEF Commit, Publish, Release
    <3>2. QED
      BY <1>2, <2>2, <3>1 DEF LeftBy
  <2>3. CASE holder[x] # h
    <3>1. Untouched(x)
      BY <2>1, <2>3 DEF Commit, Publish, Release, Untouched
    <3>2. QED
      BY <2>3, <3>1 DEF LeftBy, Untouched
  <2>4. QED
    BY <2>2, <2>3
<1>4. SopsLeftBy(h) /\ Owns(h)'
  BY <1>3, SopRowsAreRows DEF SopsLeftBy, Owns
<1>5. ~Active(h)' /\ HandlerSound(h)'
  BY <1>1 DEF HandlerSound, Edited, Serves, Active, AtDesk
<1>6. QED
  BY <1>1, <1>4, <1>5

LEMMA CommitOtherSops ==
  ASSUME SopsInv, Base, NEW h \in Handlers, Commit(h), ~Edited(h), UNCHANGED deployed
  PROVE  SopsInv'
<1>1. done' = done /\ ~Inserted(h)
  BY DEF Commit, Edited, Inserted, Serves
<1>2. SopsKept
  <2>1. \A s \in Sops : holder[SopRow(s)] # h
                       /\ \A v \in Versions : holder[VersionRow(s, v)] # h
    BY <1>1 DEF SopsInv, Owns
  <2>2. QED
    BY <2>1, SopRowsAreRows DEF SopsKept, Commit, Publish
<1>3. QED
  BY <1>1, <1>2, CommitKeepsRest, FrameSops

(* The COMMIT of an edit adds the version after the current one, or the    *)
(* first one.                                                              *)
LEMMA CommitEditSops ==
  ASSUME SopsInv, Base, NEW h \in Handlers, Commit(h), Edited(h), UNCHANGED deployed
  PROVE  SopsInv'
<1> DEFINE s == desk[h].req.on
           v == desk[h].seen
           n == desk[h].n
           old == db[SopRow(s)]
           rec == new[SopRow(s)]
<1>1. Peers(h) /\ ~Active(h)' /\ SopsLeftBy(h) /\ Owns(h)' /\ HandlerSound(h)' /\ posted' = posted
  BY CommitKeepsRest
<1>2. /\ s \in Sops /\ v \in Versions
      /\ HasVersion(h) /\ HasSop(h)
      /\ v = IF old = None THEN 1 ELSE old.current + 1
  BY EditsName DEF SopsInv, HandlerSound, HasVersion, Edited
<1>3. done' = done \cup {[by |-> n, sop |-> s, version |-> v]}
  BY DEF Commit, Edited
<1>4. n \in 1..posted /\ n \in 1..MaxRequests /\ n # None
  <2>1. n \in 1..posted /\ posted \in 0..MaxRequests
    BY DEF SopsInv, ActiveDiffer, Active, Edited
  <2>2. QED
    BY <2>1, RequestsAreBounded, NoneIsNoValue
<1>5. /\ db'[SopRow(s)] = rec /\ db'[VersionRow(s, v)] = n
      /\ \A t \in Sops \ {s} : db'[SopRow(t)] = db[SopRow(t)]
      /\ \A t \in Sops, w \in Versions :
           ~(t = s /\ w = v) => db'[VersionRow(t, w)] = db[VersionRow(t, w)]
  <2>1. /\ \A t \in Sops \ {s} : holder[SopRow(t)] # h
        /\ \A t \in Sops, w \in Versions : ~(t = s /\ w = v) => holder[VersionRow(t, w)] # h
    BY DEF SopsInv, Owns
  <2>2. QED
    BY <1>2, <2>1, SopRowsAreRows DEF Commit, Publish, HasVersion, HasSop
<1>6. rec \in SopRecords /\ rec.current = v /\ rec.by = n /\ rec # None
  BY <1>2, NoneIsNoValue DEF HasSop
<1>7. /\ old # None => old.current \in Nat /\ v = old.current + 1
      /\ \A w \in Versions \ {v} : db[VersionRow(s, w)] # None <=> w <= v
      /\ db[VersionRow(s, v)] = None
  <2>1. SopSound(s)
    BY <1>2 DEF SopsInv
  <2>2. CASE old = None
    BY <1>2, <2>1, <2>2 DEF SopSound, Versions
  <2>3. CASE old # None
    BY <1>2, <2>1, <2>3 DEF SopSound, SopRecords, Versions
  <2>4. QED
    BY <2>2, <2>3
<1>8. ASSUME NEW t \in Sops
      PROVE  SopSound(t)' /\ WritersDiffer(t)'
  <2>1. SopSound(t) /\ WritersDiffer(t)
    BY DEF SopsInv
  <2>2. CASE t # s
    <3>1. /\ db'[SopRow(t)] = db[SopRow(t)]
          /\ \A w \in Versions : db'[VersionRow(t, w)] = db[VersionRow(t, w)]
      BY <1>5, <2>2
    <3>2. SopSound(t)'
      BY <2>1, <3>1 DEF SopSound, SopRecords
    <3>3. WritersDiffer(t)'
      BY <1>1, <2>1, <3>1 DEF WritersDiffer
    <3>4. QED
      BY <3>2, <3>3
  <2>3. CASE t = s
    <3>1. \A w \in Versions : db'[VersionRow(s, w)] # None <=> w <= v
      BY <1>2, <1>4, <1>5, <1>7 DEF Versions
    <3>2. SopSound(t)'
      <4>1. db'[SopRow(t)] = rec /\ db'[VersionRow(t, rec.current)] = rec.by
        BY <1>5, <1>6, <2>3
      <4>2. \A w \in Versions : db'[VersionRow(t, w)] # None <=> w <= rec.current
        BY <1>6, <2>3, <3>1
      <4> HIDE DEF rec, s
      <4>3. QED
        BY <1>6, <4>1, <4>2 DEF SopSound
    <3>3. \A w \in Versions : db[VersionRow(s, w)] # n
      BY <1>2 DEF SopsInv, ActiveDiffer, Active, Edited
    <3>4. ASSUME NEW u \in Versions, db'[VersionRow(s, u)] # None
          PROVE  /\ db'[VersionRow(s, u)] \in 0..posted
                 /\ \A w \in Versions :
                      db'[VersionRow(s, w)] = db'[VersionRow(s, u)] => w = u
      <4>1. CASE u = v
        BY <1>2, <1>4, <1>5, <3>3, <4>1
      <4>2. CASE u # v
        BY <1>2, <1>4, <1>5, <2>1, <2>3, <3>3, <3>4, <4>2 DEF WritersDiffer
      <4>3. QED
        BY <4>1, <4>2
    <3>5. WritersDiffer(t)'
      BY <1>1, <2>3, <3>4 DEF WritersDiffer
    <3>6. QED
      BY <3>2, <3>5
  <2>4. QED
    BY <2>2, <2>3
<1>9. ASSUME NEW g \in Handlers
      PROVE  ActiveDiffer(g)'
  <2>1. ActiveDiffer(g) /\ ActiveDiffer(h)
    BY DEF SopsInv
  <2>2. \A f \in Handlers : Active(f)' => f # h /\ Active(f) /\ desk'[f].n = desk[f].n
    BY <1>1 DEF Peers, Active
  <2>3. Active(g)' => \A t \in Sops, w \in Versions : db'[VersionRow(t, w)] # desk[g].n
    BY <1>2, <1>5, <2>1, <2>2 DEF ActiveDiffer, Active, Edited
  <2>4. QED
    BY <1>1, <2>1, <2>2, <2>3 DEF ActiveDiffer
<1>10. ASSUME NEW e \in done'
       PROVE  DoneSound(e)'
  <2>1. CASE e \in done
    <3>1. DoneSound(e)
      BY <2>1 DEF SopsInv
    <3>2. db[VersionRow(e.sop, e.version)] # None
      BY <3>1, RequestsAreBounded, NoneIsNoValue DEF DoneSound
    <3>3. ~(e.sop = s /\ e.version = v)
      BY <1>7, <3>2
    <3>4. QED
      BY <1>5, <3>1, <3>3 DEF DoneSound
  <2>2. CASE e = [by |-> n, sop |-> s, version |-> v]
    BY <1>2, <1>4, <1>5, <2>2 DEF DoneSound
  <2>3. QED
    BY <1>3, <1>10, <2>1, <2>2
<1>11. ASSUME NEW g \in Handlers \ {h}
       PROVE  Owns(g)' /\ HandlerSound(g)'
  <2> DEFINE t == desk[g].req.on
  <2>1. /\ desk'[g].pc = desk[g].pc /\ desk'[g].req = desk[g].req
        /\ desk'[g].n = desk[g].n /\ desk'[g].seen = desk[g].seen
    BY <1>1 DEF Peers
  <2>2. Owns(g) /\ HandlerSound(g) /\ g # NoTx
    BY TxsAre, NoTxIsNoTx DEF SopsInv
  <2>3. /\ \A r \in Sops : /\ holder'[SopRow(r)] = g <=> holder[SopRow(r)] = g
                           /\ holder[SopRow(r)] = g => new'[SopRow(r)] = new[SopRow(r)]
        /\ \A r \in Sops, w \in Versions :
             /\ holder'[VersionRow(r, w)] = g <=> holder[VersionRow(r, w)] = g
             /\ holder[VersionRow(r, w)] = g => new'[VersionRow(r, w)] = new[VersionRow(r, w)]
    BY <1>1, <2>2 DEF SopsLeftBy, LeftBy, Untouched
  <2>4. Owns(g)'
    BY <2>1, <2>2, <2>3 DEF Owns, Edited, Inserted, Serves
  <2>5. desk[g].req.op \in Edits \cup {"start_run"} => t \in Sops
    BY EditsName
  <2>6. "update_sop" \in Edits
    BY DEF Edits
  <2>7. desk[g].req.op \in Edits => /\ HasVersion(g) => HasVersion(g)'
                                    /\ HasSop(g) => HasSop(g)'
    BY <2>1, <2>3, <2>5 DEF HasVersion, HasSop
  <2>8. Serves(g, "update_sop", "insert")' =>
          /\ db'[SopRow(t)] # None
          /\ desk'[g].seen \in Versions /\ desk'[g].seen <= db'[SopRow(t)].current + 1
    <3>1. SUFFICES ASSUME Serves(g, "update_sop", "insert")
                   PROVE  /\ db'[SopRow(t)] # None
                          /\ desk'[g].seen \in Versions
                          /\ desk'[g].seen <= db'[SopRow(t)].current + 1
      BY <2>1 DEF Serves
    <3>2. db[SopRow(t)] # None /\ desk[g].seen \in Versions
          /\ desk[g].seen <= db[SopRow(t)].current + 1 /\ t \in Sops
      BY <2>2, <2>5, <2>6, <3>1 DEF HandlerSound, Serves
    <3>3. CASE t = s
      BY <1>5, <1>6, <1>7, <2>1, <3>2, <3>3 DEF Versions
    <3>4. CASE t # s
      BY <1>5, <2>1, <3>2, <3>4
    <3>5. QED
      BY <3>3, <3>4
  <2>9. Serves(g, "start_run", "insert")' =>
          /\ db'[SopRow(t)] # None
          /\ desk'[g].seen \in Versions /\ desk'[g].seen <= db'[SopRow(t)].current
    <3>1. SUFFICES ASSUME Serves(g, "start_run", "insert")
                   PROVE  /\ db'[SopRow(t)] # None
                          /\ desk'[g].seen \in Versions
                          /\ desk'[g].seen <= db'[SopRow(t)].current
      BY <2>1 DEF Serves
    <3>2. db[SopRow(t)] # None /\ desk[g].seen \in Versions
          /\ desk[g].seen <= db[SopRow(t)].current /\ t \in Sops
      BY <2>2, <2>5, <3>1 DEF HandlerSound, Serves
    <3>3. CASE t = s
      BY <1>5, <1>6, <1>7, <2>1, <3>2, <3>3 DEF Versions
    <3>4. CASE t # s
      BY <1>5, <2>1, <3>2, <3>4
    <3>5. QED
      BY <3>3, <3>4
  <2>10. Serves(g, "update_sop", "update")' =>
           /\ db'[SopRow(t)] # None /\ HasVersion(g)'
           /\ desk'[g].seen = db'[SopRow(t)].current + 1
    <3>1. SUFFICES ASSUME Serves(g, "update_sop", "update")
                   PROVE  /\ db'[SopRow(t)] # None /\ HasVersion(g)'
                          /\ desk'[g].seen = db'[SopRow(t)].current + 1
      BY <2>1 DEF Serves
    <3>2. db[SopRow(t)] # None /\ HasVersion(g)
          /\ desk[g].seen = db[SopRow(t)].current + 1 /\ t \in Sops
      BY <2>2, <2>5, <2>6, <3>1 DEF HandlerSound, Serves
    <3>3. t # s
      BY <1>2, <1>7, <3>2 DEF HasVersion
    <3>4. QED
      BY <1>5, <2>1, <2>6, <2>7, <3>1, <3>2, <3>3 DEF Serves
  <2>11. Edited(g)' =>
           /\ HasVersion(g)' /\ HasSop(g)'
           /\ desk'[g].seen = IF db'[SopRow(t)] = None THEN 1 ELSE db'[SopRow(t)].current + 1
    <3>1. SUFFICES ASSUME Edited(g)
                   PROVE  /\ HasVersion(g)' /\ HasSop(g)'
                          /\ desk'[g].seen = IF db'[SopRow(t)] = None THEN 1
                                             ELSE db'[SopRow(t)].current + 1
      BY <2>1 DEF Edited
    <3>2. /\ HasVersion(g) /\ HasSop(g) /\ t \in Sops
          /\ desk[g].seen = IF db[SopRow(t)] = None THEN 1 ELSE db[SopRow(t)].current + 1
      BY <2>2, <2>5, <3>1 DEF HandlerSound, Edited
    <3>3. t # s
      BY <1>2, <3>2 DEF HasSop
    <3>4. QED
      BY <1>5, <2>1, <2>7, <3>1, <3>2, <3>3 DEF Edited
  <2>12. HandlerSound(g)'
    BY <2>1, <2>8, <2>9, <2>10, <2>11 DEF HandlerSound
  <2>13. QED
    BY <2>4, <2>12
<1>12. posted' \in 0..MaxRequests
  BY <1>1 DEF SopsInv
<1>13. QED
  BY <1>1, <1>8, <1>9, <1>10, <1>11, <1>12 DEF SopsInv

LEMMA InitSops == Init => SopsInv
<1> SUFFICES ASSUME Init PROVE SopsInv
  OBVIOUS
<1>1. \A x \in RowIds : /\ db[x] = IF x \in DOMAIN InitialRows THEN InitialRows[x] ELSE None
                       /\ holder[x] = NoTx
  BY DEF Init
<1>2. /\ posted = 0 /\ done = {}
      /\ \A h \in Handlers : desk[h].pc = "idle"
  BY DEF Init, OpsInit, AtDesk
<1>3. 1 \in Versions /\ 0 # None /\ posted \in 0..MaxRequests
  BY <1>2, RequestsAreBounded, NoneIsNoValue DEF Versions
<1>4. ASSUME NEW s \in Sops
      PROVE  SopSound(s) /\ WritersDiffer(s)
  <2>1. CASE SopRow(s) \in DOMAIN InitialRows
    <3> DEFINE rec == InitialRows[SopRow(s)]
    <3>1. db[SopRow(s)] = rec /\ rec \in SopRecords /\ rec.current = 1 /\ rec.by = 0 /\ rec # None
      BY <1>1, <2>1, SopsAtStart, SopRowsAreRows, NoneIsNoValue
    <3>2. db[VersionRow(s, 1)] = 0 /\ \A v \in Versions \ {1} : db[VersionRow(s, v)] = None
      BY <1>1, <1>3, <2>1, SopsAtStart, SopRowsAreRows
    <3>3. \A v \in Versions : db[VersionRow(s, v)] # None <=> v <= 1
      BY <1>3, <3>2 DEF Versions
    <3>4. SopSound(s)
      BY <3>1, <3>2, <3>3 DEF SopSound
    <3>5. WritersDiffer(s)
      BY <1>2, <1>3, <3>2 DEF WritersDiffer
    <3>6. QED
      BY <3>4, <3>5
  <2>2. CASE SopRow(s) \notin DOMAIN InitialRows
    <3>1. db[SopRow(s)] = None /\ \A v \in Versions : db[VersionRow(s, v)] = None
      BY <1>1, <2>2, SopsAtStart, SopRowsAreRows
    <3>2. QED
      BY <3>1 DEF SopSound, WritersDiffer
  <2>3. QED
    BY <2>1, <2>2
<1>5. ASSUME NEW h \in Handlers
      PROVE  ActiveDiffer(h) /\ Owns(h) /\ HandlerSound(h)
  <2>1. h # NoTx
    BY TxsAre, NoTxIsNoTx
  <2>2. Owns(h)
    BY <1>1, <2>1, SopRowsAreRows DEF Owns
  <2>3. QED
    BY <1>2, <2>2 DEF ActiveDiffer, Active, HandlerSound, Serves, Edited
<1>6. QED
  BY <1>2, <1>3, <1>4, <1>5 DEF SopsInv

LEMMA StepSops == Base /\ SopsInv /\ [Next]_vars => SopsInv'
<1> SUFFICES ASSUME Base, SopsInv, [Next]_vars PROVE SopsInv'
  OBVIOUS
<1>1. ASSUME NEW h \in Handlers, NEW q \in deployed.requests, Post(h, q)
      PROVE  SopsInv'
  BY <1>1, ReceiveSops DEF Post
<1>2. ASSUME NEW h \in Handlers, Handle(h)
      PROVE  SopsInv'
  <2>1. CASE Statement(h)
    <3>1. UNCHANGED <<posted, done, deployed>>
      BY <1>2, <2>1 DEF Handle, Statement
    <3>2. QED
      BY <2>1, <3>1, RefuseSops, CreateSops, ReadSops, InsertSops, UpdateSops,
         OtherStatementsSops
  <2>2. CASE Commit(h)
    BY <1>2, <2>2, CommitOtherSops, CommitEditSops DEF Handle
  <2>3. CASE Die(h)
    BY <1>2, <2>3, RefuseSops DEF Handle, Die
  <2>4. QED
    BY <1>2, <2>1, <2>2, <2>3 DEF Handle
<1>3. CASE Others
  BY <1>3, OthersAreQuiet, SameSops
<1>4. CASE UNCHANGED vars
  BY <1>4, SameRowsKeep, SameSops DEF vars, opsVars, dbVars, Base
<1>5. QED
  BY <1>1, <1>2, <1>3, <1>4 DEF Next, Others

-----------------------------------------------------------------------------
(* Runs: a version that is there stays, and a run is inserted with one     *)
(* that is there.                                                          *)
RunKept(x) ==
  /\ db'[x] \in {db[x], new[x]}
  /\ new'[x] \in {db[x], new[x]} \/ RunSound(new'[x])

RunsKept == \A x \in RowIds : x[1] = "run" => RunKept(x)

VersionsStay ==
  \A s \in Sops, v \in Versions : db[VersionRow(s, v)] # None => db'[VersionRow(s, v)] # None

LEMMA KeepRuns ==
  ASSUME RunsInv, RunsKept, VersionsStay
  PROVE  RunsInv'
<1>1. ASSUME NEW r, RunSound(r)
      PROVE  RunSound(r)'
  BY <1>1 DEF RunSound, VersionsStay
<1>2. ASSUME NEW x \in RowIds, x[1] = "run"
      PROVE  (RunSound(db[x]) /\ RunSound(new[x]))'
  <2>1. RunSound(db[x]) /\ RunSound(new[x]) /\ RunKept(x)
    BY <1>2 DEF RunsInv, RunsKept
  <2> DEFINE d == db'[x]
             m == new'[x]
  <2>2. RunSound(d) /\ RunSound(m)
    BY <2>1 DEF RunKept
  <2> HIDE DEF d, m
  <2>3. /\ d # None => d.sop \in Sops /\ d.version \in Versions
                        /\ db'[VersionRow(d.sop, d.version)] # None
        /\ m # None => m.sop \in Sops /\ m.version \in Versions
                        /\ db'[VersionRow(m.sop, m.version)] # None
    BY <2>2 DEF RunSound, VersionsStay
  <2>4. QED
    BY <2>3 DEF RunSound, d, m
<1>3. QED
  BY <1>2 DEF RunsInv

LEMMA WriteKeepsRuns ==
  ASSUME NEW t, NEW ws, Write(t, ws),
         \A x \in DOMAIN ws : x[1] = "run" => RunSound(ws[x])
  PROVE  RunsKept
<1> SUFFICES ASSUME NEW x \in RowIds, x[1] = "run" PROVE RunKept(x)
  BY DEF RunsKept
<1>1. CASE x \in DOMAIN ws
  BY <1>1 DEF Write, RunKept
<1>2. CASE x \notin DOMAIN ws
  BY <1>2 DEF Write, RunKept
<1>3. QED
  BY <1>1, <1>2

LEMMA EndKeepsRuns ==
  ASSUME NEW t, Publish(t) \/ Rollback(t) \/ UNCHANGED dbVars
  PROVE  RunsKept
BY DEF Publish, Rollback, dbVars, RunsKept, RunKept

LEMMA CurrentVersionIsThere ==
  ASSUME SopsInv, NEW s \in Sops, db[SopRow(s)] # None, NEW v \in Versions,
         v <= db[SopRow(s)].current
  PROVE  db[VersionRow(s, v)] # None
BY DEF SopsInv, SopSound

LEMMA EvaluatorsKeepRuns ==
  ASSUME Base, SopsInv, NEW e \in Evaluators, Tick(e)
  PROVE  RunsKept
<1>1. CASE UNCHANGED dbVars \/ Publish(e) \/ Rollback(e)
  BY <1>1, EndKeepsRuns
<1>2. ASSUME NEW type \in Types, Record(e, type), ~UNCHANGED dbVars
      PROVE  RunsKept
  <2> DEFINE a == AlertOf(e, type)
             s == SopFor[a[1]]
             auto == AutoRun(e, a)
             ws == Both(Row(AlertRow(a), "recorded"), auto)
  <2>1. Write(e, ws)
    BY <1>2 DEF Record
  <2>2. a[1] = type /\ s \in Sops
    BY AlertsNameSops DEF AlertOf
  <2>3. Sees(e, SopRow(s)) = db[SopRow(s)]
    BY <2>2, ProcessesDiffer, TxsAre, NoTxIsNoTx, SopRowsAreRows DEF Sees, Base, RowsOK
  <2>4. ASSUME NEW x \in DOMAIN auto
        PROVE  RunSound(auto[x])
    <3> DEFINE run == [sop |-> s, version |-> Sees(e, SopRow(s)).current]
    <3>1. Mapped(e, a[1]) /\ auto = Row(AutoRow(a), run)
      BY <2>4 DEF AutoRun, NoRow
    <3>2. auto[x] = run
      BY <2>4, <3>1 DEF Row
    <3>3. db[SopRow(s)] # None
      BY <2>3, <3>1 DEF Mapped
    <3>4. db[SopRow(s)].current \in Versions /\ db[SopRow(s)].current <= db[SopRow(s)].current
      BY <2>2, <3>3 DEF SopsInv, SopSound, SopRecords, Versions
    <3>5. db[VersionRow(s, db[SopRow(s)].current)] # None
      BY <2>2, <3>3, <3>4, CurrentVersionIsThere
    <3>6. QED
      BY <2>2, <2>3, <3>2, <3>4, <3>5 DEF RunSound
  <2>5. ASSUME NEW x \in DOMAIN ws, x[1] = "run"
        PROVE  RunSound(ws[x])
    <3>1. x \notin DOMAIN Row(AlertRow(a), "recorded")
      BY <2>5 DEF Row, AlertRow
    <3>2. x \in DOMAIN auto /\ ws[x] = auto[x]
      BY <2>5, <3>1 DEF Both
    <3>3. QED
      BY <2>4, <3>2
  <2> HIDE DEF ws
  <2>6. QED
    BY <2>1, <2>5, WriteKeepsRuns
<1>3. QED
  BY <1>1, <1>2 DEF Tick, StartTick, Evaluate, EndTick, LoseEvaluation, NoSpike,
                    StatementFails

LEMMA BroadcastersKeepRuns ==
  ASSUME NEW w \in Broadcasters, Broadcast(w) \/ BroadcastDies(w)
  PROVE  RunsKept
<1>1. CASE UNCHANGED dbVars \/ Publish(w) \/ Rollback(w)
  BY <1>1, EndKeepsRuns
<1>2. ASSUME NEW ws, Write(w, ws),
             \A x \in DOMAIN ws : x[1] \in {"campaign", "target", "outbox"}
      PROVE  RunsKept
  BY <1>2, WriteKeepsRuns
<1>3. ASSUME Pick(w), ~UNCHANGED dbVars
      PROVE  RunsKept
  <2>1. PICK c : Write(w, Row(CampaignRow(c), "running"))
    BY <1>3 DEF Pick
  <2>2. QED
    BY <1>2, <2>1 DEF Row, CampaignRow
<1>4. ASSUME SelectTargets(w)
      PROVE  RunsKept
  <2> DEFINE ws(S) == [x \in {TargetRow(send[w].campaign, ch) : ch \in S} |-> new[x]]
  <2>1. PICK S : Write(w, ws(S))
    BY <1>4 DEF SelectTargets
  <2>2. \A x \in DOMAIN ws(S) : x[1] = "target"
    BY DEF TargetRow
  <2> HIDE DEF ws
  <2>3. QED
    BY <1>2, <2>1, <2>2
<1>5. ASSUME NEW status, Settle(w, status)
      PROVE  RunsKept
  BY <1>2, <1>5 DEF Settle, Row, TargetRow
<1>6. ASSUME Enqueue(w)
      PROVE  RunsKept
  <2> DEFINE c == send[w].campaign
             ws == Both(Row(QueuedRow(c, Target(w)), "PENDING"),
                        Row(TargetRow(c, Target(w)), "enqueued"))
  <2>1. Write(w, ws)
    BY <1>6 DEF Enqueue
  <2>2. \A x \in DOMAIN ws : x[1] \in {"outbox", "target"}
    BY DEF Both, Row, QueuedRow, TargetRow
  <2> HIDE DEF ws
  <2>3. QED
    BY <1>2, <2>1, <2>2
<1>7. ASSUME MaybeFinish(w)
      PROVE  RunsKept
  BY <1>2, <1>7 DEF MaybeFinish, Row, NoRow, CampaignRow
<1>8. QED
  BY <1>1, <1>3, <1>4, <1>5, <1>6, <1>7
  DEF Broadcast, BroadcastDies, BroadcastStep, LoseBroadcast, StartBroadcast, CheckPlan,
      CheckConsent, CommitBroadcast, Pick

LEMMA OwnersKeepRuns ==
  ASSUME Base, OwnerActs
  PROVE  RunsKept
<1>1. ASSUME NEW c \in Campaigns, CreateCampaign(c)
      PROVE  RunsKept
  <2> DEFINE ws == Both(Row(CampaignRow(c), "queued"),
                        [x \in {TargetRow(c, ch) : ch \in Audience[c]} |-> "pending"])
  <2>1. \A x \in DOMAIN ws : x[1] # "run"
    BY DEF Both, Row, CampaignRow, TargetRow
  <2>2. /\ db' = [x \in RowIds |-> IF x \in DOMAIN ws THEN ws[x] ELSE db[x]]
        /\ new' = [x \in RowIds |-> IF x \in DOMAIN ws THEN ws[x] ELSE new[x]]
    BY <1>1 DEF CreateCampaign
  <2> HIDE DEF ws
  <2>3. QED
    BY <2>1, <2>2 DEF RunsKept, RunKept
<1>2. ASSUME NEW y, y[1] # "run", NEW v, WriteNow(y, v)
      PROVE  RunsKept
  <2>1. \A x \in RowIds : x[1] = "run" => db'[x] = db[x] /\ new'[x] = new[x]
    BY <1>2 DEF WriteNow, Base, RowsOK
  <2>2. QED
    BY <2>1 DEF RunsKept, RunKept
<1>3. QED
  BY <1>1, <1>2 DEF OwnerActs, PutOptIn, ChangePlan, OptInRow, PlanRow

LEMMA StatementsKeepRuns ==
  ASSUME Base, SopsInv, NEW h \in Handlers, Statement(h)
  PROVE  RunsKept /\ VersionsStay
<1> DEFINE on == desk[h].req.on
<1>1. CASE Refuse(h) \/ UNCHANGED dbVars
  BY <1>1, EndKeepsRuns DEF Refuse, Rollback, dbVars, VersionsStay
<1>2. ASSUME NEW ws, Write(h, ws), \A x \in DOMAIN ws : x[1] = "run" => RunSound(ws[x])
      PROVE  RunsKept /\ VersionsStay
  BY <1>2, WriteKeepsRuns DEF Write, VersionsStay
<1>3. ASSUME NEW x, x[1] # "run", NEW r, Write(h, Row(x, r))
      PROVE  RunsKept /\ VersionsStay
  BY <1>2, <1>3 DEF Row
<1>4. CASE CreateSop(h) /\ ~Refuse(h)
  <2> DEFINE ws == Both(Row(SopRow(on), [current |-> 1, status |-> desk[h].req.to,
                                         by |-> desk[h].n]),
                        Row(VersionRow(on, 1), desk[h].n))
  <2>1. Write(h, ws)
    BY <1>4 DEF CreateSop
  <2>2. \A x \in DOMAIN ws : x[1] # "run"
    BY SopRowsDiffer DEF Both, Row
  <2> HIDE DEF ws
  <2>3. QED
    BY <1>2, <2>1, <2>2
<1>5. CASE (InsertVersion(h) \/ UpdateSop(h)) /\ ~Refuse(h)
  BY <1>3, <1>5, SopRowsDiffer DEF InsertVersion, UpdateSop
<1>6. CASE InsertRun(h)
  <2> DEFINE run == [sop |-> on, version |-> desk[h].seen]
  <2>1. Write(h, Row(RunRow(desk[h].n), run))
    BY <1>6 DEF InsertRun
  <2>2. /\ on \in Sops /\ db[SopRow(on)] # None /\ desk[h].seen \in Versions
        /\ desk[h].seen <= db[SopRow(on)].current
    BY <1>6, EditsName DEF InsertRun, SopsInv, HandlerSound, Serves
  <2>3. RunSound(run)
    BY <2>2, CurrentVersionIsThere DEF RunSound
  <2> HIDE DEF run
  <2>4. QED
    BY <1>2, <2>1, <2>3 DEF Row
<1>7. CASE SelectConfig(h)
  <2> DEFINE ws == [y \in ConfigLocks(h, ConfigRow(on)) |-> new[y]]
  <2>1. Write(h, ws)
    BY <1>7 DEF SelectConfig
  <2>2. \A y \in DOMAIN ws : y[1] = "config"
    BY DEF ConfigLocks, ConfigRow
  <2> HIDE DEF ws
  <2>3. QED
    BY <1>2, <2>1, <2>2
<1>8. CASE WriteConfig(h) /\ ~Refuse(h)
  BY <1>3, <1>8 DEF WriteConfig, ConfigRow
<1>9. CASE (RegisterRelease(h) \/ Promote(h)) /\ ~Refuse(h)
  BY <1>1, <1>3, <1>9 DEF RegisterRelease, Promote, ReleaseRow
<1>10. CASE Demote(h)
  <2>1. PICK b : Write(h, IF new[ReleaseRow(b)] = "current"
                            THEN Row(ReleaseRow(b), "rolled_back") ELSE NoRow)
    BY <1>10 DEF Demote
  <2>2. CASE new[ReleaseRow(b)] = "current"
    BY <1>3, <2>1, <2>2 DEF ReleaseRow
  <2>3. CASE new[ReleaseRow(b)] # "current"
    BY <1>2, <2>1, <2>3 DEF NoRow
  <2>4. QED
    BY <2>2, <2>3
<1>11. QED
  BY <1>1, <1>4, <1>5, <1>6, <1>7, <1>8, <1>9, <1>10
  DEF Statement, ReadVersion, ReadForRun, FindCurrent

LEMMA CommitsKeepRuns ==
  ASSUME Base, SopsInv, NEW h \in Handlers, Commit(h)
  PROVE  RunsKept /\ VersionsStay
<1>1. RunsKept
  BY EndKeepsRuns DEF Commit
<1>2. ASSUME NEW s \in Sops, NEW v \in Versions, db[VersionRow(s, v)] # None
      PROVE  db'[VersionRow(s, v)] # None
  <2> DEFINE x == VersionRow(s, v)
  <2>1. x \in RowIds
    BY SopRowsAreRows
  <2>2. CASE holder[x] # h
    BY <1>2, <2>1, <2>2 DEF Commit, Publish
  <2>3. CASE holder[x] = h
    <3>1. Inserted(h) /\ desk[h].req.on = s /\ desk[h].seen = v /\ HandlerSound(h)
          /\ ActiveDiffer(h)
      BY <2>3 DEF SopsInv, Owns
    <3>2. HasVersion(h) /\ Active(h)
      BY <3>1 DEF Inserted, HandlerSound, Active, Edited, Serves
    <3>3. new[x] = desk[h].n /\ desk[h].n \in 1..posted /\ posted \in 0..MaxRequests
      BY <3>1, <3>2 DEF HasVersion, ActiveDiffer, SopsInv
    <3>4. new[x] # None
      BY <3>3, RequestsAreBounded, NoneIsNoValue
    <3>5. QED
      BY <2>1, <2>3, <3>4 DEF Commit, Publish
  <2>4. QED
    BY <2>2, <2>3
<1>3. QED
  BY <1>1, <1>2 DEF VersionsStay

LEMMA StepRuns == Base /\ SopsInv /\ RunsInv /\ [Next]_vars => RunsInv'
<1> SUFFICES ASSUME Base, SopsInv, RunsInv, [Next]_vars PROVE RunsKept /\ VersionsStay
  BY KeepRuns
<1>1. CASE UNCHANGED dbVars
  BY <1>1, EndKeepsRuns DEF dbVars, VersionsStay
<1>2. ASSUME NEW h \in Handlers, Handle(h)
      PROVE  RunsKept /\ VersionsStay
  <2>1. CASE Die(h)
    BY <2>1, EndKeepsRuns DEF Die, Refuse, Rollback, VersionsStay
  <2>2. QED
    BY <1>2, <2>1, StatementsKeepRuns, CommitsKeepRuns DEF Handle
<1>3. CASE Others
  <2>1. VersionsStay
    BY <1>3, OthersAreQuiet, SopRowsAreRows DEF Quiet, VersionsStay
  <2>2. RunsKept
    BY <1>1, <1>3, EvaluatorsKeepRuns, BroadcastersKeepRuns, OwnersKeepRuns DEF Others, Wait
  <2>3. QED
    BY <2>1, <2>2
<1>4. QED
  BY <1>1, <1>2, <1>3 DEF Next, Others, Post, Receive, vars

LEMMA InitRuns == Init => RunsInv
<1> SUFFICES ASSUME Init, NEW x \in RowIds, x[1] = "run"
             PROVE  RunSound(db[x]) /\ RunSound(new[x])
  BY DEF RunsInv
<1>1. db[x] = None /\ new[x] = None
  BY NoRunsAtStart DEF Init
<1>2. QED
  BY <1>1 DEF RunSound

(* The history of every SOP has no gaps and ends with its current version, *)
(* no edit that was answered with success is lost, and every run names a   *)
(* version that is there, for any number of handlers, requests and SOPs.   *)
THEOREM VersionsAreSound == Spec => []VersionsSound
<1>1. Spec => [](SopsInv /\ RunsInv)
  BY InitBase, InitSops, InitRuns, StepBase, StepSops, StepRuns, PTL DEF Spec
<1>2. SopsInv /\ RunsInv => VersionsSound
  <2> SUFFICES ASSUME SopsInv, RunsInv PROVE VersionsSound
    OBVIOUS
  <2>1. ASSUME NEW s \in Sops
        PROVE  LET sop == db[SopRow(s)]
                   stored == {v \in Versions : db[VersionRow(s, v)] # None}
               IN IF sop = None THEN stored = {}
                  ELSE stored = 1..sop.current /\ db[VersionRow(s, sop.current)] = sop.by
    <3>1. SopSound(s)
      BY DEF SopsInv
    <3>2. CASE db[SopRow(s)] = None
      BY <3>1, <3>2 DEF SopSound
    <3>3. CASE db[SopRow(s)] # None
      <4>1. /\ db[SopRow(s)].current \in Versions
            /\ \A v \in Versions : db[VersionRow(s, v)] # None <=> v <= db[SopRow(s)].current
            /\ db[VersionRow(s, db[SopRow(s)].current)] = db[SopRow(s)].by
        BY <3>1, <3>3 DEF SopSound, SopRecords
      <4>2. {v \in Versions : v <= db[SopRow(s)].current} = 1..db[SopRow(s)].current
        BY <4>1, RequestsAreBounded DEF Versions
      <4>3. QED
        BY <3>3, <4>1, <4>2
    <3>4. QED
      BY <3>2, <3>3
  <2>2. \A e \in done : db[VersionRow(e.sop, e.version)] = e.by
    BY DEF SopsInv, DoneSound
  <2>3. \A x \in RunsOf : db[VersionRow(db[x].sop, db[x].version)] # None
    BY DEF RunsInv, RunSound, RunsOf
  <2>4. QED
    BY <2>1, <2>2, <2>3 DEF VersionsSound
<1>3. QED
  BY <1>1, <1>2, PTL
=============================================================================
