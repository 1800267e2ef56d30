------------------------------- MODULE OpsDesk -------------------------------
(***************************************************************************)
(* The operations of backend/apps/ops_api that write: SOPs and their       *)
(* versions, manual runs, the runtime configuration with its audit, and    *)
(* releases.  A handler runs in a thread and does all it does in one       *)
(* transaction; whatever it raises rolls the transaction back, except the  *)
(* 404 of promote_release, which comes after the COMMIT.                   *)
(*                                                                         *)
(* A SOP is named by its slug, which is unique; its title, category and    *)
(* body are whatever the request brought, so a row only says which request *)
(* wrote it.  A release is named by its build id, which is unique too.     *)
(***************************************************************************)
EXTENDS ReadCommitted, Naturals, Sequences

CONSTANTS
  Handlers,         \* threads that serve requests
  None,             \* the value of a row that is not there
  Sops, Keys, Builds,
  MaxRequests       \* bound: requests in one behaviour

SopRow(s) == <<"sop", s>>                \* [current, status, by]
VersionRow(s, v) == <<"version", s, v>>  \* who wrote it
RunRow(n) == <<"run", n>>                \* [sop, version]; n: who asked for it
ConfigRow(k) == <<"config", k>>          \* [value, trail]: with its audit rows
ReleaseRow(b) == <<"release", b>>        \* its status

(* The first version of the SOPs that are there at the start is by 0.      *)
Versions == 1..(MaxRequests + 1)
Posts == 1..MaxRequests

OpsRows ==
  {SopRow(s) : s \in Sops} \cup {VersionRow(s, v) : s \in Sops, v \in Versions}
    \cup {RunRow(n) : n \in Posts} \cup {ConfigRow(k) : k \in Keys}
    \cup {ReleaseRow(b) : b \in Builds}

(* ops_sops: by is the request whose title and body the row has.           *)
SopRecords == [current : Versions, status : STRING, by : 0..MaxRequests]

ASSUME RequestsAreBounded == MaxRequests \in Nat
ASSUME NoneIsNoValue == None \notin 0..MaxRequests /\ None \notin SopRecords

VARIABLES
  desk,             \* the local state of every handler
  posted,           \* requests so far
  done              \* SOP edits answered with success: [by, sop, version]

opsVars == <<desk, posted, done>>

NoRequest == [op |-> "none"]
AtDesk == [pc |-> "idle", req |-> NoRequest, n |-> 0, seen |-> None, todo |-> {},
           found |-> {}]

OpsInit == desk = [h \in Handlers |-> AtDesk] /\ posted = 0 /\ done = {}

Serves(h, op, l) == desk[h].pc = l /\ desk[h].req.op = op
Goto(h, l) == desk' = [desk EXCEPT ![h].pc = l]

Current == {b \in Builds : db[ReleaseRow(b)] = "current"}

(* found: the releases that are current when the request comes in.         *)
Receive(h, q) ==
  /\ desk[h].pc = "idle" /\ posted < MaxRequests
  /\ posted' = posted + 1
  /\ desk' = [desk EXCEPT ![h] =
                [AtDesk EXCEPT !.pc = "first", !.req = q, !.n = posted', !.found = Current]]
  /\ UNCHANGED <<dbVars, done>>

(* An HTTP error, a crash: nothing of the transaction is left.             *)
Refuse(h) ==
  /\ Rollback(h)
  /\ desk' = [desk EXCEPT ![h] = AtDesk]

-----------------------------------------------------------------------------
(* create_sop: the insert waits for one of the same slug.                  *)
CreateSop(h) ==
  LET s == desk[h].req.on
      n == desk[h].n
  IN /\ Serves(h, "create_sop", "first") /\ CanLock(h, SopRow(s))
     /\ IF new[SopRow(s)] # None
          THEN Refuse(h)
          ELSE /\ Write(h, Both(Row(SopRow(s), [current |-> 1, status |-> desk[h].req.to, by |-> n]),
                              Row(VersionRow(s, 1), n)))
               /\ desk' = [desk EXCEPT ![h].pc = "commit", ![h].seen = 1]

(* update_sop: the version number is read without a lock ...               *)
ReadVersion(h) ==
  LET sop == Sees(h, SopRow(desk[h].req.on))
  IN /\ Serves(h, "update_sop", "first")
     /\ IF sop = None
          THEN Refuse(h)
          ELSE /\ desk' = [desk EXCEPT ![h].pc = "insert", ![h].seen = sop.current + 1]
               /\ UNCHANGED dbVars

(* ... and UNIQUE (sop_id, version_num) tells who was first.               *)
TakenNever(x) == FALSE
Taken(x) == new[x] # None

InsertVersion(h) ==
  LET x == VersionRow(desk[h].req.on, desk[h].seen)
  IN /\ Serves(h, "update_sop", "insert") /\ CanLock(h, x)
     /\ IF Taken(x)
          THEN Refuse(h)
          ELSE Write(h, Row(x, desk[h].n)) /\ Goto(h, "update")

UpdateSop(h) ==
  LET x == SopRow(desk[h].req.on)
  IN /\ Serves(h, "update_sop", "update") /\ CanLock(h, x)
     /\ Write(h, Row(x, [current |-> desk[h].seen, status |-> desk[h].req.to,
                         by |-> desk[h].n]))
     /\ Goto(h, "commit")

(* start_run: reads the version, then inserts the run.                     *)
ReadForRun(h) ==
  LET sop == Sees(h, SopRow(desk[h].req.on))
  IN /\ Serves(h, "start_run", "first")
     /\ IF sop = None
          THEN Refuse(h)
          ELSE /\ desk' = [desk EXCEPT ![h].pc = "insert", ![h].seen = sop.current]
               /\ UNCHANGED dbVars

InsertRun(h) ==
  /\ Serves(h, "start_run", "insert")
  /\ Write(h, Row(RunRow(desk[h].n), [sop |-> desk[h].req.on, version |-> desk[h].seen]))
  /\ Goto(h, "commit")

-----------------------------------------------------------------------------
(* put_runtime_config: SELECT ... FOR UPDATE finds nothing to lock when    *)
(* the key is not there.                                                   *)
ConfigLocksNothing(h, x) == {}
ConfigLocks(h, x) == IF Sees(h, x) = None THEN {} ELSE {x}

SelectConfig(h) ==
  LET x == ConfigRow(desk[h].req.on)
      locks == ConfigLocks(h, x)
  IN /\ Serves(h, "put_config", "first")
     /\ \A y \in locks : CanLock(h, y)
     /\ Write(h, [y \in locks |-> new[y]])
     /\ desk' = [desk EXCEPT ![h].pc = "write",
                             ![h].seen = IF x \in locks THEN new[x] ELSE Sees(h, x)]

(* A key that was there is audited and updated; one that was not is        *)
(* inserted, which fails when somebody else was faster.                    *)
WriteConfig(h) ==
  LET x == ConfigRow(desk[h].req.on)
      old == desk[h].seen
      value == desk[h].req.to
  IN /\ Serves(h, "put_config", "write") /\ CanLock(h, x)
     /\ IF old = None /\ new[x] # None
          THEN Refuse(h)
          ELSE /\ Write(h, Row(x, [value |-> value,
                                   trail |-> IF old = None THEN <<>>
                                             ELSE Append(new[x].trail,
                                                    [old |-> old.value, new |-> value])]))
               /\ Goto(h, "commit")

-----------------------------------------------------------------------------
RegisterRelease(h) ==
  LET x == ReleaseRow(desk[h].req.on)
  IN /\ Serves(h, "register", "first") /\ CanLock(h, x)
     /\ IF new[x] # None
          THEN Refuse(h)
          ELSE Write(h, Row(x, "candidate")) /\ Goto(h, "commit")

(* promote_release: UPDATE ... WHERE status = 'current' finds its rows in  *)
(* the snapshot of the statement, waits for each, and looks again.         *)
DemoteTargetOnly(h) == {b \in {desk[h].req.on} : Sees(h, ReleaseRow(b)) = "current"}
Demoted(h) == {b \in Builds : Sees(h, ReleaseRow(b)) = "current"}

FindCurrent(h) ==
  /\ Serves(h, "promote", "first")
  /\ desk' = [desk EXCEPT ![h].pc = "demote", ![h].todo = Demoted(h)]
  /\ UNCHANGED dbVars

Demote(h) ==
  /\ Serves(h, "promote", "demote")
  /\ \E b \in desk[h].todo :
       /\ CanLock(h, ReleaseRow(b))
       /\ Write(h, IF new[ReleaseRow(b)] = "current"
                     THEN Row(ReleaseRow(b), "rolled_back") ELSE NoRow)
       /\ desk' = [desk EXCEPT ![h].todo = @ \ {b}]

(* A release that is not there: the demotion is committed, and then comes  *)
(* the 404.                                                                *)
Promote(h) ==
  LET x == ReleaseRow(desk[h].req.on)
  IN /\ Serves(h, "promote", "demote") /\ desk[h].todo = {}
     /\ IF Sees(h, x) = None
          THEN UNCHANGED dbVars
          ELSE CanLock(h, x) /\ Write(h, Row(x, "current"))
     /\ Goto(h, "commit")

-----------------------------------------------------------------------------
Edits == {"create_sop", "update_sop"}

Commit(h) ==
  LET me == desk[h]
  IN /\ me.pc = "commit"
     /\ Publish(h)
     /\ done' = IF me.req.op \in Edits
                  THEN done \cup {[by |-> me.n, sop |-> me.req.on, version |-> me.seen]}
                  ELSE done
     /\ desk' = [g \in Handlers |->
                   IF g = h THEN AtDesk
                   ELSE IF me.req.op = "promote"
                          THEN [desk[g] EXCEPT !.found = @ \ {me.req.on}]
                          ELSE desk[g]]
     /\ UNCHANGED posted

Statement(h) ==
  /\ \/ CreateSop(h)
     \/ ReadVersion(h) \/ InsertVersion(h) \/ UpdateSop(h)
     \/ ReadForRun(h) \/ InsertRun(h)
     \/ SelectConfig(h) \/ WriteConfig(h)
     \/ RegisterRelease(h) \/ FindCurrent(h) \/ Demote(h) \/ Promote(h)
  /\ UNCHANGED <<posted, done>>

Die(h) == desk[h].pc # "idle" /\ Refuse(h) /\ UNCHANGED <<posted, done>>

-----------------------------------------------------------------------------
(* The history of a SOP has no gaps and ends with the current version, and *)
(* title and body are those of one edit; every edit that was answered with *)
(* success is still there, also when several compute the same number; a    *)
(* run names a version that exists.                                        *)
RunsOf == {x \in RowIds : x[1] = "run" /\ db[x] # None}

VersionsSound ==
  /\ \A s \in Sops :
       LET sop == db[SopRow(s)]
           stored == {v \in Versions : db[VersionRow(s, v)] # None}
       IN IF sop = None THEN stored = {}
          ELSE stored = 1..sop.current /\ db[VersionRow(s, sop.current)] = sop.by
  /\ \A e \in done : db[VersionRow(e.sop, e.version)] = e.by
  /\ \A x \in RunsOf : db[VersionRow(db[x].sop, db[x].version)] # None

(* The audit of a key explains its value: each entry starts from the value *)
(* the one before it ended with, and the last one ends with what is there. *)
AuditChains ==
  \A k \in Keys :
    LET c == db[ConfigRow(k)]
        n == Len(c.trail)
    IN c # None =>
         /\ \A i \in 1..(n - 1) : c.trail[i].new = c.trail[i + 1].old
         /\ n > 0 => c.trail[n].new = c.value

(* A promotion demotes every release that was current when the request     *)
(* came in, unless it was promoted again in between.  (One that another    *)
(* promotion makes current meanwhile stays: there can be two.)             *)
DemotesWhatItFoundStep ==
  \A h \in Handlers :
    Commit(h) /\ desk[h].req.op = "promote" =>
      \A b \in desk[h].found \ {desk[h].req.on} : db'[ReleaseRow(b)] # "current"
=============================================================================
