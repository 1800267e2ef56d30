--------------------------- MODULE ReadCommitted ---------------------------
(***************************************************************************)
(* The database as the services see it: PostgreSQL at the READ COMMITTED   *)
(* level that backend/shared/db.py leaves in force, with row locks.  It is *)
(* outside the repository and modelled from how the code relies on it:     *)
(*                                                                         *)
(*  - a plain SELECT sees what was committed when the statement began and  *)
(*    what its own transaction wrote, and never waits;                     *)
(*  - UPDATE, SELECT ... FOR UPDATE and INSERT ... ON CONFLICT wait while  *)
(*    another transaction holds the row (or the unique key), then work on  *)
(*    its newest version, and hold it until their transaction ends;        *)
(*  - COMMIT publishes every row the transaction holds, ROLLBACK restores  *)
(*    them; transactions that wait for each other in a circle are aborted. *)
(*                                                                         *)
(* A row that does not exist yet is a row with a value that says so; the   *)
(* uniqueness of a key is then the lock on its row.                        *)
(***************************************************************************)
EXTENDS TLC

CONSTANTS
  RowIds,           \* primary and unique keys, over all tables
  Txs,              \* processes that open transactions, one at a time each
  NoTx              \* holder of a row nobody has locked

ASSUME NoTxIsNoTx == NoTx \notin Txs

VARIABLES
  db,               \* the committed version of every row
  new,              \* the newest version, committed or not
  holder            \* the transaction that holds the row's lock

dbVars == <<db, new, holder>>

Sees(t, x) == IF holder[x] = t THEN new[x] ELSE db[x]

CanLock(t, x) == holder[x] \in {NoTx, t}

(* What a statement writes: one row, the rows of two writes, or nothing.   *)
Row(x, v) == [y \in {x} |-> v]
Both(f, g) ==
  [x \in DOMAIN f \cup DOMAIN g |-> IF x \in DOMAIN f THEN f[x] ELSE g[x]]
NoRow == [x \in {} |-> NoTx]

(* Write the rows in the domain of ws; the caller checks CanLock.          *)
Write(t, ws) ==
  /\ new' = [x \in RowIds |-> IF x \in DOMAIN ws THEN ws[x] ELSE new[x]]
  /\ holder' = [x \in RowIds |-> IF x \in DOMAIN ws THEN t ELSE holder[x]]
  /\ UNCHANGED db

Release(t) == [x \in RowIds |-> IF holder[x] = t THEN NoTx ELSE holder[x]]

Publish(t) ==
  /\ db' = [x \in RowIds |-> IF holder[x] = t THEN new[x] ELSE db[x]]
  /\ holder' = Release(t)
  /\ UNCHANGED new

Rollback(t) ==
  /\ new' = [x \in RowIds |-> IF holder[x] = t THEN db[x] ELSE new[x]]
  /\ holder' = Release(t)
  /\ UNCHANGED db

(* A transaction of its own that only writes x.                            *)
WriteNow(x, v) ==
  /\ holder[x] = NoTx
  /\ db' = [db EXCEPT ![x] = v]
  /\ new' = [new EXCEPT ![x] = v]
  /\ UNCHANGED holder

(* Wants(t) is the set of rows t's next statement has to lock.             *)
Deadlocked(t, Wants(_)) ==
  \E T \in SUBSET Txs :
    /\ t \in T
    /\ \A u \in T : \E x \in Wants(u) : holder[x] \in T \ {u}

(* An unlocked row has one version.                                        *)
UnlockedIsCommitted == \A x \in RowIds : holder[x] = NoTx => new[x] = db[x]
=============================================================================
