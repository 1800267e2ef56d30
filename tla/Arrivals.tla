------------------------------ MODULE Arrivals ------------------------------
(***************************************************************************)
(* Rows of inbox_messages, wa_outbox or inbox_notifications as those who   *)
(* poll the tables meet them.  A row's timestamp is now() of the           *)
(* transaction that inserts it, that is the start of the transaction; the  *)
(* row becomes visible when the transaction commits.  Transactions that    *)
(* overlap may commit in another order than they started.                  *)
(*                                                                         *)
(* A row is a number, which stands for its id where ids break ties.        *)
(***************************************************************************)
EXTENDS Naturals, FiniteSets

CONSTANTS
  Rows,             \* the ids
  Groups            \* the transactions: the sets of rows they insert

ASSUME RowsAreIds == Rows \subseteq Nat \ {0} /\ IsFiniteSet(Rows)
ASSUME GroupsPartitionRows ==
  /\ UNION Groups = Rows
  /\ \A g, h \in Groups : g # h => g \cap h = {}

VARIABLES
  stamp,            \* the timestamp of every row; 0 until its transaction starts
  stored            \* the committed rows

arrivalVars == <<stamp, stored>>

(* The latest start of a transaction; only the order of starts matters.    *)
Latest == IF \A r \in Rows : stamp[r] = 0 THEN 0
          ELSE CHOOSE t \in {stamp[r] : r \in Rows} : \A r \in Rows : stamp[r] <= t

Begun == {r \in Rows : stamp[r] > 0}

ArrivalsInit == stamp = [r \in Rows |-> 0] /\ stored = {}

Begin(g) ==
  /\ g \cap Begun = {}
  /\ stamp' = [r \in Rows |-> IF r \in g THEN Latest + 1 ELSE stamp[r]]
  /\ UNCHANGED stored

(* COMMIT; a transaction that never comes here was rolled back.            *)
Store(g) ==
  /\ g \subseteq Begun \ stored
  /\ stored' = stored \cup g
  /\ UNCHANGED stamp

(* The n first rows of S, by timestamp and then by id.                     *)
Precedes(q, r) == stamp[q] < stamp[r] \/ (stamp[q] = stamp[r] /\ q < r)
FirstOf(n, S) == {r \in S : Cardinality({q \in S : Precedes(q, r)}) < n}
=============================================================================
