----------------------------- MODULE FeedsProofs -----------------------------
(***************************************************************************)
(* Feeds for any rows, transactions, processes and bounds: what the usage  *)
(* worker has counted, and what the event feed has told its sockets.       *)
(***************************************************************************)
EXTENDS Feeds, FiniteSetTheorems, WellFoundedInduction, TLAPS

-----------------------------------------------------------------------------
(* The invariant.                                                          *)

(* The rows of a transaction share a timestamp, and no others have it.     *)
ArrivalsSound ==
  /\ stamp \in [Rows -> Nat]
  /\ stored \subseteq Begun
  /\ \A g \in Groups : \A q, r \in g : stamp[q] = stamp[r]
  /\ \A q, r \in Begun : stamp[q] = stamp[r] => \E g \in Groups : q \in g /\ r \in g

(* What a counter that has come to c should have counted.                  *)
Counted(c) == {r \in Begun \ missed : ~Behind(r, c)}

Places == [at : Nat, id : Rows \cup {0}]

(* A place that the cursor is at, or was when a counter fetched it.  What  *)
(* should have been counted there is committed, so it cannot grow any      *)
(* more, and it has been counted.                                          *)
PlaceSound(c) ==
  /\ c \in Places
  /\ c.at <= Latest
  /\ Counted(c) \subseteq stored
  /\ \A b \in Buckets : CountIn(Counted(c), b) <= usage[b]

Alone == Cardinality(deployed \cap Counters) <= 1

Ticks == [pc : {"idle", "cursor", "select", "commit"}, config : Nat, from : Places,
          rows : SUBSET Rows, snapshot : SUBSET Rows, plan : [Payers -> Nat]]

(* A counter in the middle of its transaction: nobody but it moves the     *)
(* cursor if it is alone, and its rows are the first behind its place.     *)
TickFits(w, t) ==
  /\ t.rows \subseteq stored /\ Cardinality(t.rows) <= Batch
  /\ t.pc # "idle" => w \in deployed
  /\ t.pc \in {"select", "commit"} =>
       PlaceSound(t.from) /\ (Alone => t.from = cursor)
  /\ t.pc = "commit" =>
       /\ t.snapshot \subseteq stored
       /\ Counted(t.from) \subseteq t.snapshot
       /\ t.rows = FirstOf(Batch, {r \in t.snapshot : Behind(r, t.from)})
       /\ t.rows # {}

TickSound(w) == TickFits(w, tick[w])

UsageSound ==
  /\ usage \in [Buckets -> Nat]
  /\ tick \in [Counters -> Ticks]
  /\ missed \subseteq Begun
  /\ PlaceSound(cursor)
  /\ \A w \in Counters : TickSound(w)
  /\ Alone => /\ \A b \in Buckets : usage[b] = CountIn(Counted(cursor), b)
              /\ \A r \in missed : ~Behind(r, cursor)

(* The configuration and the plans a counter has read are not newer than   *)
(* those in force.                                                         *)
TermsSound ==
  /\ crossed \in [Days -> BOOLEAN]
  /\ config \in 1..Len(Limits)
  /\ plan \in [Payers -> Nat]
  /\ \A c \in Payers : plan[c] \in 1..Len(Entitled[c])
  /\ \A w \in Counters :
       /\ tick[w].pc # "idle" => tick[w].config \in 1..config
       /\ tick[w].pc = "commit" =>
            \A c \in Payers : tick[w].plan[c] \in 1..plan[c]
  /\ MarksFollowLimits

RollupSound ==
  /\ metrics \in [Buckets -> Nat]
  /\ \A b \in DOMAIN recount : recount[b] \in Nat

(* The poller's rows, oldest first: what it handed out is not newer than   *)
(* top, what it still holds is not older, and what its LIMIT cut off is    *)
(* not older than what it holds.                                           *)
PollSound ==
  /\ published \subseteq stored /\ snapshot \subseteq stored
  /\ fetched \subseteq snapshot /\ Cardinality(fetched) <= Limit
  /\ fetched = {} => top = watermark
  /\ \A r \in published : stamp[r] <= top
  /\ \A r \in fetched : top <= stamp[r]
  /\ \A r \in snapshot :
       watermark <= stamp[r] =>
         \/ r \in published \cup fetched
         \/ top <= stamp[r] /\ \A q \in fetched : stamp[q] <= stamp[r]
  /\ \A r \in Begun : anchor <= stamp[r] /\ stamp[r] < watermark =>
                        r \in published \cup late

InOrder(q) ==
  \A i, j \in 1..Len(q) : i < j => q[i] # q[j] /\ stamp[q[i]] <= stamp[q[j]]

(* The ring remembers at least the rows of the largest timestamp.          *)
RingSound ==
  /\ ring \in Seq(published) /\ Len(ring) <= RingSize /\ InOrder(ring)
  /\ \A r \in published : stamp[r] = top => InRing(r)

SocketsSound ==
  /\ heard \in [Sockets -> Seq(published)] /\ backlog \in [Sockets -> Nat]
  /\ \A s \in Sockets :
       backlog[s] <= QueueMax /\ backlog[s] <= Len(heard[s]) /\ InOrder(heard[s])

FeedSound ==
  /\ anchor \in Nat /\ watermark \in Nat /\ top \in Nat
  /\ anchor <= watermark /\ watermark <= top /\ top <= Latest + 1
  /\ PollSound /\ RingSound /\ SocketsSound

Inv == ArrivalsSound /\ UsageSound /\ TermsSound /\ RollupSound /\ FeedSound

-----------------------------------------------------------------------------
(* Finite sets.                                                            *)

(* A finite set with a strict order has a first element; below[x] are the  *)
(* elements before x.                                                      *)
LEMMA HasFirst ==
  ASSUME NEW T, IsFiniteSet(T), T # {}, NEW below \in [T -> SUBSET T],
         \A x \in T : x \notin below[x],
         \A x \in T : \A y \in below[x] : below[y] \subseteq below[x]
  PROVE  \E x \in T : below[x] = {}
<1> DEFINE All == {below[x] : x \in T}
<1>1. IsWellFoundedOn(StrictSubsetOrdering(T), FiniteSubsetsOf(T))
  BY FS_StrictSubsetOrderingWellFounded
<1>2. All \subseteq SUBSET T /\ All # {}
  OBVIOUS
<1>3. All \subseteq FiniteSubsetsOf(T)
  BY <1>2, FS_FiniteSubsetsOfFinite
<1> HIDE DEF All
<1>4. PICK m \in All : \A u \in All : ~(<<u, m>> \in StrictSubsetOrdering(T))
  BY <1>1, <1>2, <1>3, WFMin, Zenon
<1>5. PICK x \in T : m = below[x]
  BY <1>4 DEF All
<1>6. ASSUME NEW y \in below[x]
      PROVE  FALSE
  <2>1. below[y] \subseteq below[x] /\ below[y] # below[x]
    OBVIOUS
  <2>2. <<below[y], below[x]>> \in StrictSubsetOrdering(T)
    BY <2>1 DEF StrictSubsetOrdering
  <2>3. below[y] \in All
    BY DEF All
  <2>4. QED
    BY <2>2, <2>3, <1>4, <1>5
<1>7. QED
  BY <1>6

(* Counting the rows of a bucket.                                          *)
LEMMA CountIsNat ==
  ASSUME NEW S \in SUBSET Rows, NEW b
  PROVE  CountIn(S, b) \in Nat
<1>1. {r \in S : BucketOf[r] = b} \in SUBSET Rows
  OBVIOUS
<1>2. QED
  BY <1>1, RowsAreIds, FS_Subset, FS_CardinalityType DEF CountIn

LEMMA CountGrows ==
  ASSUME NEW S \in SUBSET Rows, NEW U \in SUBSET Rows, S \subseteq U, NEW b
  PROVE  CountIn(S, b) <= CountIn(U, b)
<1>1. {r \in U : BucketOf[r] = b} \in SUBSET Rows
  OBVIOUS
<1>2. {r \in S : BucketOf[r] = b} \in SUBSET {r \in U : BucketOf[r] = b}
  OBVIOUS
<1>3. QED
  BY <1>1, <1>2, RowsAreIds, FS_Subset DEF CountIn

LEMMA CountOfUnion ==
  ASSUME NEW S \in SUBSET Rows, NEW U \in SUBSET Rows, NEW b
  PROVE  /\ CountIn(S \cup U, b) <= CountIn(S, b) + CountIn(U, b)
         /\ S \cap U = {} => CountIn(S \cup U, b) = CountIn(S, b) + CountIn(U, b)
<1> DEFINE In(V) == {r \in V : BucketOf[r] = b}
<1>1. In(S) \in SUBSET Rows /\ In(U) \in SUBSET Rows /\ In(S) \cap In(U) \in SUBSET Rows
  OBVIOUS
<1>2. /\ IsFiniteSet(In(S)) /\ IsFiniteSet(In(U))
      /\ Cardinality(In(S)) \in Nat /\ Cardinality(In(U)) \in Nat
      /\ Cardinality(In(S) \cap In(U)) \in Nat
  BY <1>1, RowsAreIds, FS_Subset, FS_CardinalityType
<1>3. In(S \cup U) = In(S) \cup In(U)
  OBVIOUS
<1>4. S \cap U = {} => In(S) \cap In(U) = {}
  OBVIOUS
<1> HIDE DEF In
<1>5. Cardinality(In(S) \cup In(U)) =
        Cardinality(In(S)) + Cardinality(In(U)) - Cardinality(In(S) \cap In(U))
  BY <1>2, FS_Union
<1>6. S \cap U = {} => Cardinality(In(S) \cap In(U)) = 0
  BY <1>4, FS_EmptySet
<1>7. /\ CountIn(S, b) = Cardinality(In(S)) /\ CountIn(U, b) = Cardinality(In(U))
      /\ CountIn(S \cup U, b) = Cardinality(In(S) \cup In(U))
  BY <1>3 DEF CountIn, In
<1>8. QED
  BY <1>2, <1>5, <1>6, <1>7

-----------------------------------------------------------------------------
(* The order of rows.                                                      *)
LEMMA LatestIs ==
  ASSUME stamp \in [Rows -> Nat]
  PROVE  /\ Latest \in Nat
         /\ \A r \in Rows : stamp[r] <= Latest
         /\ Latest = 0 \/ \E r \in Rows : stamp[r] = Latest
<1>1. CASE \A r \in Rows : stamp[r] = 0
  BY <1>1 DEF Latest
<1>2. CASE ~ \A r \in Rows : stamp[r] = 0
  <2> DEFINE newer == [r \in Rows |-> {q \in Rows : stamp[r] < stamp[q]}]
  <2>1. /\ newer \in [Rows -> SUBSET Rows]
        /\ \A x \in Rows : x \notin newer[x]
        /\ \A x \in Rows : \A y \in newer[x] : newer[y] \subseteq newer[x]
    OBVIOUS
  <2>2. Rows # {}
    BY <1>2
  <2>3. \E x \in Rows : newer[x] = {}
    <3> HIDE DEF newer
    <3> QED
      BY <2>1, <2>2, HasFirst, RowsAreIds, Zenon
  <2>4. PICK x \in Rows : \A r \in Rows : stamp[r] <= stamp[x]
    BY <2>3
  <2>5. \E t \in {stamp[r] : r \in Rows} : \A r \in Rows : stamp[r] <= t
    BY <2>4
  <2>6. /\ Latest \in {stamp[r] : r \in Rows}
        /\ \A r \in Rows : stamp[r] <= Latest
    BY <1>2, <2>5 DEF Latest
  <2>7. QED
    BY <2>6
<1>3. QED
  BY <1>1, <1>2

(* Of rows that wait, one is last.                                         *)
LEMMA HasLast ==
  ASSUME stamp \in [Rows -> Nat], NEW S \in SUBSET Rows, S # {}
  PROVE  \E r \in S : \A q \in S : q = r \/ Precedes(q, r)
<1> DEFINE later == [r \in S |-> {q \in S : Precedes(r, q)}]
<1>1. /\ later \in [S -> SUBSET S]
      /\ \A x \in S : x \notin later[x]
      /\ \A x \in S : \A y \in later[x] : later[y] \subseteq later[x]
  <2>1. \A x \in S : x \in Nat /\ stamp[x] \in Nat
    BY RowsAreIds
  <2>2. \A x \in S : ~Precedes(x, x)
    BY <2>1 DEF Precedes
  <2>3. \A x, y, z \in S : Precedes(x, y) /\ Precedes(y, z) => Precedes(x, z)
    BY <2>1 DEF Precedes
  <2>4. QED
    BY <2>2, <2>3
<1>2. IsFiniteSet(S)
  BY RowsAreIds, FS_Subset
<1>3. \E x \in S : later[x] = {}
  <2> HIDE DEF later
  <2> QED
    BY <1>1, <1>2, HasFirst, Zenon
<1>4. PICK x \in S : \A y \in S : ~Precedes(x, y)
  BY <1>3
<1>5. \A y \in S : y = x \/ Precedes(y, x)
  <2> TAKE y \in S
  <2>1. x \in Nat /\ y \in Nat /\ stamp[x] \in Nat /\ stamp[y] \in Nat
    BY RowsAreIds
  <2>2. QED
    BY <1>4, <2>1 DEF Precedes
<1>6. QED
  BY <1>5

LEMMA FirstRows ==
  ASSUME stamp \in [Rows -> Nat], NEW S \in SUBSET Rows
  PROVE  /\ FirstOf(Batch, S) \in SUBSET S
         /\ Cardinality(FirstOf(Batch, S)) <= Batch
         /\ \A r \in FirstOf(Batch, S) : \A q \in S :
              Precedes(q, r) => q \in FirstOf(Batch, S)
<1> DEFINE F == FirstOf(Batch, S)
           Before(r) == {q \in S : Precedes(q, r)}
<1>1. F \in SUBSET S /\ IsFiniteSet(F) /\ Cardinality(F) \in Nat
  BY RowsAreIds, FS_Subset, FS_CardinalityType DEF FirstOf
<1>2. \A r \in S : IsFiniteSet(Before(r)) /\ Cardinality(Before(r)) \in Nat
  <2> TAKE r \in S
  <2>1. Before(r) \in SUBSET Rows
    OBVIOUS
  <2>2. QED
    BY <2>1, RowsAreIds, FS_Subset, FS_CardinalityType
<1>3. ASSUME NEW r \in F, NEW q \in S, Precedes(q, r)
      PROVE  q \in F
  <2>1. Before(q) \in SUBSET Before(r)
    <3>1. \A x \in S : x \in Nat /\ stamp[x] \in Nat
      BY RowsAreIds
    <3>2. r \in S
      BY <1>1
    <3>3. QED
      BY <1>3, <3>1, <3>2 DEF Precedes
  <2>2. Cardinality(Before(q)) <= Cardinality(Before(r))
    BY <1>1, <1>2, <2>1, FS_Subset
  <2>3. Cardinality(Before(r)) < Batch
    BY <1>3 DEF FirstOf
  <2>4. Cardinality(Before(q)) < Batch
    <3>1. Cardinality(Before(q)) \in Nat /\ Cardinality(Before(r)) \in Nat
      BY <1>1, <1>2
    <3> HIDE DEF Before
    <3> QED
      BY <3>1, <2>2, <2>3, BatchIsPositive
  <2>5. QED
    BY <2>4 DEF FirstOf
<1>4. ASSUME F # {}
      PROVE  Cardinality(F) <= Batch
  <2>1. PICK l \in F : \A q \in F : q = l \/ Precedes(q, l)
    BY <1>1, <1>4, HasLast
  <2>2. F \ {l} \in SUBSET Before(l)
    BY <1>1, <2>1
  <2>3. Cardinality(F \ {l}) <= Cardinality(Before(l))
    BY <1>1, <1>2, <2>2, FS_Subset
  <2>4. Cardinality(Before(l)) < Batch
    BY <2>1 DEF FirstOf
  <2>5. Cardinality(F \ {l}) = Cardinality(F) - 1
    BY <1>1, FS_RemoveElement
  <2>6. Cardinality(Before(l)) \in Nat
    BY <1>1, <1>2
  <2> HIDE DEF F, Before
  <2>7. QED
    BY <1>1, <2>3, <2>4, <2>5, <2>6, BatchIsPositive
<1>5. F = {} => Cardinality(F) <= Batch
  BY FS_EmptySet, BatchIsPositive
<1>6. QED
  BY <1>1, <1>3, <1>4, <1>5

-----------------------------------------------------------------------------
(* What every step does with the rows: timestamps stay, new ones are later *)
(* than all others, and what is committed stays committed.                 *)
Later ==
  /\ Begun \subseteq Begun' /\ stored \subseteq stored'
  /\ \A r \in Begun : stamp'[r] = stamp[r]
  /\ \A r \in Begun' \ Begun : Latest < stamp'[r]
  /\ Latest <= Latest'

LEMMA LatestStays ==
  ASSUME UNCHANGED stamp
  PROVE  Latest' = Latest /\ Begun' = Begun
BY DEF Latest, Begun

LEMMA NothingLater ==
  ASSUME ArrivalsSound, UNCHANGED arrivalVars
  PROVE  ArrivalsSound' /\ Later
<1>1. stamp' = stamp /\ stored' = stored
  BY DEF arrivalVars
<1>2. Latest' = Latest /\ Begun' = Begun
  BY <1>1, LatestStays
<1>3. Latest \in Nat
  BY LatestIs DEF ArrivalsSound
<1>4. Later
  BY <1>1, <1>2, <1>3 DEF Later
<1>5. ArrivalsSound'
  BY <1>1, <1>2 DEF ArrivalsSound
<1>6. QED
  BY <1>4, <1>5

LEMMA BeginIsLater ==
  ASSUME ArrivalsSound, NEW g \in Groups, Begin(g)
  PROVE  ArrivalsSound' /\ Later
<1>1. stamp \in [Rows -> Nat] /\ stored \subseteq Begun
  BY DEF ArrivalsSound
<1>2. Latest \in Nat /\ \A r \in Rows : stamp[r] <= Latest
  BY <1>1, LatestIs
<1>3. g \subseteq Rows
  BY GroupsPartitionRows
<1>4. PICK t \in Nat : t = Latest + 1
  BY <1>2
<1>5. /\ g \cap Begun = {} /\ stored' = stored
      /\ stamp' = [r \in Rows |-> IF r \in g THEN t ELSE stamp[r]]
  BY <1>4 DEF Begin
<1>6. stamp' \in [Rows -> Nat]
  BY <1>1, <1>4, <1>5
<1>7. \A r \in Rows : stamp'[r] = IF r \in g THEN t ELSE stamp[r]
  BY <1>5
<1>8. Begun' = Begun \cup g
  BY <1>2, <1>3, <1>4, <1>7 DEF Begun
<1>9. \A r \in Begun : r \in Rows /\ r \notin g /\ stamp'[r] = stamp[r] /\ stamp[r] < t
  BY <1>1, <1>2, <1>4, <1>5, <1>7 DEF Begun
<1>10. Latest' \in Nat /\ \A r \in Rows : stamp'[r] <= Latest'
  <2>1. (stamp \in [Rows -> Nat])' => (Latest \in Nat /\ \A r \in Rows : stamp[r] <= Latest)'
    BY LatestIs, PTL
  <2>2. QED
    BY <2>1, <1>6
<1>11. Latest <= Latest'
  <2>1. CASE g = {}
    <3>1. stamp' = stamp
      BY <1>1, <1>5, <2>1
    <3>2. QED
      BY <1>2, <3>1, LatestStays
  <2>2. CASE g # {}
    BY <1>2, <1>3, <1>4, <1>7, <1>10, <2>2
  <2>3. QED
    BY <2>1, <2>2
<1>12. Later
  BY <1>2, <1>3, <1>4, <1>5, <1>7, <1>8, <1>9, <1>11 DEF Later
<1>13. \A h \in Groups : \A q, r \in h : stamp'[q] = stamp'[r]
  <2> SUFFICES ASSUME NEW h \in Groups, NEW q \in h, NEW r \in h
               PROVE  stamp'[q] = stamp'[r]
    OBVIOUS
  <2>1. q \in Rows /\ r \in Rows /\ (q \in g <=> r \in g)
    BY GroupsPartitionRows
  <2>2. stamp[q] = stamp[r]
    BY DEF ArrivalsSound
  <2>3. QED
    BY <1>7, <2>1, <2>2
<1>14. \A q, r \in Begun' : stamp'[q] = stamp'[r] => \E h \in Groups : q \in h /\ r \in h
  <2> SUFFICES ASSUME NEW q \in Begun \cup g, NEW r \in Begun \cup g, stamp'[q] = stamp'[r]
               PROVE  \E h \in Groups : q \in h /\ r \in h
    BY <1>8
  <2>1. CASE q \in Begun /\ r \in Begun
    BY <1>9, <2>1 DEF ArrivalsSound
  <2>2. CASE q \in g /\ r \in g
    BY <2>2
  <2>3. q \in Begun <=> r \in Begun
    BY <1>1, <1>3, <1>4, <1>7, <1>9
  <2>4. QED
    BY <2>1, <2>2, <2>3
<1>15. stored' \subseteq Begun'
  BY <1>1, <1>5, <1>8
<1>16. ArrivalsSound'
  BY <1>6, <1>13, <1>14, <1>15 DEF ArrivalsSound
<1>17. QED
  BY <1>12, <1>16

LEMMA StoreIsLater ==
  ASSUME ArrivalsSound, NEW g \in Groups, Store(g)
  PROVE  ArrivalsSound' /\ Later
<1>1. stamp' = stamp /\ stored' = stored \cup g /\ g \subseteq Begun
  BY DEF Store
<1>2. Latest' = Latest /\ Begun' = Begun
  BY <1>1, LatestStays
<1>3. Latest \in Nat
  BY LatestIs DEF ArrivalsSound
<1>4. QED
  BY <1>1, <1>2, <1>3 DEF Later, ArrivalsSound

-----------------------------------------------------------------------------
(* The usage worker.                                                       *)
LEMMA CountedAre ==
  ASSUME NEW c
  PROVE  Counted(c) \in SUBSET Rows
BY DEF Counted, Begun

(* What should have been counted at a place does not grow.                 *)
LEMMA CountedStays ==
  ASSUME ArrivalsSound, ArrivalsSound', Later, missed \subseteq missed',
         NEW c \in Places, c.at <= Latest
  PROVE  /\ Counted(c)' \subseteq Counted(c)
         /\ missed' = missed => Counted(c)' = Counted(c)
<1>1. c.at \in Nat /\ Latest \in Nat
  BY LatestIs DEF Places, ArrivalsSound
<1>2. \A r \in Begun : r \in Rows /\ stamp'[r] = stamp[r] /\ stamp[r] \in Nat
  BY DEF Later, Begun, ArrivalsSound
<1>3. \A r \in Begun' : r \in Rows /\ stamp'[r] \in Nat
  BY DEF Begun, ArrivalsSound
<1>4. ASSUME NEW r \in Begun' \ Begun
      PROVE  Behind(r, c)'
  BY <1>1, <1>3, <1>4 DEF Later, Behind
<1>5. \A r \in Begun : Behind(r, c)' <=> Behind(r, c)
  BY <1>2 DEF Behind
<1>6. Begun \subseteq Begun'
  BY DEF Later
<1>7. QED
  BY <1>4, <1>5, <1>6 DEF Counted

LEMMA PlaceStays ==
  ASSUME ArrivalsSound, ArrivalsSound', Later, missed \subseteq missed',
         usage \in [Buckets -> Nat], usage' \in [Buckets -> Nat],
         \A b \in Buckets : usage[b] <= usage'[b],
         NEW c, PlaceSound(c)
  PROVE  PlaceSound(c)'
<1>1. c \in Places /\ c.at <= Latest /\ Counted(c) \subseteq stored
  BY DEF PlaceSound
<1>2. Counted(c)' \subseteq Counted(c)
  BY <1>1, CountedStays
<1>3. c.at \in Nat /\ Latest \in Nat /\ Latest' \in Nat /\ Latest <= Latest'
  <2>1. (stamp \in [Rows -> Nat])' => (Latest \in Nat)'
    BY LatestIs, PTL
  <2>2. QED
    BY <1>1, <2>1, LatestIs DEF Places, ArrivalsSound, Later
<1>4. stored \subseteq stored'
  BY DEF Later
<1>5. PICK V \in SUBSET Rows : V = Counted(c)'
  BY <1>1, <1>2, CountedAre
<1>6. Buckets' = Buckets
  BY DEF Buckets
<1>7. ASSUME NEW b \in Buckets
      PROVE  CountIn(V, b) <= usage'[b]
  <2>1. CountIn(V, b) <= CountIn(Counted(c), b)
    BY <1>2, <1>5, CountedAre, CountGrows
  <2>2. CountIn(V, b) \in Nat /\ CountIn(Counted(c), b) \in Nat
    BY <1>5, CountedAre, CountIsNat
  <2>3. CountIn(Counted(c), b) <= usage[b]
    BY DEF PlaceSound
  <2>4. usage[b] \in Nat /\ usage'[b] \in Nat
    OBVIOUS
  <2>5. QED
    BY <2>1, <2>2, <2>3, <2>4
<1>8. \A b \in Buckets : CountIn(Counted(c), b)' <= usage'[b]
  BY <1>5, <1>7 DEF CountIn
<1>9. QED
  BY <1>1, <1>2, <1>3, <1>4, <1>6, <1>8 DEF PlaceSound

(* The rows behind a place keep their order.                               *)
LEMMA FirstStays ==
  ASSUME Later, NEW S, S \subseteq Begun, NEW c
  PROVE  FirstOf(Batch, {r \in S : Behind(r, c)})' = FirstOf(Batch, {r \in S : Behind(r, c)})
<1>1. \A r \in S : stamp'[r] = stamp[r]
  BY DEF Later
<1>2. {r \in S : Behind(r, c)}' = {r \in S : Behind(r, c)}
  BY <1>1 DEF Behind
<1>3. \A q, r \in S : Precedes(q, r)' <=> Precedes(q, r)
  BY <1>1 DEF Precedes
<1>4. PICK U : U = {r \in S : Behind(r, c)}
  OBVIOUS
<1>5. U \subseteq S /\ U' = U
  BY <1>2, <1>4
<1>6. \A r \in U : {q \in U : Precedes(q, r)}' = {q \in U : Precedes(q, r)}
  BY <1>3, <1>5
<1>7. FirstOf(Batch, U)' = FirstOf(Batch, U)
  BY <1>5, <1>6 DEF FirstOf
<1>8. QED
  BY <1>2, <1>4, <1>7 DEF FirstOf

(* The steps that can disturb a counter only through the tables.           *)
CounterKept ==
  /\ ArrivalsSound /\ ArrivalsSound' /\ Later
  /\ missed \subseteq missed' /\ deployed' = deployed
  /\ usage \in [Buckets -> Nat] /\ usage' \in [Buckets -> Nat]
  /\ \A b \in Buckets : usage[b] <= usage'[b]
  /\ tick \in [Counters -> Ticks]

LEMMA TickStays ==
  ASSUME CounterKept, NEW w \in Counters, TickSound(w), tick'[w] = tick[w],
         tick[w].pc # "idle" /\ Alone => cursor' = cursor
  PROVE  TickSound(w)'
<1>1. PICK t \in Ticks : t = tick[w]
  BY DEF CounterKept
<1>2. Later /\ stored \subseteq stored' /\ stored \subseteq Begun /\ ArrivalsSound /\ ArrivalsSound'
  BY DEF CounterKept, Later, ArrivalsSound
<1>3. t.rows \subseteq stored' /\ Cardinality(t.rows) <= Batch
  BY <1>1, <1>2 DEF TickSound, TickFits
<1>4. Alone' <=> Alone
  BY DEF CounterKept, Alone
<1>5. ASSUME t.pc \in {"select", "commit"}
      PROVE  /\ Alone' => t.from = cursor'
             /\ PlaceSound(t.from) /\ PlaceSound(t.from)'
  <2>1. PlaceSound(t.from) /\ (Alone => t.from = cursor)
    BY <1>1, <1>5 DEF TickSound, TickFits
  <2>2. PlaceSound(t.from)'
    BY <2>1, PlaceStays DEF CounterKept
  <2>3. Alone => cursor' = cursor
    BY <1>1, <1>5
  <2>4. QED
    BY <1>4, <2>1, <2>2, <2>3 DEF CounterKept
<1>6. ASSUME t.pc = "commit"
      PROVE  /\ t.snapshot \subseteq stored'
             /\ Counted(t.from)' \subseteq t.snapshot
             /\ t.rows = FirstOf(Batch, {r \in t.snapshot : Behind(r, t.from)})'
             /\ t.rows # {}
  <2>1. /\ t.snapshot \subseteq stored /\ Counted(t.from) \subseteq t.snapshot
        /\ t.rows = FirstOf(Batch, {r \in t.snapshot : Behind(r, t.from)})
        /\ t.rows # {}
    BY <1>1, <1>6 DEF TickSound, TickFits
  <2>2. t.from \in Places /\ t.from.at <= Latest
    BY <1>5, <1>6 DEF PlaceSound
  <2>3. Counted(t.from)' \subseteq Counted(t.from)
    BY <2>2, CountedStays DEF CounterKept
  <2>4. FirstOf(Batch, {r \in t.snapshot : Behind(r, t.from)})' =
          FirstOf(Batch, {r \in t.snapshot : Behind(r, t.from)})
    <3>1. t.snapshot \subseteq Begun
      BY <1>2, <2>1
    <3>2. PICK S, c : S = t.snapshot /\ c = t.from
      OBVIOUS
    <3>3. FirstOf(Batch, {r \in S : Behind(r, c)})' = FirstOf(Batch, {r \in S : Behind(r, c)})
      BY <1>2, <3>1, <3>2, FirstStays
    <3>4. QED
      BY <3>2, <3>3
  <2>5. QED
    BY <1>2, <2>1, <2>3, <2>4
<1>7. tick'[w] = t
  BY <1>1
<1>8. t.pc # "idle" => w \in deployed'
  BY <1>1 DEF CounterKept, TickSound, TickFits
<1>9. QED
  BY <1>3, <1>5, <1>6, <1>7, <1>8 DEF TickSound, TickFits

LEMMA MissedStays ==
  ASSUME Later, missed \subseteq Begun, NEW c
  PROVE  /\ missed \subseteq Begun'
         /\ \A r \in missed : Behind(r, c)' <=> Behind(r, c)
BY DEF Later, Behind

LEMMA CountersAreQuiet ==
  ASSUME ArrivalsSound, ArrivalsSound', Later, UsageSound,
         UNCHANGED <<usage, cursor, tick, missed, deployed>>
  PROVE  UsageSound'
<1>1. /\ usage' = usage /\ cursor' = cursor /\ tick' = tick
      /\ missed' = missed /\ deployed' = deployed
  OBVIOUS
<1>2. Buckets' = Buckets /\ Ticks' = Ticks /\ (Alone' <=> Alone)
  BY <1>1 DEF Buckets, Ticks, Places, Alone
<1>3. \A b \in Buckets : usage[b] <= usage'[b]
  BY <1>1 DEF UsageSound
<1>4. CounterKept
  BY <1>1, <1>3 DEF CounterKept, UsageSound
<1>5. \A w \in Counters : TickSound(w)'
  BY <1>1, <1>4, TickStays DEF UsageSound
<1>6. PlaceSound(cursor)'
  <2>1. PICK c : c = cursor
    OBVIOUS
  <2>2. PlaceSound(c)'
    BY <2>1, <1>1, <1>4, PlaceStays DEF CounterKept, UsageSound
  <2>3. QED
    BY <1>1, <2>1, <2>2 DEF PlaceSound, Counted, Behind
<1>7. missed' \subseteq Begun'
  BY <1>1, MissedStays DEF UsageSound
<1>8. ASSUME Alone
      PROVE  /\ \A b \in Buckets : usage[b] = CountIn(Counted(cursor), b)'
             /\ \A r \in missed : ~Behind(r, cursor)'
  <2>1. PICK c : c = cursor
    OBVIOUS
  <2>2. Counted(c)' = Counted(c)
    BY <1>1, <2>1, CountedStays DEF UsageSound, PlaceSound
  <2>3. \A r \in missed : ~Behind(r, c)'
    BY <1>8, <2>1, MissedStays DEF UsageSound
  <2>4. \A b \in Buckets : usage[b] = CountIn(Counted(c), b)'
    BY <1>8, <2>1, <2>2 DEF UsageSound, CountIn
  <2>5. QED
    BY <1>1, <2>1, <2>3, <2>4 DEF Counted, Behind, CountIn
<1>9. QED
  BY <1>1, <1>2, <1>5, <1>6, <1>7, <1>8 DEF UsageSound

(* A step of a counter that changes nothing but what it remembers.         *)
LEMMA OnlyTickMoves ==
  ASSUME ArrivalsSound, UsageSound,
         UNCHANGED <<arrivalVars, deployed, usage, cursor, missed>>,
         NEW w \in Counters, NEW t \in Ticks, TickFits(w, t),
         tick' = [tick EXCEPT ![w] = t]
  PROVE  UsageSound'
<1>1. /\ usage' = usage /\ cursor' = cursor
      /\ missed' = missed /\ deployed' = deployed /\ stamp' = stamp /\ stored' = stored
  BY DEF arrivalVars
<1>2. /\ Buckets' = Buckets /\ Ticks' = Ticks /\ (Alone' <=> Alone) /\ Begun' = Begun
      /\ Latest' = Latest
  BY <1>1, LatestStays DEF Buckets, Ticks, Places, Alone
<1>3. /\ \A r, c : Behind(r, c)' <=> Behind(r, c)
      /\ \A q, r : Precedes(q, r)' <=> Precedes(q, r)
  BY <1>1 DEF Behind, Precedes
<1>4. \A c : Counted(c)' = Counted(c)
  BY <1>1, <1>2, <1>3 DEF Counted
<1>5. \A c : PlaceSound(c)' <=> PlaceSound(c)
  BY <1>1, <1>2, <1>4 DEF PlaceSound, Places, CountIn
<1>6. tick \in [Counters -> Ticks] /\ tick' \in [Counters -> Ticks]
  BY DEF UsageSound
<1>7. \A v \in Counters : tick'[v] = IF v = w THEN t ELSE tick[v]
  BY <1>6
<1>8. ASSUME NEW v \in Counters, NEW u, TickFits(v, u)
      PROVE  TickFits(v, u)'
  <2>1. FirstOf(Batch, {r \in u.snapshot : Behind(r, u.from)})' =
          FirstOf(Batch, {r \in u.snapshot : Behind(r, u.from)})
    BY <1>3 DEF FirstOf
  <2>2. QED
    BY <1>1, <1>2, <1>4, <1>5, <1>8, <2>1 DEF TickFits
<1>9. \A v \in Counters : TickSound(v)'
  <2> TAKE v \in Counters
  <2>1. CASE v = w
    <3>1. TickFits(w, t)'
      BY <1>8
    <3>2. QED
      BY <1>7, <2>1, <3>1 DEF TickSound, TickFits
  <2>2. CASE v # w
    <3>1. PICK u : u = tick[v]
      OBVIOUS
    <3>2. TickFits(v, u)
      BY <3>1 DEF UsageSound, TickSound
    <3>3. TickFits(v, u)'
      BY <3>2, <1>8
    <3>4. tick'[v] = u
      BY <1>7, <2>2, <3>1
    <3>5. QED
      BY <3>3, <3>4 DEF TickSound, TickFits
  <2>3. QED
    BY <2>1, <2>2
<1>10. PlaceSound(cursor)'
  <2>1. PICK c : c = cursor
    OBVIOUS
  <2>2. PlaceSound(c)'
    BY <1>5, <2>1 DEF UsageSound
  <2>3. QED
    BY <1>1, <2>1, <2>2 DEF PlaceSound, Counted, Behind
<1>11. ASSUME Alone
       PROVE  /\ \A b \in Buckets : usage[b] = CountIn(Counted(cursor), b)'
              /\ \A r \in missed : ~Behind(r, cursor)'
  <2>1. Counted(cursor)' = Counted(cursor)
    BY <1>1, <1>2 DEF Counted, Behind
  <2>2. \A r \in missed : Behind(r, cursor)' <=> Behind(r, cursor)
    BY <1>1 DEF Behind
  <2>3. QED
    BY <1>11, <2>1, <2>2 DEF UsageSound, CountIn
<1>12. QED
  BY <1>1, <1>2, <1>6, <1>9, <1>10, <1>11 DEF UsageSound

LEMMA IdleFits ==
  ASSUME NEW w \in Counters
  PROVE  Idle \in Ticks /\ TickFits(w, Idle)
<1>1. Idle \in Ticks
  BY DEF Idle, Ticks, Places
<1>2. Cardinality({}) <= Batch
  BY FS_EmptySet, BatchIsPositive
<1>3. QED
  BY <1>1, <1>2 DEF TickFits, Idle

LEMMA LoadLimitsKeeps ==
  ASSUME ArrivalsSound, UsageSound, UNCHANGED <<arrivalVars, deployed>>,
         NEW w \in Counters, w \in deployed, LoadLimits(w), config \in Nat
  PROVE  UsageSound'
<1>1. PICK t : t = [Idle EXCEPT !.pc = "cursor", !.config = config]
  OBVIOUS
<1>2. t \in Ticks /\ t.pc = "cursor" /\ t.rows = {}
  BY <1>1, IdleFits DEF Ticks, Idle
<1>3. Cardinality({}) <= Batch
  BY FS_EmptySet, BatchIsPositive
<1>4. TickFits(w, t)
  BY <1>2, <1>3 DEF TickFits
<1>5. tick' = [tick EXCEPT ![w] = t] /\ UNCHANGED <<usage, cursor, missed>>
  BY <1>1 DEF LoadLimits
<1>6. QED
  BY <1>2, <1>4, <1>5, OnlyTickMoves

LEMMA FetchCursorKeeps ==
  ASSUME ArrivalsSound, UsageSound, UNCHANGED <<arrivalVars, deployed>>,
         NEW w \in Counters, w \in deployed, FetchCursor(w)
  PROVE  UsageSound'
<1>1. PICK t : t = [tick[w] EXCEPT !.pc = "select", !.from = cursor]
  OBVIOUS
<1>2. PlaceSound(cursor) /\ cursor \in Places
  BY DEF UsageSound, PlaceSound
<1>3. PICK u \in Ticks : u = tick[w]
  BY DEF UsageSound
<1>4. t \in Ticks /\ t.pc = "select" /\ t.from = cursor /\ t.rows = u.rows
  BY <1>1, <1>2, <1>3 DEF Ticks
<1>5. u.rows \subseteq stored /\ Cardinality(u.rows) <= Batch
  BY <1>3 DEF UsageSound, TickSound, TickFits
<1>6. TickFits(w, t)
  BY <1>2, <1>4, <1>5 DEF TickFits
<1>7. tick' = [tick EXCEPT ![w] = t] /\ UNCHANGED <<usage, cursor, missed>>
  BY <1>1 DEF FetchCursor
<1>8. QED
  BY <1>4, <1>6, <1>7, OnlyTickMoves

LEMMA FailUsageKeeps ==
  ASSUME ArrivalsSound, UsageSound, UNCHANGED <<arrivalVars, deployed>>,
         NEW w \in Counters, FailUsage(w)
  PROVE  UsageSound'
BY IdleFits, OnlyTickMoves DEF FailUsage

LEMMA SelectRowsKeeps ==
  ASSUME ArrivalsSound, UsageSound, UNCHANGED <<arrivalVars, deployed>>,
         NEW w \in Counters, SelectRows(w), plan \in [Payers -> Nat]
  PROVE  UsageSound'
<1>1. PICK t \in Ticks : t = tick[w]
  BY DEF UsageSound
<1>2. /\ t.pc = "select" /\ PlaceSound(t.from) /\ w \in deployed
      /\ Alone => t.from = cursor
  BY <1>1 DEF SelectRows, UsageSound, TickSound, TickFits
<1>3. PICK S : S = {r \in stored : Behind(r, t.from)}
  OBVIOUS
<1>4. PICK found : found = FirstOf(Batch, S)
  OBVIOUS
<1>5. stamp \in [Rows -> Nat] /\ stored \subseteq Rows /\ S \in SUBSET Rows /\ S \subseteq stored
  BY <1>3 DEF ArrivalsSound, Begun
<1>6. found \in SUBSET stored /\ Cardinality(found) <= Batch
  BY <1>4, <1>5, FirstRows
<1>7. UNCHANGED <<usage, cursor, missed>> /\ plan \in [Payers -> Nat]
  BY DEF SelectRows
<1>8. tick' = [tick EXCEPT ![w] =
                 IF found = {} THEN Idle
                 ELSE [t EXCEPT !.pc = "commit", !.rows = found,
                                !.snapshot = stored, !.plan = plan]]
  BY <1>1, <1>3, <1>4 DEF SelectRows
<1>9. CASE found = {}
  BY <1>7, <1>8, <1>9, IdleFits, OnlyTickMoves
<1>10. CASE found # {}
  <2>1. PICK u : u = [t EXCEPT !.pc = "commit", !.rows = found,
                               !.snapshot = stored, !.plan = plan]
    OBVIOUS
  <2>2. u \in Ticks
    BY <1>5, <1>6, <1>7, <2>1 DEF Ticks
  <2>3. u.pc = "commit" /\ u.from = t.from /\ u.rows = found /\ u.snapshot = stored
    BY <2>1 DEF Ticks
  <2>4. Counted(t.from) \subseteq stored
    BY <1>2 DEF PlaceSound
  <2>5. TickFits(w, u)
    BY <1>2, <1>3, <1>4, <1>6, <1>10, <2>3, <2>4 DEF TickFits
  <2>6. tick' = [tick EXCEPT ![w] = u]
    BY <1>8, <1>10, <2>1
  <2>7. QED
    BY <1>7, <2>2, <2>5, <2>6, OnlyTickMoves
<1>11. QED
  BY <1>9, <1>10

(* The place of a row.                                                     *)
LEMMA PlaceOfRow ==
  ASSUME ArrivalsSound, NEW l \in Rows, NEW n, n = [at |-> stamp[l], id |-> l]
  PROVE  /\ n \in Places /\ n.at <= Latest
         /\ \A r \in Rows : Behind(r, n) <=> ~(r = l \/ Precedes(r, l))
         /\ \A r \in Rows, c \in Places : Behind(l, c) /\ Behind(r, n) => Behind(r, c)
<1>1. stamp \in [Rows -> Nat] /\ \A r \in Rows : r \in Nat /\ stamp[r] \in Nat
  BY RowsAreIds DEF ArrivalsSound
<1>2. n \in Places /\ n.at = stamp[l] /\ n.id = l
  BY <1>1 DEF Places
<1>3. n.at <= Latest
  BY <1>1, <1>2, LatestIs
<1>4. \A r \in Rows : Behind(r, n) <=> ~(r = l \/ Precedes(r, l))
  BY <1>1, <1>2 DEF Behind, Precedes
<1>5. ASSUME NEW r \in Rows, NEW c \in Places, Behind(l, c), Behind(r, n)
      PROVE  Behind(r, c)
  <2>1. c.at \in Nat /\ c.id \in Nat
    <3>1. c.at \in Nat /\ c.id \in Rows \cup {0}
      BY DEF Places
    <3>2. \A x \in Rows \cup {0} : x \in Nat
      BY RowsAreIds
    <3>3. QED
      BY <3>1, <3>2, Zenon
  <2>2. QED
    BY <1>1, <1>2, <1>5, <2>1 DEF Behind
<1>6. QED
  BY <1>2, <1>3, <1>4, <1>5

(* A transaction's COMMIT: what should have been counted at the new place  *)
(* is what should have been counted at the old one and the rows.           *)
LEMMA CommitCounts ==
  ASSUME ArrivalsSound, UsageSound, UNCHANGED arrivalVars, NEW w \in Counters, CommitUsage(w),
         NEW t, t = tick[w]
  PROVE  /\ cursor' \in Places /\ cursor'.at <= Latest
         /\ t.rows \in SUBSET stored /\ w \in deployed /\ t.pc # "idle"
         /\ Counted(t.from) \in SUBSET Rows /\ PlaceSound(t.from)
         /\ Counted(cursor)' \subseteq t.snapshot /\ t.snapshot \subseteq stored
         /\ Counted(cursor)' \subseteq Counted(t.from) \cup t.rows
         /\ Alone => /\ t.from = cursor
                     /\ Counted(t.from) \cap t.rows = {}
                     /\ Counted(cursor)' = Counted(t.from) \cup t.rows
                     /\ \A r \in missed' : ~Behind(r, cursor)'
<1>1. t.pc = "commit"
  BY DEF CommitUsage
<1>2. /\ t.rows \subseteq stored /\ w \in deployed /\ PlaceSound(t.from)
      /\ Alone => t.from = cursor
      /\ t.snapshot \subseteq stored /\ Counted(t.from) \subseteq t.snapshot
      /\ t.rows = FirstOf(Batch, {r \in t.snapshot : Behind(r, t.from)})
      /\ t.rows # {}
  BY <1>1 DEF UsageSound, TickSound, TickFits
<1>3. stamp \in [Rows -> Nat] /\ stored \subseteq Begun /\ Begun \subseteq Rows
  BY DEF ArrivalsSound, Begun
<1>4. t.rows \in SUBSET Rows
  BY <1>2, <1>3
<1>5. PICK l : l = CHOOSE r \in t.rows : \A q \in t.rows : q = r \/ Precedes(q, r)
  OBVIOUS
<1>6. l \in t.rows /\ l \in Rows /\ \A q \in t.rows : q = l \/ Precedes(q, l)
  <2>1. \E r \in t.rows : \A q \in t.rows : q = r \/ Precedes(q, r)
    BY <1>2, <1>3, <1>4, HasLast
  <2>2. QED
    BY <1>4, <1>5, <2>1
<1>7. PICK n : n = [at |-> stamp[l], id |-> l]
  OBVIOUS
<1>8. /\ cursor' = n
      /\ missed' = missed \cup {r \in Begun \ t.snapshot : ~Behind(r, n)}
  BY <1>5, <1>7 DEF CommitUsage
<1>9. /\ n \in Places /\ n.at <= Latest
      /\ \A r \in Rows : Behind(r, n) <=> ~(r = l \/ Precedes(r, l))
      /\ \A r \in Rows, c \in Places : Behind(l, c) /\ Behind(r, n) => Behind(r, c)
  BY <1>3, <1>6, <1>7, PlaceOfRow
<1>10. t.from \in Places
  BY <1>2 DEF PlaceSound
<1>11. Begun' = Begun /\ \A r : Behind(r, cursor)' <=> Behind(r, n)
  BY <1>8 DEF Begun, Behind, arrivalVars
<1>12. Counted(cursor)' = {r \in Begun \ missed' : ~Behind(r, n)}
  BY <1>11 DEF Counted
<1>13. Counted(cursor)' \subseteq t.snapshot
  BY <1>8, <1>12
<1>14. PICK S \in SUBSET Rows : S = {r \in t.snapshot : Behind(r, t.from)}
  BY <1>2, <1>3
<1>15. /\ t.rows \subseteq S
       /\ \A r \in t.rows : \A q \in S : Precedes(q, r) => q \in t.rows
  <2>1. t.rows = FirstOf(Batch, S)
    BY <1>2, <1>14
  <2>2. /\ FirstOf(Batch, S) \in SUBSET S
        /\ \A r \in FirstOf(Batch, S) : \A q \in S :
             Precedes(q, r) => q \in FirstOf(Batch, S)
    BY <1>3, FirstRows
  <2>3. QED
    BY <2>1, <2>2
<1>16. Counted(cursor)' \subseteq Counted(t.from) \cup t.rows
  <2> SUFFICES ASSUME NEW r \in Counted(cursor)', r \notin Counted(t.from)
               PROVE  r \in t.rows
    OBVIOUS
  <2>1. r \in Begun /\ r \notin missed' /\ ~Behind(r, n) /\ r \in t.snapshot
    BY <1>12, <1>13
  <2>2. Behind(r, t.from)
    BY <1>8, <2>1 DEF Counted
  <2>3. r = l \/ Precedes(r, l)
    BY <1>3, <1>9, <2>1
  <2>4. QED
    BY <1>6, <1>14, <1>15, <2>1, <2>2, <2>3
<1>17. ASSUME Alone
       PROVE  /\ t.from = cursor
              /\ Counted(t.from) \cap t.rows = {}
              /\ Counted(cursor)' = Counted(t.from) \cup t.rows
              /\ \A r \in missed' : ~Behind(r, cursor)'
  <2>1. t.from = cursor /\ \A r \in missed : r \in Rows /\ ~Behind(r, t.from)
    BY <1>2, <1>3, <1>17 DEF UsageSound
  <2>2. \A r \in t.rows : Behind(r, t.from) /\ r \in t.snapshot
    BY <1>14, <1>15
  <2>3. \A r \in Rows : Behind(r, n) => Behind(r, t.from)
    BY <1>6, <1>9, <1>10, <2>2
  <2>4. \A r \in missed' : ~Behind(r, n)
    BY <1>8, <2>1, <2>3
  <2>5. Counted(t.from) \cap t.rows = {}
    BY <2>2 DEF Counted
  <2>6. t.rows \subseteq Counted(cursor)'
    <3> SUFFICES ASSUME NEW r \in t.rows
                 PROVE  r \in Counted(cursor)'
      OBVIOUS
    <3>1. r \in Begun /\ ~Behind(r, n)
      BY <1>2, <1>3, <1>4, <1>6, <1>9
    <3>2. r \notin missed'
      BY <1>8, <2>1, <2>2
    <3>3. QED
      BY <1>12, <3>1, <3>2
  <2>7. Counted(t.from) \subseteq Counted(cursor)'
    <3> SUFFICES ASSUME NEW r \in Counted(t.from)
                 PROVE  r \in Counted(cursor)'
      OBVIOUS
    <3>1. r \in Begun /\ r \notin missed /\ ~Behind(r, t.from) /\ r \in t.snapshot
      BY <1>2 DEF Counted
    <3>2. ~Behind(r, n)
      BY <1>3, <2>3, <3>1
    <3>3. r \notin missed'
      BY <1>8, <3>1
    <3>4. QED
      BY <1>12, <3>1, <3>2, <3>3
  <2>8. QED
    BY <1>11, <1>16, <2>1, <2>4, <2>5, <2>6, <2>7
<1>18. QED
  BY <1>1, <1>2, <1>8, <1>9, <1>13, <1>16, <1>17, CountedAre

LEMMA CommitUsageKeeps ==
  ASSUME ArrivalsSound, UsageSound, UNCHANGED <<arrivalVars, deployed>>,
         NEW w \in Counters, CommitUsage(w)
  PROVE  UsageSound'
<1>1. PICK t \in Ticks : t = tick[w]
  BY DEF UsageSound
<1>2. UNCHANGED arrivalVars /\ stored' = stored /\ stamp' = stamp /\ deployed' = deployed
  BY DEF arrivalVars
<1>3. /\ cursor' \in Places /\ cursor'.at <= Latest
      /\ t.rows \in SUBSET stored /\ w \in deployed /\ t.pc # "idle"
      /\ Counted(t.from) \in SUBSET Rows /\ PlaceSound(t.from)
      /\ Counted(cursor)' \subseteq t.snapshot /\ t.snapshot \subseteq stored
      /\ Counted(cursor)' \subseteq Counted(t.from) \cup t.rows
      /\ Alone => /\ t.from = cursor
                  /\ Counted(t.from) \cap t.rows = {}
                  /\ Counted(cursor)' = Counted(t.from) \cup t.rows
                  /\ \A r \in missed' : ~Behind(r, cursor)'
  BY <1>1, <1>2, CommitCounts
<1>4. stored \subseteq Rows /\ t.rows \in SUBSET Rows /\ Begun' = Begun /\ Latest' = Latest
  BY <1>2, <1>3, LatestStays DEF ArrivalsSound, Begun
<1>5. PICK V \in SUBSET Rows : V = Counted(cursor)'
  BY <1>3, <1>4
<1>6. PICK U \in SUBSET Rows : U = Counted(t.from)
  BY <1>3
<1>7. PICK k \in [Buckets -> Nat] : \A b \in Buckets : k[b] = CountIn(t.rows, b)
  <2>1. \A b \in Buckets : CountIn(t.rows, b) \in Nat
    BY <1>4, CountIsNat
  <2>2. [b \in Buckets |-> CountIn(t.rows, b)] \in [Buckets -> Nat]
    BY <2>1
  <2>3. QED
    BY <2>2
<1>8. usage' = [b \in Buckets |-> usage[b] + CountIn(t.rows, b)]
  BY <1>1 DEF CommitUsage
<1>9. \A b \in Buckets : usage'[b] = usage[b] + k[b]
  BY <1>7, <1>8
<1>10. usage \in [Buckets -> Nat] /\ usage' \in [Buckets -> Nat]
  BY <1>7, <1>8 DEF UsageSound
<1>11. \A b \in Buckets : usage[b] <= usage'[b]
  BY <1>9, <1>10
<1>12. \A b \in Buckets : CountIn(V, b) <= usage'[b]
  <2> TAKE b \in Buckets
  <2>1. U \cup t.rows \in SUBSET Rows /\ V \subseteq U \cup t.rows
    BY <1>3, <1>4, <1>5, <1>6
  <2>2. /\ CountIn(V, b) \in Nat /\ CountIn(U, b) \in Nat
        /\ CountIn(U \cup t.rows, b) \in Nat /\ CountIn(t.rows, b) \in Nat
    BY <1>4, <2>1, CountIsNat
  <2>3. CountIn(V, b) <= CountIn(U \cup t.rows, b)
    BY <2>1, CountGrows
  <2>4. CountIn(U \cup t.rows, b) <= CountIn(U, b) + CountIn(t.rows, b)
    BY <1>4, CountOfUnion
  <2>5. CountIn(U, b) <= usage[b]
    BY <1>3, <1>6 DEF PlaceSound
  <2>6. QED
    BY <1>7, <1>9, <1>10, <2>2, <2>3, <2>4, <2>5
<1>13. PlaceSound(cursor)'
  <2>1. Buckets' = Buckets /\ Places' = Places
    BY DEF Buckets, Places
  <2>2. V \subseteq stored'
    BY <1>2, <1>3, <1>5
  <2>3. \A b \in Buckets : CountIn(Counted(cursor), b)' <= usage'[b]
    BY <1>5, <1>12 DEF CountIn
  <2>4. QED
    BY <1>3, <1>4, <1>5, <2>1, <2>2, <2>3 DEF PlaceSound
<1>14. missed \subseteq missed' /\ missed' \subseteq Begun'
  <2>1. missed' \subseteq missed \cup Begun /\ missed \subseteq missed'
    BY DEF CommitUsage
  <2>2. QED
    BY <1>4, <2>1 DEF UsageSound
<1>15. tick' = [tick EXCEPT ![w] = Idle] /\ tick \in [Counters -> Ticks]
  BY DEF CommitUsage, UsageSound
<1>16. CounterKept
  BY <1>2, <1>10, <1>11, <1>14, <1>15, NothingLater DEF CounterKept
<1>17. ASSUME NEW v \in Counters, v # w, tick[v].pc # "idle"
       PROVE  ~Alone
  <2>1. v \in deployed /\ w \in deployed
    BY <1>3, <1>17 DEF UsageSound, TickSound, TickFits
  <2>2. deployed \cap Counters \in SUBSET Counters /\ {v, w} \in SUBSET (deployed \cap Counters)
    BY <2>1
  <2>3. IsFiniteSet(deployed \cap Counters) /\ Cardinality(deployed \cap Counters) \in Nat
    BY <2>2, CountersAreFinite, FS_Subset, FS_CardinalityType
  <2>4. Cardinality({v, w}) = 2
    <3>1. IsFiniteSet({v}) /\ Cardinality({v}) = 1
      BY FS_Singleton
    <3>2. {v, w} = {v} \cup {w}
      OBVIOUS
    <3>3. w \notin {v}
      BY <1>17
    <3>4. Cardinality({v} \cup {w}) = Cardinality({v}) + 1
      BY <3>1, <3>3, FS_AddElement
    <3>5. QED
      BY <3>1, <3>2, <3>4
  <2>5. 2 <= Cardinality(deployed \cap Counters)
    BY <2>2, <2>3, <2>4, FS_Subset
  <2>6. QED
    BY <2>3, <2>5 DEF Alone
<1>18. \A v \in Counters : TickSound(v)'
  <2> TAKE v \in Counters
  <2>1. CASE v = w
    <3>1. (TickFits(w, Idle))'
      <4>1. Cardinality({}) <= Batch
        BY FS_EmptySet, BatchIsPositive
      <4>2. QED
        BY <4>1 DEF TickFits, Idle
    <3>2. tick'[v] = Idle
      BY <1>15, <2>1
    <3>3. QED
      BY <2>1, <3>1, <3>2 DEF TickSound, TickFits, Idle
  <2>2. CASE v # w
    <3>1. tick'[v] = tick[v] /\ TickSound(v)
      BY <1>15, <2>2 DEF UsageSound
    <3>2. QED
      BY <1>16, <1>17, <2>2, <3>1, TickStays
  <2>3. QED
    BY <2>1, <2>2
<1>19. ASSUME Alone
       PROVE  /\ \A b \in Buckets : usage'[b] = CountIn(V, b)
              /\ \A r \in missed' : ~Behind(r, cursor)'
  <2>1. /\ t.from = cursor /\ U \cap t.rows = {} /\ V = U \cup t.rows
        /\ \A r \in missed' : ~Behind(r, cursor)'
    BY <1>3, <1>5, <1>6, <1>19
  <2>2. ASSUME NEW b \in Buckets
        PROVE  usage'[b] = CountIn(V, b)
    <3>1. usage[b] = CountIn(U, b)
      BY <1>6, <1>19, <2>1 DEF UsageSound
    <3>2. CountIn(U \cup t.rows, b) = CountIn(U, b) + CountIn(t.rows, b)
      BY <1>4, <2>1, CountOfUnion
    <3>3. QED
      BY <1>7, <1>9, <2>1, <3>1, <3>2
  <2>3. QED
    BY <2>1, <2>2
<1>20. (Alone' <=> Alone) /\ Buckets' = Buckets /\ Ticks' = Ticks
  BY <1>2 DEF Alone, Buckets, Ticks, Places
<1>21. tick' \in [Counters -> Ticks]
  BY <1>15, IdleFits
<1>22. \A b \in Buckets : CountIn(V, b) = CountIn(Counted(cursor), b)'
  BY <1>5 DEF CountIn
<1>23. QED
  BY <1>10, <1>13, <1>14, <1>18, <1>19, <1>20, <1>21, <1>22 DEF UsageSound

-----------------------------------------------------------------------------
(* The thresholds.                                                         *)

(* What a client has had stays what it has had.                            *)
LEMMA LimitsHadStay ==
  ASSUME TermsSound, config \in 1..config', config' \in Nat, plan' \in [Payers -> Nat],
         \A c \in Payers : plan[c] \in 1..plan'[c],
         NEW d \in Days
  PROVE  LimitsHad(d) \subseteq LimitsHad(d)'
<1>1. Payer[d] \in Payers
  BY DEF Payers
<1>2. 1..config \subseteq 1..config' /\ 1..plan[Payer[d]] \subseteq 1..plan'[Payer[d]]
  BY <1>1 DEF TermsSound
<1>3. QED
  BY <1>2 DEF LimitsHad, LimitOf

(* A limit a client has had is a number, or none.                          *)
LEMMA LimitsHadAre ==
  ASSUME TermsSound, NEW d \in Days, NEW l \in LimitsHad(d)
  PROVE  l \in Int \cup {NoLimit}
<1>1. PICK i \in 1..config, k \in 1..plan[Payer[d]] : l = LimitOf(i, Payer[d], k)
  BY DEF LimitsHad
<1>2. Payer[d] \in Payers
  BY DEF Payers
<1>3. /\ Len(Limits) \in Nat /\ Len(Entitled[Payer[d]]) \in Nat
      /\ config \in 1..Len(Limits) /\ plan[Payer[d]] \in 1..Len(Entitled[Payer[d]])
  BY <1>2, LimitsAreNumbers DEF TermsSound
<1>4. i \in 1..Len(Limits) /\ k \in 1..Len(Entitled[Payer[d]])
  BY <1>1, <1>3
<1>5. QED
  BY <1>1, <1>2, <1>4, LimitsAreNumbers

LEMMA TermsInitially ==
  ASSUME Init
  PROVE  TermsSound
<1>1. /\ usage = [b \in Buckets |-> 0] /\ crossed = [d \in Days |-> FALSE]
      /\ config = 1 /\ plan = [c \in Payers |-> 1] /\ tick = [w \in Counters |-> Idle]
  BY DEF Init, UsageInit
<1>2. /\ config \in 1..Len(Limits) /\ plan \in [Payers -> Nat]
      /\ \A c \in Payers : plan[c] \in 1..Len(Entitled[c])
  BY <1>1, LimitsAreNumbers
<1>3. \A w \in Counters : tick[w].pc = "idle"
  BY <1>1 DEF Idle
<1>4. MarksFollowLimits
  <2>1. ASSUME NEW d \in Days
        PROVE  usage[Inbound[d]] = 0 /\ ~crossed[d]
    BY <1>1 DEF Buckets
  <2>2. QED
    BY <2>1 DEF MarksFollowLimits
<1>5. QED
  BY <1>1, <1>2, <1>3, <1>4 DEF TermsSound

LEMMA TermsAreQuiet ==
  ASSUME TermsSound, UNCHANGED usageVars
  PROVE  TermsSound'
BY DEF TermsSound, usageVars, MarksFollowLimits, LimitsHad

LEMMA RepriceKeepsTerms ==
  ASSUME TermsSound, Reprice
  PROVE  TermsSound'
<1>1. crossed' = crossed /\ usage' = usage /\ tick' = tick
  BY DEF Reprice
<1>2. /\ config' \in 1..Len(Limits) /\ config \in 1..config'
      /\ plan' \in [Payers -> Nat]
      /\ \A c \in Payers : plan'[c] \in 1..Len(Entitled[c]) /\ plan[c] \in 1..plan'[c]
  <2>1. CASE ChangeLimits
    BY <2>1, LimitsAreNumbers DEF ChangeLimits, TermsSound
  <2>2. ASSUME NEW c \in Payers, ChangePlan(c)
        PROVE  /\ config' \in 1..Len(Limits) /\ config \in 1..config'
               /\ plan' \in [Payers -> Nat]
               /\ \A p \in Payers :
                    plan'[p] \in 1..Len(Entitled[p]) /\ plan[p] \in 1..plan'[p]
    BY <2>2, LimitsAreNumbers DEF ChangePlan, TermsSound
  <2>3. QED
    BY <2>1, <2>2 DEF Reprice
<1>3. config' \in Nat /\ config \in Nat
  BY <1>2, LimitsAreNumbers DEF TermsSound
<1>4. \A w \in Counters :
        /\ tick[w].pc # "idle" => tick[w].config \in 1..config'
        /\ tick[w].pc = "commit" => \A c \in Payers : tick[w].plan[c] \in 1..plan'[c]
  BY <1>2, <1>3 DEF TermsSound
<1>5. MarksFollowLimits'
  <2>1. \A d \in Days : LimitsHad(d) \subseteq LimitsHad(d)'
    BY <1>2, <1>3, LimitsHadStay
  <2>2. QED
    BY <1>1, <2>1 DEF TermsSound, MarksFollowLimits, Crosses
<1>6. QED
  BY <1>1, <1>2, <1>4, <1>5 DEF TermsSound

(* A COMMIT compares the counts it has written with limits the clients     *)
(* have had, and leaves the days alone it has not touched.                 *)
LEMMA CommitMarks ==
  ASSUME TermsSound, UsageSound, ArrivalsSound, NEW w \in Counters, CommitUsage(w)
  PROVE  MarksFollowLimits'
<1>1. PICK t \in Ticks : t = tick[w]
  BY DEF UsageSound
<1>2. /\ t.pc = "commit" /\ t.config \in 1..config
      /\ \A c \in Payers : t.plan[c] \in 1..plan[c]
  BY <1>1 DEF CommitUsage, TermsSound
<1>3. t.rows \in SUBSET Rows
  BY DEF Ticks
<1>4. usage' = [b \in Buckets |-> usage[b] + CountIn(t.rows, b)] /\ usage \in [Buckets -> Nat]
  BY <1>1 DEF CommitUsage, UsageSound
<1>5. config' = config /\ plan' = plan
  BY DEF CommitUsage
<1>6. \A d \in Days : crossed[d] \in BOOLEAN /\ crossed'[d] \in Marked(t, d)
  BY <1>1 DEF CommitUsage, TermsSound
<1> SUFFICES ASSUME NEW d \in Days
             PROVE  LET n == usage'[Inbound[d]]
                    IN /\ crossed'[d] => \E l \in LimitsHad(d) : Crosses(l, n)
                       /\ ~crossed'[d] /\ n > 0 => \E l \in LimitsHad(d) : ~Crosses(l, n)
  BY <1>5 DEF MarksFollowLimits, LimitsHad, Crosses
<1>7. PICK b \in Buckets : b = Inbound[d]
  BY DEF Buckets
<1>8. PICK m : m = usage[b]
  OBVIOUS
<1>9. PICK n : n = usage'[b]
  OBVIOUS
<1>10. CountIn(t.rows, b) \in Nat
  BY <1>3, CountIsNat
<1>11. m \in Nat /\ n \in Nat /\ n = m + CountIn(t.rows, b)
  BY <1>4, <1>7, <1>8, <1>9, <1>10
<1>12. /\ crossed[d] => \E l \in LimitsHad(d) : Crosses(l, m)
       /\ ~crossed[d] /\ m > 0 => \E l \in LimitsHad(d) : ~Crosses(l, m)
  BY <1>7, <1>8 DEF TermsSound, MarksFollowLimits
<1>13. \A l \in LimitsHad(d) : Crosses(l, m) => Crosses(l, n)
  BY <1>10, <1>11, LimitsHadAre DEF Crosses
<1>14. CASE d \in {DayOf[r] : r \in t.rows}
  <2>1. PICK l \in MayRead(t, d) : crossed'[d] = (crossed[d] \/ Crosses(l, n))
    BY <1>6, <1>7, <1>9, <1>14 DEF Marked
  <2>2. l \in LimitsHad(d)
    <3>1. PICK k \in t.plan[Payer[d]]..plan[Payer[d]] : l = LimitOf(t.config, Payer[d], k)
      BY <2>1 DEF MayRead
    <3>2. Payer[d] \in Payers
      BY DEF Payers
    <3>3. k \in 1..plan[Payer[d]]
      BY <1>2, <3>1, <3>2 DEF TermsSound
    <3>4. QED
      BY <1>2, <3>1, <3>3 DEF LimitsHad
  <2>3. QED
    BY <1>7, <1>9, <1>12, <1>13, <2>1, <2>2, Zenon
<1>15. CASE d \notin {DayOf[r] : r \in t.rows}
  <2>1. {r \in t.rows : BucketOf[r] = b} = {}
    BY <1>3, <1>7, <1>15, InboundOfItsDay
  <2>2. CountIn(t.rows, b) = 0
    BY <2>1, FS_EmptySet DEF CountIn
  <2>3. n = m
    BY <1>11, <2>2
  <2>4. crossed'[d] = crossed[d]
    BY <1>6, <1>15 DEF Marked
  <2>5. QED
    BY <1>7, <1>9, <1>12, <2>3, <2>4
<1>16. QED
  BY <1>14, <1>15

LEMMA CountingKeepsTerms ==
  ASSUME TermsSound, UsageSound, ArrivalsSound, NEW w \in Counters,
         UsageStep(w) \/ FailUsage(w)
  PROVE  TermsSound'
<1>1. config' = config /\ plan' = plan
  BY DEF UsageStep, LoadLimits, FetchCursor, SelectRows, CommitUsage, FailUsage
<1>2. crossed' \in [Days -> BOOLEAN]
  BY DEF UsageStep, LoadLimits, FetchCursor, SelectRows, CommitUsage, FailUsage, TermsSound
<1>3. MarksFollowLimits'
  <2>1. CASE CommitUsage(w)
    BY <2>1, CommitMarks
  <2>2. CASE ~CommitUsage(w)
    <3>1. usage' = usage /\ crossed' = crossed
      BY <2>2 DEF UsageStep, LoadLimits, FetchCursor, SelectRows, FailUsage
    <3>2. QED
      BY <1>1, <3>1 DEF TermsSound, MarksFollowLimits, LimitsHad, Crosses
  <2>3. QED
    BY <2>1, <2>2
<1>4. PICK t \in Ticks : t = tick[w]
  BY DEF UsageSound
<1>5. tick \in [Counters -> Ticks]
  BY DEF UsageSound
<1>6. PICK u : /\ tick' = [tick EXCEPT ![w] = u]
               /\ u.pc # "idle" => u.config \in 1..config
               /\ u.pc = "commit" => \A c \in Payers : u.plan[c] \in 1..plan[c]
  <2>1. Idle.pc = "idle"
    BY DEF Idle
  <2>2. CASE LoadLimits(w)
    <3>1. PICK u : u = [Idle EXCEPT !.pc = "cursor", !.config = config]
      OBVIOUS
    <3>2. u.pc = "cursor" /\ u.config = config
      BY <3>1 DEF Idle
    <3>3. config \in 1..config
      BY LimitsAreNumbers DEF TermsSound
    <3>4. tick' = [tick EXCEPT ![w] = u]
      BY <2>2, <3>1 DEF LoadLimits
    <3>5. QED
      BY <3>2, <3>3, <3>4
  <2>3. CASE FetchCursor(w)
    <3>1. PICK u : u = [t EXCEPT !.pc = "select", !.from = cursor]
      OBVIOUS
    <3>2. u.pc = "select" /\ u.config = t.config
      BY <3>1 DEF Ticks
    <3>3. t.config \in 1..config
      BY <1>4, <2>3 DEF FetchCursor, TermsSound
    <3>4. tick' = [tick EXCEPT ![w] = u]
      BY <1>4, <2>3, <3>1 DEF FetchCursor
    <3>5. QED
      BY <3>2, <3>3, <3>4
  <2>4. CASE SelectRows(w)
    <3>1. PICK found : found = FirstOf(Batch, {r \in stored : Behind(r, t.from)})
      OBVIOUS
    <3>2. PICK u : u = [t EXCEPT !.pc = "commit", !.rows = found,
                                 !.snapshot = stored, !.plan = plan]
      OBVIOUS
    <3>3. u.pc = "commit" /\ u.config = t.config /\ u.plan = plan
      BY <3>2 DEF Ticks
    <3>4. t.config \in 1..config
      BY <1>4, <2>4 DEF SelectRows, TermsSound
    <3>5. \A c \in Payers : plan[c] \in 1..plan[c]
      BY DEF TermsSound
    <3>6. tick' = [tick EXCEPT ![w] = IF found = {} THEN Idle ELSE u]
      BY <1>4, <2>4, <3>1, <3>2 DEF SelectRows
    <3>7. QED
      BY <2>1, <3>3, <3>4, <3>5, <3>6
  <2>5. CASE CommitUsage(w) \/ FailUsage(w)
    <3>1. tick' = [tick EXCEPT ![w] = Idle]
      BY <2>5 DEF CommitUsage, FailUsage
    <3>2. QED
      BY <2>1, <3>1
  <2>6. QED
    BY <2>2, <2>3, <2>4, <2>5 DEF UsageStep
<1>7. \A v \in Counters : tick'[v] = IF v = w THEN u ELSE tick[v]
  BY <1>5, <1>6
<1>8. \A v \in Counters :
        /\ tick'[v].pc # "idle" => tick'[v].config \in 1..config
        /\ tick'[v].pc = "commit" => \A c \in Payers : tick'[v].plan[c] \in 1..plan[c]
  BY <1>6, <1>7 DEF TermsSound
<1>9. QED
  BY <1>1, <1>2, <1>3, <1>8 DEF TermsSound

-----------------------------------------------------------------------------
(* The rollup.                                                             *)
LEMMA RollupsAreQuiet ==
  ASSUME RollupSound, UNCHANGED rollupVars
  PROVE  RollupSound'
BY DEF RollupSound, rollupVars, Buckets

LEMMA RollupKeeps ==
  ASSUME ArrivalsSound, RollupSound, Recount \/ CommitRollup \/ FailRollup
  PROVE  RollupSound'
<1>1. Buckets' = Buckets
  BY DEF Buckets
<1>2. CASE Recount
  <2>1. stored \in SUBSET Rows
    BY DEF ArrivalsSound, Begun
  <2>2. \A b : CountIn(stored, b) \in Nat
    BY <2>1, CountIsNat
  <2>3. QED
    BY <1>1, <1>2, <2>2 DEF Recount, RollupSound
<1>3. CASE CommitRollup
  BY <1>1, <1>3 DEF CommitRollup, RollupSound, Replaced, NoRecount
<1>4. CASE FailRollup
  BY <1>1, <1>4 DEF FailRollup, RollupSound, NoRecount
<1>5. QED
  BY <1>2, <1>3, <1>4

-----------------------------------------------------------------------------
(* The event feed.                                                         *)
LEMMA OrderStays ==
  ASSUME Later, NEW q \in Seq(Begun)
  PROVE  InOrder(q)' <=> InOrder(q)
<1>1. \A i \in 1..Len(q) : q[i] \in Begun /\ stamp'[q[i]] = stamp[q[i]]
  BY DEF Later
<1>2. QED
  BY <1>1 DEF InOrder

LEMMA AppendInOrder ==
  ASSUME NEW P \in SUBSET Rows, NEW q \in Seq(P), InOrder(q), stamp \in [Rows -> Nat],
         NEW r \in Rows \ P, \A x \in P : stamp[x] <= stamp[r]
  PROVE  InOrder(Append(q, r))
<1> DEFINE all == Append(q, r)
<1>1. /\ Len(q) \in Nat /\ Len(all) = Len(q) + 1 /\ all[Len(q) + 1] = r
      /\ \A i \in 1..Len(q) : q[i] \in P /\ all[i] = q[i]
  OBVIOUS
<1> HIDE DEF all
<1>2. ASSUME NEW i \in 1..Len(all), NEW j \in 1..Len(all), i < j
      PROVE  all[i] # all[j] /\ stamp[all[i]] <= stamp[all[j]]
  <2>1. i \in 1..Len(q)
    BY <1>1, <1>2
  <2>2. CASE j = Len(q) + 1
    BY <1>1, <2>1, <2>2
  <2>3. CASE j # Len(q) + 1
    <3>1. j \in 1..Len(q)
      BY <1>1, <2>3
    <3>2. QED
      BY <1>1, <1>2, <2>1, <3>1 DEF InOrder
  <2>4. QED
    BY <2>2, <2>3
<1>3. InOrder(all)
  BY <1>2 DEF InOrder
<1>4. QED
  BY <1>3 DEF all

LEMMA FeedIsQuiet ==
  ASSUME ArrivalsSound, ArrivalsSound', Later, FeedSound, UNCHANGED feedVars
  PROVE  FeedSound'
<1>1. /\ anchor' = anchor /\ watermark' = watermark /\ ring' = ring /\ fetched' = fetched
      /\ top' = top /\ snapshot' = snapshot /\ heard' = heard /\ backlog' = backlog
      /\ published' = published /\ late' = late
  BY DEF feedVars
<1>2. /\ anchor \in Nat /\ watermark \in Nat /\ top \in Nat
      /\ anchor <= watermark /\ watermark <= top /\ top <= Latest + 1
      /\ PollSound /\ RingSound /\ SocketsSound
  BY DEF FeedSound
<1>3. Latest \in Nat /\ Latest' \in Nat /\ Latest <= Latest'
  <2>1. (stamp \in [Rows -> Nat])' => (Latest \in Nat)'
    BY LatestIs, PTL
  <2>2. QED
    BY <2>1, LatestIs DEF ArrivalsSound, Later
<1>4. /\ Begun \subseteq Begun' /\ stored \subseteq stored' /\ stored \subseteq Begun
      /\ \A r \in Begun : stamp'[r] = stamp[r]
      /\ \A r \in Begun' \ Begun : Latest < stamp'[r]
      /\ \A r \in Begun' : stamp'[r] \in Nat
  BY DEF Later, ArrivalsSound, Begun
<1>5. published \subseteq Begun /\ snapshot \subseteq Begun /\ fetched \subseteq Begun
  BY <1>2, <1>4 DEF PollSound
<1>6. PollSound'
  <2>1. /\ published \subseteq stored' /\ snapshot \subseteq stored'
        /\ fetched \subseteq snapshot /\ Cardinality(fetched) <= Limit
        /\ fetched = {} => top = watermark
    BY <1>2, <1>4 DEF PollSound
  <2>2. /\ \A r \in published : stamp'[r] <= top
        /\ \A r \in fetched : top <= stamp'[r]
    BY <1>2, <1>4, <1>5 DEF PollSound
  <2>3. \A r \in snapshot :
          watermark <= stamp'[r] =>
            \/ r \in published \cup fetched
            \/ top <= stamp'[r] /\ \A q \in fetched : stamp'[q] <= stamp'[r]
    BY <1>2, <1>4, <1>5 DEF PollSound
  <2>4. ASSUME NEW r \in Begun', anchor <= stamp'[r], stamp'[r] < watermark
        PROVE  r \in published \cup late
    <3>1. r \in Begun
      BY <1>2, <1>3, <1>4, <2>4
    <3>2. QED
      BY <1>2, <1>4, <2>4, <3>1 DEF PollSound
  <2>5. QED
    BY <1>1, <2>1, <2>2, <2>3, <2>4 DEF PollSound
<1>7. RingSound'
  <2>1. /\ ring \in Seq(published) /\ Len(ring) <= RingSize /\ InOrder(ring)
        /\ \A r \in published : stamp[r] = top => InRing(r)
    BY <1>2 DEF RingSound
  <2>2. ring \in Seq(Begun)
    BY <1>5, <2>1
  <2>3. PICK q \in Seq(Begun) : q = ring
    BY <2>2
  <2>4. InOrder(q)'
    BY <2>1, <2>3, OrderStays
  <2>5. InOrder(ring)'
    BY <1>1, <2>3, <2>4 DEF InOrder
  <2>6. \A r \in published : stamp'[r] = top => InRing(r)'
    BY <1>1, <1>4, <1>5, <2>1 DEF InRing
  <2>7. QED
    BY <1>1, <2>1, <2>5, <2>6 DEF RingSound
<1>8. SocketsSound'
  <2>1. ASSUME NEW s \in Sockets
        PROVE  InOrder(heard[s])'
    <3>1. heard[s] \in Seq(Begun) /\ InOrder(heard[s])
      BY <1>2, <1>5 DEF SocketsSound
    <3>2. PICK q \in Seq(Begun) : q = heard[s]
      BY <3>1
    <3>3. InOrder(q)'
      BY <3>1, <3>2, OrderStays
    <3>4. QED
      BY <1>1, <3>2, <3>3 DEF InOrder
  <2>2. QED
    BY <1>1, <1>2, <2>1 DEF SocketsSound
<1>9. top <= Latest' + 1
  <2>1. PICK m \in Nat, n \in Nat : m = Latest /\ n = Latest'
    BY <1>3
  <2>2. m <= n /\ top <= m + 1 /\ top \in Nat
    BY <1>2, <1>3, <2>1
  <2>3. top <= n + 1
    BY <2>2
  <2>4. QED
    BY <2>1, <2>3
<1>10. QED
  BY <1>1, <1>2, <1>6, <1>7, <1>8, <1>9 DEF FeedSound

(* Steps of the feed leave the rows alone.                                 *)
LEMMA RowsStay ==
  ASSUME UNCHANGED arrivalVars
  PROVE  /\ stamp' = stamp /\ stored' = stored /\ Begun' = Begun /\ Latest' = Latest
         /\ \A q : InOrder(q)' <=> InOrder(q)
BY LatestStays DEF arrivalVars, InOrder

LEMMA SocketsKeep ==
  ASSUME ArrivalsSound, FeedSound, UNCHANGED arrivalVars, NEW s \in Sockets,
         Subscribe(s) \/ Unsubscribe(s) \/ Send(s)
  PROVE  FeedSound'
<1>1. UNCHANGED <<pollerVars, heard, published, late>>
  BY DEF Subscribe, Unsubscribe, Send
<1>2. /\ anchor' = anchor /\ watermark' = watermark /\ ring' = ring /\ fetched' = fetched
      /\ top' = top /\ snapshot' = snapshot /\ heard' = heard /\ published' = published
      /\ late' = late /\ stamp' = stamp /\ stored' = stored /\ Begun' = Begun
      /\ Latest' = Latest
  BY <1>1, RowsStay DEF pollerVars
<1>3. PollSound' /\ RingSound'
  BY <1>2 DEF FeedSound, PollSound, RingSound, InOrder, InRing
<1>4. /\ backlog' \in [Sockets -> Nat]
      /\ \A x \in Sockets : backlog'[x] <= backlog[x]
  <2>1. backlog \in [Sockets -> Nat] /\ QueueMax \in Nat
    BY SizesAreNumbers DEF FeedSound, SocketsSound
  <2>2. CASE Subscribe(s)
    BY <2>1, <2>2 DEF Subscribe
  <2>3. CASE Unsubscribe(s)
    BY <2>1, <2>3 DEF Unsubscribe
  <2>4. CASE Send(s)
    BY <2>1, <2>4 DEF Send
  <2>5. QED
    BY <2>2, <2>3, <2>4
<1>5. SocketsSound'
  <2>1. ASSUME NEW x \in Sockets
        PROVE  /\ backlog'[x] <= QueueMax /\ backlog'[x] <= Len(heard'[x])
               /\ InOrder(heard[x])'
    <3>1. /\ backlog[x] \in Nat /\ backlog'[x] \in Nat /\ Len(heard[x]) \in Nat
          /\ backlog[x] <= QueueMax /\ backlog[x] <= Len(heard[x]) /\ InOrder(heard[x])
      BY <1>4 DEF FeedSound, SocketsSound
    <3>2. backlog'[x] <= QueueMax /\ backlog'[x] <= Len(heard[x])
      BY <1>4, <3>1, SizesAreNumbers
    <3>3. QED
      BY <1>2, <3>1, <3>2 DEF InOrder
  <2>2. QED
    BY <1>2, <1>4, <2>1 DEF FeedSound, SocketsSound
<1>6. QED
  BY <1>2, <1>3, <1>5 DEF FeedSound

LEMMA FetchKeeps ==
  ASSUME ArrivalsSound, FeedSound, UNCHANGED arrivalVars, Fetch
  PROVE  FeedSound'
<1>1. PICK C \in Cuts(Window) : fetched' = C
  BY DEF Fetch
<1>2. /\ anchor' = anchor /\ watermark' = watermark /\ ring' = ring
      /\ top' = watermark /\ snapshot' = stored /\ heard' = heard /\ backlog' = backlog
      /\ published' = published /\ late' = late /\ fetched = {}
  BY DEF Fetch, NotPolling
<1>3. stamp' = stamp /\ stored' = stored /\ Begun' = Begun /\ Latest' = Latest
  BY RowsStay
<1>4. top' = top
  BY <1>2 DEF FeedSound, PollSound
<1>5. /\ C \subseteq stored /\ Cardinality(C) <= Limit
      /\ \A r \in C : watermark <= stamp[r]
      /\ \A r \in C, q \in Window \ C : stamp[r] <= stamp[q]
  <2>1. /\ C \subseteq Window /\ Cardinality(C) <= Limit
        /\ \A r \in C, q \in Window \ C : stamp[r] <= stamp[q]
    BY <1>1 DEF Cuts
  <2>2. C \subseteq stored /\ \A r \in C : watermark <= stamp[r]
    <3>1. watermark \in Nat /\ \A r \in stored : stamp[r] \in Nat
      BY DEF FeedSound, ArrivalsSound, Begun
    <3>2. QED
      BY <2>1, <3>1 DEF Window
  <2>3. QED
    BY <2>1, <2>2
<1>6. \A r \in stored : watermark <= stamp[r] =>
        r \in C \/ (watermark <= stamp[r] /\ \A q \in C : stamp[q] <= stamp[r])
  <2>1. watermark \in Nat /\ \A r \in stored : stamp[r] \in Nat
    BY DEF FeedSound, ArrivalsSound, Begun
  <2>2. QED
    BY <1>5, <2>1 DEF Window
<1>7. PollSound'
  BY <1>1, <1>2, <1>3, <1>4, <1>5, <1>6 DEF FeedSound, PollSound
<1>8. RingSound' /\ SocketsSound'
  BY <1>2, <1>3, <1>4 DEF FeedSound, RingSound, SocketsSound, InOrder, InRing
<1>9. QED
  BY <1>2, <1>3, <1>4, <1>7, <1>8 DEF FeedSound

LEMMA RestartKeeps ==
  ASSUME ArrivalsSound, FeedSound, UNCHANGED arrivalVars, Restart
  PROVE  FeedSound'
<1>1. PICK a : a = Latest + 1
  OBVIOUS
<1>2. /\ anchor' = a /\ watermark' = a /\ top' = a /\ ring' = <<>> /\ fetched' = {}
      /\ snapshot' = {} /\ backlog' = [s \in Sockets |-> 0] /\ heard' = heard
      /\ published' = published /\ late' = late
  BY <1>1 DEF Restart, NotPolling
<1>3. stamp' = stamp /\ stored' = stored /\ Begun' = Begun /\ Latest' = Latest
  BY RowsStay
<1>4. a \in Nat /\ \A r \in Rows : stamp[r] \in Nat /\ stamp[r] < a
  <2>1. Latest \in Nat /\ \A r \in Rows : stamp[r] \in Nat /\ stamp[r] <= Latest
    BY LatestIs DEF ArrivalsSound
  <2>2. QED
    BY <1>1, <2>1
<1>5. published \subseteq stored /\ stored \subseteq Rows /\ Begun \subseteq Rows
  BY DEF FeedSound, PollSound, ArrivalsSound, Begun
<1>6. PollSound'
  <2>1. Cardinality({}) <= Limit
    BY FS_EmptySet, SizesAreNumbers
  <2>2. \A r \in published : stamp[r] <= a
    BY <1>4, <1>5
  <2>3. \A r \in Begun : ~(a <= stamp[r])
    BY <1>4, <1>5
  <2>4. QED
    BY <1>2, <1>3, <1>5, <2>1, <2>2, <2>3 DEF PollSound
<1>7. RingSound'
  <2>1. \A r \in published : stamp[r] # a
    BY <1>4, <1>5
  <2>2. QED
    BY <1>2, <1>3, <2>1, SizesAreNumbers DEF RingSound, InOrder
<1>8. SocketsSound'
  BY <1>2, <1>3, SizesAreNumbers DEF FeedSound, SocketsSound, InOrder
<1>9. QED
  BY <1>1, <1>2, <1>3, <1>4, <1>6, <1>7, <1>8 DEF FeedSound

(* What HandOut(r) does to the poll: whether r is published or was there   *)
(* already, it is the newest that has been.                                *)
HandedOut(r) ==
  /\ r \in fetched /\ \A q \in fetched : stamp[r] <= stamp[q]
  /\ fetched' = fetched \ {r} /\ published' = published \cup {r} /\ top' = stamp[r]
  /\ IF fetched' = {}
       THEN watermark' = top' /\ late' = late \cup {q \in Begun \ snapshot : stamp[q] < top'}
       ELSE watermark' = watermark /\ late' = late
  /\ anchor' = anchor /\ snapshot' = snapshot

LEMMA FeedNumbers ==
  ASSUME ArrivalsSound, FeedSound
  PROVE  /\ anchor \in Nat /\ watermark \in Nat /\ top \in Nat /\ Latest \in Nat
         /\ \A r \in Rows : stamp[r] \in Nat /\ stamp[r] <= Latest
         /\ published \subseteq stored /\ stored \subseteq Begun /\ Begun \subseteq Rows
         /\ snapshot \subseteq stored /\ fetched \subseteq snapshot
         /\ published \in SUBSET Rows /\ fetched \in SUBSET Rows
<1>1. \A r \in Rows : stamp[r] \in Nat
  BY DEF ArrivalsSound
<1>2. Latest \in Nat /\ \A r \in Rows : stamp[r] <= Latest
  BY LatestIs DEF ArrivalsSound
<1>3. QED
  BY <1>1, <1>2 DEF FeedSound, PollSound, ArrivalsSound, Begun

LEMMA HandOutIs ==
  ASSUME ArrivalsSound, FeedSound, NEW r \in Rows, HandOut(r)
  PROVE  /\ HandedOut(r)
         /\ Publishes(r) => r \notin published
         /\ ~Publishes(r) => /\ published' = published /\ top' = top
                             /\ ring' = ring /\ heard' = heard /\ backlog' = backlog
<1>1. /\ r \in fetched /\ \A q \in fetched : stamp[r] <= stamp[q]
      /\ fetched' = fetched \ {r} /\ anchor' = anchor /\ snapshot' = snapshot
      /\ IF fetched' = {}
           THEN watermark' = top' /\ late' = late \cup {q \in Begun \ snapshot : stamp[q] < top'}
           ELSE watermark' = watermark /\ late' = late
  BY DEF HandOut
<1>2. top \in Nat /\ stamp[r] \in Nat
  BY FeedNumbers
<1>3. top <= stamp[r] /\ (r \in published => stamp[r] <= top)
  BY <1>1 DEF FeedSound, PollSound
<1>4. r \in published => stamp[r] = top /\ InRing(r)
  BY <1>2, <1>3 DEF FeedSound, RingSound
<1>5. Publishes(r) <=> ~InRing(r)
  BY DEF Publishes
<1>6. InRing(r) => r \in published
  BY DEF InRing, FeedSound, RingSound
<1>7. CASE Publishes(r)
  <2>1. published' = published \cup {r} /\ top' = IF stamp[r] > top THEN stamp[r] ELSE top
    BY <1>7 DEF HandOut
  <2>2. top' = stamp[r]
    BY <1>2, <1>3, <2>1
  <2>3. QED
    BY <1>1, <1>4, <1>5, <1>7, <2>1, <2>2 DEF HandedOut
<1>8. CASE ~Publishes(r)
  <2>1. /\ published' = published /\ top' = top
        /\ ring' = ring /\ heard' = heard /\ backlog' = backlog
    BY <1>8 DEF HandOut
  <2>2. r \in published /\ stamp[r] = top
    BY <1>4, <1>5, <1>6, <1>8
  <2>3. published' = published \cup {r} /\ top' = stamp[r]
    BY <2>1, <2>2
  <2>4. QED
    BY <1>1, <1>8, <2>1, <2>3 DEF HandedOut
<1>9. QED
  BY <1>7, <1>8

LEMMA HandOutKeepsPoll ==
  ASSUME ArrivalsSound, FeedSound, UNCHANGED arrivalVars, NEW r \in Rows, HandedOut(r)
  PROVE  /\ PollSound' /\ anchor' <= watermark' /\ watermark' <= top' /\ top' <= Latest + 1
         /\ watermark' \in Nat /\ top' \in Nat
<1>1. stamp' = stamp /\ stored' = stored /\ Begun' = Begun
  BY RowsStay
<1>2. /\ anchor \in Nat /\ watermark \in Nat /\ top \in Nat /\ Latest \in Nat
      /\ \A q \in Rows : stamp[q] \in Nat /\ stamp[q] <= Latest
      /\ published \subseteq stored /\ stored \subseteq Begun /\ Begun \subseteq Rows
      /\ snapshot \subseteq stored /\ fetched \subseteq snapshot
      /\ published \in SUBSET Rows /\ fetched \in SUBSET Rows
  BY FeedNumbers
<1>3. /\ r \in fetched /\ \A q \in fetched : stamp[r] <= stamp[q]
      /\ fetched' = fetched \ {r} /\ published' = published \cup {r} /\ top' = stamp[r]
      /\ anchor' = anchor /\ snapshot' = snapshot
  BY DEF HandedOut
<1>4. /\ anchor <= watermark /\ watermark <= top /\ top <= stamp[r]
      /\ Cardinality(fetched) <= Limit
      /\ \A q \in published : stamp[q] <= top
      /\ \A q \in snapshot :
           watermark <= stamp[q] =>
             \/ q \in published \cup fetched
             \/ top <= stamp[q] /\ \A f \in fetched : stamp[f] <= stamp[q]
      /\ \A q \in Begun : anchor <= stamp[q] /\ stamp[q] < watermark =>
                            q \in published \cup late
  BY <1>3 DEF FeedSound, PollSound
<1>5. /\ watermark' = watermark \/ watermark' = stamp[r]
      /\ fetched' = {} => watermark' = top'
      /\ fetched' # {} => watermark' = watermark
      /\ late \subseteq late'
  BY <1>3 DEF HandedOut
<1>6. /\ watermark' \in Nat /\ watermark <= watermark' /\ watermark' <= stamp[r]
      /\ stamp[r] \in Nat /\ stamp[r] <= Latest
  BY <1>2, <1>4, <1>5
<1>7. /\ anchor' <= watermark' /\ watermark' <= top' /\ top' <= Latest + 1
      /\ watermark' \in Nat /\ top' \in Nat
  BY <1>2, <1>3, <1>4, <1>6
<1>8. fetched' \subseteq snapshot /\ Cardinality(fetched') <= Limit
  <2>1. IsFiniteSet(fetched) /\ Cardinality(fetched) \in Nat
    BY <1>2, RowsAreIds, FS_Subset, FS_CardinalityType
  <2>2. Cardinality(fetched \ {r}) <= Cardinality(fetched) /\ Cardinality(fetched \ {r}) \in Nat
    BY <2>1, FS_Subset, FS_CardinalityType
  <2>3. QED
    BY <1>2, <1>3, <1>4, <2>1, <2>2, SizesAreNumbers
<1>9. \A q \in published' : stamp[q] <= stamp[r]
  BY <1>2, <1>3, <1>4, <1>6
<1>10. ASSUME NEW q \in snapshot, watermark' <= stamp[q]
       PROVE  \/ q \in published' \cup fetched'
              \/ stamp[r] <= stamp[q] /\ \A f \in fetched' : stamp[f] <= stamp[q]
  <2>1. watermark <= stamp[q]
    BY <1>2, <1>6, <1>10
  <2>2. \/ q \in published \cup fetched
        \/ \A f \in fetched : stamp[f] <= stamp[q]
    BY <1>4, <2>1
  <2>3. QED
    BY <1>3, <2>2
<1>11. ASSUME NEW q \in Begun, anchor <= stamp[q], stamp[q] < watermark'
       PROVE  q \in published' \cup late'
  <2>1. CASE stamp[q] < watermark
    BY <1>3, <1>4, <1>5, <1>11, <2>1
  <2>2. CASE ~(stamp[q] < watermark)
    <3>1. watermark <= stamp[q] /\ stamp[q] \in Nat
      BY <1>2, <2>2
    <3>2. watermark' = stamp[r] /\ fetched' = {}
      BY <1>2, <1>5, <1>11, <3>1
    <3>3. ~(stamp[r] <= stamp[q])
      BY <1>6, <1>11, <3>1, <3>2
    <3>4. CASE q \notin snapshot
      BY <1>3, <1>11, <3>2, <3>4 DEF HandedOut
    <3>5. CASE q \in snapshot
      BY <1>3, <1>4, <3>1, <3>2, <3>3, <3>5
    <3>6. QED
      BY <3>4, <3>5
  <2>3. QED
    BY <2>1, <2>2
<1>12. published' \subseteq stored
  BY <1>2, <1>3
<1>13. PollSound'
  BY <1>1, <1>2, <1>3, <1>5, <1>8, <1>9, <1>10, <1>11, <1>12 DEF PollSound
<1>14. QED
  BY <1>7, <1>13

(* Rows of the ring and a row of the same timestamp that is not in it      *)
(* cannot be more than RingSize: they are of one transaction.              *)
LEMMA RingHasRoom ==
  ASSUME ArrivalsSound, NEW q \in Seq(Begun), NEW r \in Begun,
         \A i, j \in 1..Len(q) : i < j => q[i] # q[j],
         \A i \in 1..Len(q) : q[i] # r /\ stamp[q[i]] = stamp[r]
  PROVE  Len(q) < RingSize
<1> DEFINE all == Append(q, r)
<1>1. /\ Len(q) \in Nat /\ Len(all) = Len(q) + 1 /\ all[Len(q) + 1] = r
      /\ \A i \in 1..Len(q) : q[i] \in Begun /\ all[i] = q[i]
      /\ DOMAIN all = 1..Len(all) /\ all \in Seq(Begun)
  OBVIOUS
<1> HIDE DEF all
<1>2. PICK n \in Nat : n = Len(q) + 1
  BY <1>1
<1>3. \A i \in 1..n : all[i] \in Begun /\ stamp[all[i]] = stamp[r]
  BY <1>1, <1>2
<1>4. \A i, j \in 1..n : i < j => all[i] # all[j]
  <2> SUFFICES ASSUME NEW i \in 1..n, NEW j \in 1..n, i < j
               PROVE  all[i] # all[j]
    OBVIOUS
  <2>1. i \in 1..Len(q)
    BY <1>1, <1>2
  <2>2. CASE j = n
    BY <1>1, <1>2, <2>1, <2>2
  <2>3. CASE j # n
    <3>1. j \in 1..Len(q)
      BY <1>1, <1>2, <2>3
    <3>2. QED
      BY <1>1, <2>1, <3>1
  <2>4. QED
    BY <2>2, <2>3
<1>5. PICK g \in Groups : r \in g
  BY DEF ArrivalsSound
<1>6. g \in SUBSET Rows /\ IsFiniteSet(g) /\ Cardinality(g) \in Nat
  BY GroupsPartitionRows, RowsAreIds, FS_Subset, FS_CardinalityType
<1>7. \A i \in 1..n : all[i] \in g
  <2> TAKE i \in 1..n
  <2>1. PICK h \in Groups : all[i] \in h /\ r \in h
    BY <1>3 DEF ArrivalsSound
  <2>2. QED
    BY <1>5, <2>1, GroupsPartitionRows
<1>8. all \in [1..n -> g]
  <2>1. DOMAIN all = 1..n /\ all = [i \in 1..n |-> all[i]]
    BY <1>1, <1>2
  <2>2. QED
    BY <1>7, <2>1
<1>9. \A i, j \in 1..n : all[i] = all[j] => i = j
  <2> SUFFICES ASSUME NEW i \in 1..n, NEW j \in 1..n, all[i] = all[j], i # j
               PROVE  FALSE
    OBVIOUS
  <2>1. i < j \/ j < i
    OBVIOUS
  <2>2. QED
    BY <1>4, <2>1
<1>10. n <= Cardinality(g)
  <2>1. IsFiniteSet(1..n) /\ Cardinality(1..n) = n
    BY FS_Interval, <1>1, <1>2
  <2>2. CASE Cardinality(g) < Cardinality(1..n)
    <3>1. \E i, j \in 1..n : i # j /\ all[i] = all[j]
      BY <1>6, <1>8, <2>1, <2>2, FS_PigeonHole
    <3>2. QED
      BY <1>9, <3>1
  <2>3. QED
    BY <1>6, <2>1, <2>2
<1>11. Cardinality(g) <= RingSize
  BY GroupsFit
<1>12. QED
  BY <1>1, <1>2, <1>6, <1>10, <1>11, SizesAreNumbers

LEMMA HandOutKeepsRing ==
  ASSUME ArrivalsSound, FeedSound, UNCHANGED arrivalVars, NEW r \in Rows, HandOut(r)
  PROVE  RingSound'
<1>1. /\ stamp' = stamp /\ stored' = stored /\ Begun' = Begun
      /\ \A q : InOrder(q)' <=> InOrder(q)
  BY RowsStay
<1>2. /\ top \in Nat /\ \A q \in Rows : stamp[q] \in Nat
      /\ published \subseteq stored /\ stored \subseteq Begun /\ Begun \subseteq Rows
      /\ fetched \subseteq snapshot /\ snapshot \subseteq stored
      /\ published \in SUBSET Rows
  BY FeedNumbers
<1>3. /\ HandedOut(r)
      /\ Publishes(r) => r \notin published
      /\ ~Publishes(r) => published' = published /\ top' = top /\ ring' = ring
  BY HandOutIs
<1>4. /\ published' = published \cup {r} /\ top' = stamp[r] /\ r \in fetched
  BY <1>3 DEF HandedOut
<1>5. r \in Begun /\ top <= stamp[r] /\ \A q \in published : stamp[q] <= top
  BY <1>2, <1>4 DEF FeedSound, PollSound
<1>6. /\ ring \in Seq(published) /\ Len(ring) <= RingSize /\ InOrder(ring)
      /\ \A q \in published : stamp[q] = top => InRing(q)
  BY DEF FeedSound, RingSound
<1>7. CASE ~Publishes(r)
  <2>1. published' = published /\ top' = top /\ ring' = ring
    BY <1>3, <1>7
  <2>2. QED
    BY <1>1, <1>6, <2>1 DEF RingSound, InRing, InOrder
<1>8. CASE Publishes(r)
  <2>1. r \notin published /\ ring' = Remember(r)
    BY <1>3, <1>8 DEF HandOut
  <2>2. PICK all : all = Append(ring, r)
    OBVIOUS
  <2>3. /\ Len(ring) \in Nat /\ all \in Seq(published') /\ Len(all) = Len(ring) + 1
        /\ all[Len(ring) + 1] = r
        /\ \A i \in 1..Len(ring) : all[i] = ring[i] /\ ring[i] \in published
    BY <1>4, <1>6, <2>2
  <2>4. \A q \in published : stamp[q] <= stamp[r]
    BY <1>2, <1>5
  <2>5. InOrder(all)
    BY <1>2, <1>6, <2>1, <2>2, <2>4, AppendInOrder DEF ArrivalsSound
  <2>6. ASSUME NEW q \in published', stamp[q] = top'
        PROVE  \E i \in 1..Len(all) : all[i] = q
    <3>1. CASE q = r
      <4>1. Len(ring) + 1 \in 1..Len(all)
        BY <2>3
      <4>2. QED
        BY <2>3, <3>1, <4>1
    <3>2. CASE q # r
      <4>1. q \in published
        BY <1>4, <3>2
      <4>2. stamp[q] = top
        BY <1>2, <1>4, <1>5, <2>6, <4>1
      <4>3. PICK i \in 1..Len(ring) : ring[i] = q
        BY <1>6, <4>1, <4>2 DEF InRing
      <4>4. i \in 1..Len(all)
        BY <2>3
      <4>5. QED
        BY <2>3, <4>3, <4>4
    <3>3. QED
      BY <3>1, <3>2
  <2>7. ring' = IF Len(all) > RingSize THEN Tail(all) ELSE all
    BY <2>1, <2>2 DEF Remember
  <2>8. CASE ~(Len(all) > RingSize)
    <3>1. ring' = all /\ Len(all) <= RingSize
      BY <2>3, <2>7, <2>8, SizesAreNumbers
    <3>2. \A q \in published' : stamp'[q] = top' => InRing(q)'
      BY <1>1, <2>6, <3>1 DEF InRing
    <3>3. InOrder(ring)'
      BY <1>1, <2>5, <3>1 DEF InOrder
    <3>4. QED
      BY <2>3, <3>1, <3>2, <3>3 DEF RingSound
  <2>9. CASE Len(all) > RingSize
    <3>1. PICK rest : rest = Tail(all)
      OBVIOUS
    <3>2. ring' = rest
      BY <2>7, <2>9, <3>1
    <3>3. Len(all) >= 1 /\ all # <<>>
      BY <2>3
    <3>4. /\ rest \in Seq(published') /\ Len(rest) = Len(ring)
          /\ \A i \in 1..Len(rest) : rest[i] = all[i + 1]
      BY <2>3, <3>1, <3>3
    <3>5. InOrder(rest)
      <4> SUFFICES ASSUME NEW i \in 1..Len(rest), NEW j \in 1..Len(rest), i < j
                   PROVE  rest[i] # rest[j] /\ stamp[rest[i]] <= stamp[rest[j]]
        BY DEF InOrder
      <4>1. i + 1 \in 1..Len(all) /\ j + 1 \in 1..Len(all) /\ i + 1 < j + 1
        BY <2>3, <3>4
      <4>2. QED
        BY <2>5, <3>4, <4>1 DEF InOrder
    <3>6. ASSUME stamp[all[1]] = stamp[r], Len(ring) # 0
          PROVE  FALSE
      <4>1. ring \in Seq(Begun)
        BY <1>2, <1>6
      <4>2. \A i, j \in 1..Len(ring) : i < j => ring[i] # ring[j]
        BY <1>6 DEF InOrder
      <4>3. ASSUME NEW i \in 1..Len(ring)
            PROVE  ring[i] # r /\ stamp[ring[i]] = stamp[r]
        <5>1. ring[i] # r /\ stamp[ring[i]] <= stamp[r] /\ stamp[ring[i]] \in Nat
          BY <1>2, <2>1, <2>3, <2>4
        <5>2. 1 \in 1..Len(ring) /\ ring[1] = all[1] /\ stamp[ring[1]] = stamp[r]
          BY <2>3, <3>6
        <5>3. stamp[ring[1]] <= stamp[ring[i]]
          <6>1. i = 1 \/ 1 < i
            OBVIOUS
          <6>2. CASE i = 1
            BY <5>1, <6>2
          <6>3. CASE 1 < i
            BY <1>6, <5>2, <6>3 DEF InOrder
          <6>4. QED
            BY <6>1, <6>2, <6>3
        <5>4. stamp[r] \in Nat
          BY <1>2, <1>5
        <5>5. QED
          BY <5>1, <5>2, <5>3, <5>4
      <4>4. Len(ring) < RingSize
        BY <1>5, <4>1, <4>2, <4>3, RingHasRoom
      <4>5. QED
        BY <2>3, <2>9, <4>4, SizesAreNumbers
    <3>7. Len(ring) # 0
      <4>1. ASSUME Len(ring) = 0
            PROVE  FALSE
        <5>1. ring \in Seq(Begun)
          BY <1>2, <1>6
        <5>2. 1..Len(ring) = {}
          BY <4>1
        <5>3. Len(ring) < RingSize
          BY <1>5, <5>1, <5>2, RingHasRoom
        <5>4. QED
          BY <2>3, <2>9, <4>1, <5>3, SizesAreNumbers
      <4>2. QED
        BY <4>1
    <3>8. \A q \in published' : stamp[q] = top' => \E i \in 1..Len(rest) : rest[i] = q
      <4> SUFFICES ASSUME NEW q \in published', stamp[q] = top'
                   PROVE  \E i \in 1..Len(rest) : rest[i] = q
        OBVIOUS
      <4>1. PICK i \in 1..Len(all) : all[i] = q
        BY <2>6
      <4>2. i # 1
        BY <1>4, <3>6, <3>7, <4>1
      <4>3. i - 1 \in 1..Len(rest) /\ (i - 1) + 1 = i
        BY <2>3, <3>4, <4>2
      <4>4. rest[i - 1] = q
        BY <3>4, <4>1, <4>3
      <4>5. QED
        BY <4>3, <4>4
    <3>9. QED
      BY <1>1, <1>6, <3>2, <3>4, <3>5, <3>8 DEF RingSound, InRing, InOrder
  <2>10. QED
    BY <2>8, <2>9
<1>9. QED
  BY <1>7, <1>8

LEMMA HandOutKeepsSockets ==
  ASSUME ArrivalsSound, FeedSound, UNCHANGED arrivalVars, NEW r \in Rows, HandOut(r)
  PROVE  SocketsSound'
<1>1. \A q : InOrder(q)' <=> InOrder(q)
  BY RowsStay
<1>2. /\ top \in Nat /\ \A q \in Rows : stamp[q] \in Nat
      /\ fetched \subseteq snapshot /\ snapshot \subseteq stored
      /\ stored \subseteq Begun /\ Begun \subseteq Rows
      /\ published \in SUBSET Rows
  BY FeedNumbers
<1>3. /\ HandedOut(r)
      /\ Publishes(r) => r \notin published
      /\ ~Publishes(r) => published' = published /\ heard' = heard /\ backlog' = backlog
  BY HandOutIs
<1>4. /\ heard \in [Sockets -> Seq(published)] /\ backlog \in [Sockets -> Nat]
      /\ \A s \in Sockets :
           backlog[s] <= QueueMax /\ backlog[s] <= Len(heard[s]) /\ InOrder(heard[s])
  BY DEF FeedSound, SocketsSound
<1>5. CASE ~Publishes(r)
  BY <1>1, <1>3, <1>4, <1>5 DEF SocketsSound, InOrder
<1>6. CASE Publishes(r)
  <2>1. /\ r \notin published /\ published' = published \cup {r}
        /\ heard' = [s \in Sockets |->
                       IF s \in Takers(r) THEN Append(heard[s], r) ELSE heard[s]]
        /\ backlog' = [s \in Sockets |->
                         IF s \in Takers(r) THEN backlog[s] + 1 ELSE backlog[s]]
    BY <1>3, <1>6 DEF HandOut
  <2>2. \A q \in published : stamp[q] <= stamp[r]
    <3>1. r \in fetched
      BY <1>3 DEF HandedOut
    <3>2. top <= stamp[r] /\ \A q \in published : stamp[q] <= top
      BY <3>1 DEF FeedSound, PollSound
    <3>3. QED
      BY <1>2, <3>2
  <2>3. \A s \in Takers(r) : backlog[s] < QueueMax
    BY DEF Takers
  <2>4. ASSUME NEW s \in Sockets
        PROVE  /\ heard'[s] \in Seq(published') /\ backlog'[s] \in Nat
               /\ backlog'[s] <= QueueMax /\ backlog'[s] <= Len(heard'[s])
               /\ InOrder(heard'[s])
    <3>1. PICK q \in Seq(published) : q = heard[s]
      BY <1>4
    <3>2. PICK k \in Nat : k = backlog[s]
      BY <1>4
    <3>3. k <= QueueMax /\ k <= Len(q) /\ InOrder(q)
      BY <1>4, <3>1, <3>2
    <3>4. CASE s \in Takers(r)
      <4>1. heard'[s] = Append(q, r) /\ backlog'[s] = k + 1 /\ k < QueueMax
        BY <2>1, <2>3, <3>1, <3>2, <3>4
      <4>2. Append(q, r) \in Seq(published') /\ Len(Append(q, r)) = Len(q) + 1
        BY <2>1
      <4>3. InOrder(Append(q, r))
        BY <1>2, <2>1, <2>2, <3>3, AppendInOrder DEF ArrivalsSound
      <4>4. k + 1 <= QueueMax /\ k + 1 <= Len(q) + 1
        BY <3>3, <4>1, SizesAreNumbers
      <4>5. QED
        BY <4>1, <4>2, <4>3, <4>4
    <3>5. CASE s \notin Takers(r)
      <4>1. heard'[s] = q /\ backlog'[s] = k /\ q \in Seq(published')
        BY <2>1, <3>1, <3>2, <3>5
      <4>2. QED
        BY <3>3, <4>1
    <3>6. QED
      BY <3>4, <3>5
  <2>5. heard' \in [Sockets -> Seq(published')] /\ backlog' \in [Sockets -> Nat]
    <3>1. DOMAIN heard' = Sockets /\ heard' = [s \in Sockets |-> heard'[s]]
      BY <2>1
    <3>2. DOMAIN backlog' = Sockets /\ backlog' = [s \in Sockets |-> backlog'[s]]
      BY <2>1
    <3>3. QED
      BY <2>4, <3>1, <3>2
  <2>6. \A s \in Sockets : InOrder(heard[s])'
    BY <1>1, <2>4 DEF InOrder
  <2>7. QED
    BY <2>4, <2>5, <2>6 DEF SocketsSound
<1>7. QED
  BY <1>5, <1>6

LEMMA HandOutKeeps ==
  ASSUME ArrivalsSound, FeedSound, UNCHANGED arrivalVars, NEW r \in Rows, HandOut(r)
  PROVE  FeedSound'
<1>1. HandedOut(r)
  BY HandOutIs
<1>2. /\ PollSound' /\ anchor' <= watermark' /\ watermark' <= top' /\ top' <= Latest + 1
      /\ watermark' \in Nat /\ top' \in Nat
  BY <1>1, HandOutKeepsPoll
<1>3. RingSound' /\ SocketsSound'
  BY HandOutKeepsRing, HandOutKeepsSockets
<1>4. anchor' = anchor /\ Latest' = Latest
  BY <1>1, RowsStay DEF HandedOut
<1>5. anchor' \in Nat
  BY <1>4 DEF FeedSound
<1>6. QED
  BY <1>2, <1>3, <1>4, <1>5 DEF FeedSound

-----------------------------------------------------------------------------
(* The whole.                                                              *)
LEMMA Initially ==
  ASSUME Init
  PROVE  Inv
<1>1. stamp = [r \in Rows |-> 0] /\ stored = {}
  BY DEF Init, ArrivalsInit
<1>2. Begun = {} /\ Latest = 0
  BY <1>1 DEF Begun, Latest
<1>3. ArrivalsSound
  <2>1. \A g \in Groups : g \subseteq Rows
    BY GroupsPartitionRows
  <2>2. QED
    BY <1>1, <1>2, <2>1 DEF ArrivalsSound
<1>4. UsageSound
  <2>1. /\ usage = [b \in Buckets |-> 0] /\ cursor = [at |-> 0, id |-> 0] /\ tick = [w \in Counters |-> Idle]
        /\ missed = {}
    BY DEF Init, UsageInit
  <2>2. \A b : CountIn({}, b) = 0
    <3>1. \A b : {r \in {} : BucketOf[r] = b} = {}
      OBVIOUS
    <3>2. QED
      BY <3>1, FS_EmptySet DEF CountIn
  <2>3. Counted(cursor) = {}
    BY <1>2 DEF Counted
  <2>4. cursor \in Places /\ cursor.at = 0
    BY <2>1 DEF Places
  <2>5. PlaceSound(cursor)
    BY <1>2, <2>1, <2>2, <2>3, <2>4 DEF PlaceSound
  <2>6. \A w \in Counters : TickSound(w)
    <3> TAKE w \in Counters
    <3>1. tick[w] = Idle /\ TickFits(w, Idle)
      BY <2>1, IdleFits
    <3>2. QED
      BY <3>1 DEF TickSound
  <2>7. tick \in [Counters -> Ticks]
    BY <2>1, IdleFits
  <2>8. QED
    BY <2>1, <2>2, <2>3, <2>5, <2>6, <2>7 DEF UsageSound
<1>5. RollupSound
  BY DEF Init, RollupInit, RollupSound, NoRecount
<1>6. FeedSound
  <2>1. /\ anchor = 1 /\ watermark = 1 /\ top = 1 /\ ring = <<>> /\ fetched = {}
        /\ snapshot = {} /\ heard = [s \in Sockets |-> <<>>]
        /\ backlog = [s \in Sockets |-> 0] /\ published = {} /\ late = {}
    BY <1>2 DEF Init, FeedInit, NotPolling
  <2>2. PollSound
    BY <1>2, <2>1, FS_EmptySet, SizesAreNumbers DEF PollSound
  <2>3. RingSound
    BY <2>1, SizesAreNumbers DEF RingSound, InOrder
  <2>4. SocketsSound
    BY <2>1, SizesAreNumbers DEF SocketsSound, InOrder
  <2>5. QED
    BY <1>2, <2>1, <2>2, <2>3, <2>4 DEF FeedSound
<1>7. QED
  BY <1>3, <1>4, <1>5, <1>6, TermsInitially DEF Inv

LEMMA Preserved ==
  ASSUME Inv, [Next]_feedsVars
  PROVE  Inv'
<1>1. ArrivalsSound /\ UsageSound /\ TermsSound /\ RollupSound /\ FeedSound
  BY DEF Inv
<1>2. CASE UNCHANGED feedsVars
  <2>1. /\ UNCHANGED arrivalVars /\ UNCHANGED usageVars
        /\ UNCHANGED rollupVars /\ UNCHANGED feedVars
        /\ UNCHANGED <<usage, cursor, tick, missed, deployed>>
    BY <1>2 DEF feedsVars, usageVars
  <2>2. QED
    BY <1>1, <2>1, NothingLater, CountersAreQuiet, TermsAreQuiet, RollupsAreQuiet,
       FeedIsQuiet DEF Inv
<1>3. ASSUME NEW g \in Groups, Arrive(g)
      PROVE  Inv'
  <2>1. /\ UNCHANGED usageVars /\ UNCHANGED rollupVars /\ UNCHANGED feedVars
        /\ UNCHANGED <<usage, cursor, tick, missed, deployed>>
    BY <1>3 DEF Arrive, usageVars
  <2>2. ArrivalsSound' /\ Later
    BY <1>1, <1>3, BeginIsLater, StoreIsLater DEF Arrive
  <2>3. QED
    BY <1>1, <2>1, <2>2, CountersAreQuiet, TermsAreQuiet, RollupsAreQuiet, FeedIsQuiet DEF Inv
<1>4. ASSUME NEW w \in Counters, CountUsage(w) \/ LoseTick(w)
      PROVE  Inv'
  <2>1. /\ UNCHANGED <<arrivalVars, deployed>> /\ UNCHANGED arrivalVars
        /\ UNCHANGED rollupVars /\ UNCHANGED feedVars
        /\ UsageStep(w) \/ FailUsage(w)
    BY <1>4 DEF CountUsage, LoseTick
  <2>2. w \in deployed
    BY <1>4 DEF CountUsage, LoseTick
  <2>3. UsageSound'
    <3>1. config \in Nat /\ plan \in [Payers -> Nat]
      BY <1>1, LimitsAreNumbers DEF TermsSound
    <3>2. QED
      BY <1>1, <2>1, <2>2, <3>1, LoadLimitsKeeps, FetchCursorKeeps, SelectRowsKeeps,
         CommitUsageKeeps, FailUsageKeeps DEF UsageStep
  <2>4. TermsSound'
    BY <1>1, <2>1, CountingKeepsTerms
  <2>5. QED
    BY <1>1, <2>1, <2>3, <2>4, NothingLater, RollupsAreQuiet, FeedIsQuiet DEF Inv
<1>5. CASE RollUp \/ LoseRollup
  <2>1. /\ UNCHANGED arrivalVars /\ UNCHANGED usageVars /\ UNCHANGED feedVars
        /\ UNCHANGED <<usage, cursor, tick, missed, deployed>>
        /\ Recount \/ CommitRollup \/ FailRollup
    BY <1>5 DEF RollUp, LoseRollup, usageVars
  <2>2. QED
    BY <1>1, <2>1, NothingLater, CountersAreQuiet, TermsAreQuiet, RollupKeeps, FeedIsQuiet
       DEF Inv
<1>6. CASE Feed
  <2>1. /\ UNCHANGED arrivalVars /\ UNCHANGED usageVars /\ UNCHANGED rollupVars
        /\ UNCHANGED <<usage, cursor, tick, missed, deployed>>
        /\ FeedStep
    BY <1>6 DEF Feed, usageVars
  <2>2. FeedSound'
    BY <1>1, <2>1, FetchKeeps, RestartKeeps, HandOutKeeps, SocketsKeep DEF FeedStep
  <2>3. QED
    BY <1>1, <2>1, <2>2, NothingLater, CountersAreQuiet, TermsAreQuiet, RollupsAreQuiet DEF Inv
<1>7. CASE ChangeTerms
  <2>1. /\ UNCHANGED arrivalVars /\ UNCHANGED rollupVars /\ UNCHANGED feedVars
        /\ UNCHANGED <<usage, cursor, tick, missed, deployed>> /\ Reprice
    BY <1>7 DEF ChangeTerms, Reprice
  <2>2. QED
    BY <1>1, <2>1, NothingLater, CountersAreQuiet, RepriceKeepsTerms, RollupsAreQuiet,
       FeedIsQuiet DEF Inv
<1>8. QED
  BY <1>2, <1>3, <1>4, <1>5, <1>6, <1>7 DEF Next

(* The invariant.                                                          *)
THEOREM Invariance == Spec => []Inv
<1>1. Init => Inv
  BY Initially
<1>2. Inv /\ [Next]_feedsVars => Inv'
  BY Preserved
<1>3. QED
  BY <1>1, <1>2, PTL DEF Spec

LEMMA InvImpliesTypeOK ==
  ASSUME Inv
  PROVE  TypeOK
<1>1. ArrivalsSound /\ UsageSound /\ TermsSound /\ RollupSound /\ FeedSound
  BY DEF Inv
<1>2. UsageTypeOK
  <2>1. \A w \in Counters : tick[w].pc \in {"idle", "cursor", "select", "commit"}
    BY <1>1 DEF UsageSound, Ticks
  <2>2. \A w \in Counters : tick[w].rows \subseteq stored /\ Cardinality(tick[w].rows) <= Batch
    BY <1>1 DEF UsageSound, TickSound, TickFits
  <2>3. cursor \in [at : Nat, id : Rows \cup {0}]
    BY <1>1 DEF UsageSound, PlaceSound, Places
  <2>4. QED
    BY <1>1, <2>1, <2>2, <2>3 DEF UsageTypeOK, UsageSound, TermsSound, RollupSound
<1>3. FeedTypeOK
  <2>1. fetched \subseteq stored /\ Cardinality(fetched) <= Limit
    BY <1>1 DEF FeedSound, PollSound
  <2>2. QED
    BY <1>1, <2>1 DEF FeedTypeOK, FeedSound, RingSound, SocketsSound
<1>4. QED
  BY <1>1, <1>2, <1>3 DEF TypeOK, ArrivalsSound

(* Types, and the bounds of batches, polls, rings and queues.              *)
THEOREM TypeCorrect == Spec => []TypeOK
<1>1. Inv => TypeOK
  BY InvImpliesTypeOK
<1>2. QED
  BY <1>1, Invariance, PTL

(* What the cursor has passed is counted: exactly once by one counter, at  *)
(* least once by several, whatever overlaps, fails or comes late.          *)
THEOREM UsageIsExact == Spec => []UsageExact
<1>1. ASSUME Inv
      PROVE  UsageExact
  <2>1. UsageSound /\ ArrivalsSound
    BY <1>1 DEF Inv
  <2>2. PlaceSound(cursor)
    BY <2>1 DEF UsageSound
  <2>3. Counted(cursor) = {r \in stored \ missed : ~Behind(r, cursor)}
    BY <2>1, <2>2 DEF ArrivalsSound, PlaceSound, Counted
  <2>4. ASSUME NEW b \in Buckets
        PROVE  /\ usage[b] >= CountIn(Counted(cursor), b)
               /\ Cardinality(deployed \cap Counters) <= 1 =>
                    usage[b] = CountIn(Counted(cursor), b)
    <3>1. usage[b] \in Nat /\ CountIn(Counted(cursor), b) \in Nat
      BY <2>1, CountedAre, CountIsNat DEF UsageSound
    <3>2. CountIn(Counted(cursor), b) <= usage[b]
      BY <2>2 DEF PlaceSound
    <3>3. QED
      BY <2>1, <3>1, <3>2 DEF UsageSound, Alone
  <2>5. QED
    BY <2>3, <2>4 DEF UsageExact, UsageExactFor
<1>2. Inv => UsageExact
  BY <1>1
<1>3. QED
  BY <1>2, Invariance, PTL

(* A day is marked, or not, by limits its client has had, whenever the     *)
(* configuration and the plans change and whatever ticks fail or overlap.  *)
THEOREM MarksAreRight == Spec => []MarksFollowLimits
<1>1. Inv => MarksFollowLimits
  BY DEF Inv, TermsSound
<1>2. QED
  BY <1>1, Invariance, PTL

(* No socket hears a row twice or an older one after a newer one, and the  *)
(* watermark skips only rows that were not committed when it moved.        *)
THEOREM FeedIsExact == Spec => []FeedExact
<1>1. Inv => FeedExact
  <2> SUFFICES ASSUME Inv
               PROVE  FeedExact
    OBVIOUS
  <2>1. FeedSound /\ ArrivalsSound
    BY DEF Inv
  <2>2. HeardInOrder
    BY <2>1 DEF HeardInOrder, FeedSound, SocketsSound, InOrder
  <2>3. SkipsOnlyLate
    BY <2>1 DEF SkipsOnlyLate, FeedSound, PollSound, ArrivalsSound
  <2>4. QED
    BY <2>2, <2>3 DEF FeedExact
<1>2. QED
  BY <1>1, Invariance, PTL
=============================================================================
