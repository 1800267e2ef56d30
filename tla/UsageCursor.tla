----------------------------- MODULE UsageCursor -----------------------------
(***************************************************************************)
(* The two workers that count messages.                                    *)
(*                                                                         *)
(* backend/workers/usage_increment_worker.py adds the messages behind a    *)
(* cursor to bill_usage_daily, moves the cursor and marks thresholds, all  *)
(* in one transaction; what bill_usage_daily says decides who gets the     *)
(* paywall.  The cursor is read without a lock.  The upserts hold their    *)
(* rows to the end and work on the newest version, so what a transaction   *)
(* does takes effect at its COMMIT; one that fails has done nothing.       *)
(*                                                                         *)
(* backend/workers/metrics_rollup_worker.py counts the recent days again   *)
(* each time and overwrites what it had counted before.                    *)
(*                                                                         *)
(* A bucket is one column of one client's UTC day.  The thresholds are     *)
(* those of the client's plan: what the configuration says of the plan and *)
(* which plan the client has change while the worker runs, and it reads    *)
(* the one at the start of its transaction, the other near its end.        *)
(***************************************************************************)
EXTENDS Arrivals, Integers, Sequences

CONSTANTS
  Counters,         \* processes that run usage_increment_worker
  BucketOf, DayOf,  \* the bucket and the day of every row
  Inbound, Payer,   \* of every day: its inbound bucket, its client
  Limits,           \* usage.daily_inbound_limits, one value after the other:
                    \* hard_block of every plan, or NoLimit
  Entitled,         \* the plans of every client, one after the other
  NoLimit,
  Batch             \* USAGE_WORKER_BATCH_SIZE

ASSUME BatchIsPositive == Batch \in Nat \ {0}
ASSUME CountersAreFinite == IsFiniteSet(Counters)

Days == {DayOf[r] : r \in Rows}
Payers == {Payer[d] : d \in Days}
Buckets == {BucketOf[r] : r \in Rows} \cup {Inbound[d] : d \in Days}

(* plan_soft_hard: the hard_block of a client's k-th plan in the i-th      *)
(* configuration.                                                          *)
LimitOf(i, c, k) == Limits[i][Entitled[c][k]]

ASSUME LimitsAreNumbers ==
  /\ Len(Limits) \in Nat \ {0}
  /\ \A c \in Payers :
       /\ Len(Entitled[c]) \in Nat \ {0}
       /\ \A i \in 1..Len(Limits), k \in 1..Len(Entitled[c]) :
            LimitOf(i, c, k) \in Int \cup {NoLimit}

(* Columns of different days are different buckets.                        *)
ASSUME InboundOfItsDay ==
  \A r \in Rows, d \in Days : BucketOf[r] = Inbound[d] => DayOf[r] = d

VARIABLES
  usage,            \* bill_usage_daily
  crossed,          \* hard_threshold_crossed_at IS NOT NULL
  config, plan,     \* how far Limits and every client's Entitled have got
  cursor,           \* worker_usage_cursors: a timestamp and an id
  tick,             \* what every counter remembers of its transaction
  missed,           \* rows the cursor went past before they were committed
  metrics,          \* metrics_daily_client
  recount           \* the counts of an open rollup transaction, or NoRecount

usageVars == <<usage, crossed, config, plan, cursor, tick, missed>>
rollupVars == <<metrics, recount>>

Idle ==
  [pc |-> "idle", config |-> 0, from |-> [at |-> 0, id |-> 0],
   rows |-> {}, snapshot |-> {}, plan |-> [c \in Payers |-> 0]]
NoRecount == [b \in {} |-> 0]

CountIn(S, b) == Cardinality({r \in S : BucketOf[r] = b})

UsageInit ==
  /\ usage = [b \in Buckets |-> 0]
  /\ crossed = [d \in Days |-> FALSE]
  /\ config = 1 /\ plan = [c \in Payers |-> 1]
  /\ cursor = [at |-> 0, id |-> 0]
  /\ tick = [w \in Counters |-> Idle]
  /\ missed = {}

RollupInit == metrics = [b \in Buckets |-> 0] /\ recount = NoRecount

-----------------------------------------------------------------------------
(* PUT /ops/config, and the billing webhooks' updates of entitlement_plan. *)
ChangeLimits ==
  /\ config < Len(Limits)
  /\ config' = config + 1
  /\ UNCHANGED plan

ChangePlan(c) ==
  /\ plan[c] < Len(Entitled[c])
  /\ plan' = [plan EXCEPT ![c] = @ + 1]
  /\ UNCHANGED config

Reprice ==
  /\ ChangeLimits \/ \E c \in Payers : ChangePlan(c)
  /\ UNCHANGED <<usage, crossed, cursor, tick, missed>>

-----------------------------------------------------------------------------
LoadLimits(w) ==
  /\ tick[w].pc = "idle"
  /\ tick' = [tick EXCEPT ![w] = [Idle EXCEPT !.pc = "cursor", !.config = config]]
  /\ UNCHANGED <<usage, crossed, config, plan, cursor, missed>>

FetchCursor(w) ==
  /\ tick[w].pc = "cursor"
  /\ tick' = [tick EXCEPT ![w] = [@ EXCEPT !.pc = "select", !.from = cursor]]
  /\ UNCHANGED <<usage, crossed, config, plan, cursor, missed>>

(* WHERE timestamp > :cts OR (timestamp = :cts AND id > :cid).             *)
BehindByTime(r, c) == stamp[r] > c.at
Behind(r, c) == stamp[r] > c.at \/ (stamp[r] = c.at /\ r > c.id)

(* Nothing behind the cursor ends the tick.                                *)
SelectRows(w) ==
  LET found == FirstOf(Batch, {r \in stored : Behind(r, tick[w].from)})
  IN /\ tick[w].pc = "select"
     /\ tick' = [tick EXCEPT ![w] =
                   IF found = {} THEN Idle
                   ELSE [@ EXCEPT !.pc = "commit", !.rows = found,
                                  !.snapshot = stored, !.plan = plan]]
     /\ UNCHANGED <<usage, crossed, config, plan, cursor, missed>>

(* should_mark_hard.                                                       *)
Crosses(l, n) == l # NoLimit /\ n >= l

(* The limits _apply_thresholds_for_clients may compare with: its SELECT   *)
(* reads the plan at some time since the rows were selected.               *)
MayRead(t, d) ==
  {LimitOf(t.config, Payer[d], k) : k \in t.plan[Payer[d]]..plan[Payer[d]]}

(* The thresholds applied before the upserts.                              *)
MarkedBefore(t, d) ==
  IF d \notin {DayOf[r] : r \in t.rows} THEN {crossed[d]}
  ELSE {crossed[d] \/ Crosses(l, usage[Inbound[d]]) : l \in MayRead(t, d)}

(* It reads the counts the transaction has written, for the days the       *)
(* transaction has touched, and keeps a mark that is there.                *)
Marked(t, d) ==
  IF d \notin {DayOf[r] : r \in t.rows} THEN {crossed[d]}
  ELSE {crossed[d] \/ Crosses(l, usage'[Inbound[d]]) : l \in MayRead(t, d)}

(* The upserts, _update_cursor (to the last row selected, whatever the     *)
(* cursor is by now) and the thresholds.                                   *)
CommitUsage(w) ==
  LET t == tick[w]
      last == CHOOSE r \in t.rows : \A q \in t.rows : q = r \/ Precedes(q, r)
  IN /\ t.pc = "commit"
     /\ usage' = [b \in Buckets |-> usage[b] + CountIn(t.rows, b)]
     /\ crossed' \in [Days -> BOOLEAN]
     /\ \A d \in Days : crossed'[d] \in Marked(t, d)
     /\ cursor' = [at |-> stamp[last], id |-> last]
     /\ missed' = missed \cup {r \in Begun \ t.snapshot : ~Behind(r, cursor')}
     /\ tick' = [tick EXCEPT ![w] = Idle]
     /\ UNCHANGED <<config, plan>>

(* An exception, a crash: main() logs it and the next tick starts over.    *)
FailUsage(w) ==
  /\ tick[w].pc # "idle"
  /\ tick' = [tick EXCEPT ![w] = Idle]
  /\ UNCHANGED <<usage, crossed, config, plan, cursor, missed>>

UsageStep(w) == LoadLimits(w) \/ FetchCursor(w) \/ SelectRows(w) \/ CommitUsage(w)

-----------------------------------------------------------------------------
(* INSERT INTO ... SELECT COUNT ... GROUP BY: no row for an empty day.     *)
Recount ==
  LET counted == {BucketOf[r] : r \in stored}
  IN /\ recount = NoRecount /\ counted # {}
     /\ recount' = [b \in counted |-> CountIn(stored, b)]
     /\ UNCHANGED metrics

(* ON CONFLICT DO UPDATE SET n = EXCLUDED.n.                               *)
FirstKept(old, n) == IF old = 0 THEN n ELSE old
Replaced(old, n) == n

CommitRollup ==
  /\ recount # NoRecount
  /\ metrics' = [b \in Buckets |->
                   IF b \in DOMAIN recount THEN Replaced(metrics[b], recount[b])
                                           ELSE metrics[b]]
  /\ recount' = NoRecount

FailRollup == recount # NoRecount /\ recount' = NoRecount /\ UNCHANGED metrics

-----------------------------------------------------------------------------
UsageTypeOK ==
  /\ \A b \in Buckets : usage[b] \in Nat
  /\ \A d \in Days : crossed[d] \in BOOLEAN
  /\ config \in 1..Len(Limits)
  /\ \A c \in Payers : plan[c] \in 1..Len(Entitled[c])
  /\ cursor \in [at : Nat, id : Rows \cup {0}]
  /\ \A w \in Counters :
       /\ tick[w].pc \in {"idle", "cursor", "select", "commit"}
       /\ tick[w].rows \subseteq stored
       /\ Cardinality(tick[w].rows) <= Batch
  /\ missed \subseteq Begun
  /\ \A b \in Buckets : metrics[b] \in Nat

(* bill_usage_daily counts exactly the messages up to the cursor, each     *)
(* once, through batches that end between equal timestamps and ticks that  *)
(* fail half way; only messages committed after the cursor had passed them *)
(* are not counted, and those never.  A second counter may count messages  *)
(* again, but loses none.                                                  *)
UsageExactFor(workers) ==
  \A b \in Buckets :
    LET due == {r \in stored \ missed : ~Behind(r, cursor)}
    IN /\ usage[b] >= CountIn(due, b)
       /\ Cardinality(workers) <= 1 => usage[b] = CountIn(due, b)

(* hard_threshold_crossed_at of a day against its inbound count: a day is  *)
(* marked only if the count has reached a limit the client had, and is not *)
(* marked only if it has not reached a limit the client had (or there was  *)
(* none).  A limit the client had is one of a configuration and a plan     *)
(* that have both been in force, if not always at one time: the worker     *)
(* reads the configuration long before the plan.  With a plan and limits   *)
(* that never change, the mark is there exactly if the count reached the   *)
(* limit, whatever ticks fail or overlap.                                  *)
LimitsHad(d) ==
  {LimitOf(i, Payer[d], k) : i \in 1..config, k \in 1..plan[Payer[d]]}

MarksFollowLimits ==
  \A d \in Days :
    LET n == usage[Inbound[d]]
    IN /\ crossed[d] => \E l \in LimitsHad(d) : Crosses(l, n)
       /\ ~crossed[d] /\ n > 0 => \E l \in LimitsHad(d) : ~Crosses(l, n)
=============================================================================
