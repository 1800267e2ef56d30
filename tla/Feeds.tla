-------------------------------- MODULE Feeds --------------------------------
(***************************************************************************)
(* The processes that follow the tables others write: usage counters, the  *)
(* metrics rollup and the event poller over the same rows, whose           *)
(* transactions overlap.  They only read the rows, and none of them reads  *)
(* what another one writes, so they cannot influence each other: each      *)
(* behaviour has the processes of one of the Deployments.                  *)
(***************************************************************************)
EXTENDS UsageCursor, EventFeed

CONSTANT Deployments  \* sets of Counters, "rollup" and "feed"

VARIABLE deployed     \* the processes of this behaviour

feedsVars == <<arrivalVars, usageVars, rollupVars, feedVars, deployed>>

TypeOK == UsageTypeOK /\ FeedTypeOK /\ stored \subseteq Begun

Init ==
  /\ ArrivalsInit /\ UsageInit /\ RollupInit /\ FeedInit
  /\ deployed \in Deployments

Arrive(g) ==
  /\ Begin(g) \/ Store(g)
  /\ UNCHANGED <<usageVars, rollupVars, feedVars, deployed>>

CountUsage(w) ==
  /\ w \in deployed
  /\ UsageStep(w)
  /\ UNCHANGED <<arrivalVars, rollupVars, feedVars, deployed>>

ChangeTerms ==
  /\ deployed \cap Counters # {}
  /\ Reprice
  /\ UNCHANGED <<arrivalVars, rollupVars, feedVars, deployed>>

LoseTick(w) ==
  /\ w \in deployed
  /\ FailUsage(w)
  /\ UNCHANGED <<arrivalVars, rollupVars, feedVars, deployed>>

RollUp ==
  /\ "rollup" \in deployed
  /\ Recount \/ CommitRollup
  /\ UNCHANGED <<arrivalVars, usageVars, feedVars, deployed>>

LoseRollup ==
  /\ "rollup" \in deployed
  /\ FailRollup
  /\ UNCHANGED <<arrivalVars, usageVars, feedVars, deployed>>

Feed ==
  /\ "feed" \in deployed
  /\ FeedStep
  /\ UNCHANGED <<arrivalVars, usageVars, rollupVars, deployed>>

Poll ==
  /\ "feed" \in deployed
  /\ Fetch \/ \E r \in Rows : HandOut(r)
  /\ UNCHANGED <<arrivalVars, usageVars, rollupVars, deployed>>

Next ==
  \/ \E g \in Groups : Arrive(g)
  \/ \E w \in Counters : CountUsage(w) \/ LoseTick(w)
  \/ ChangeTerms \/ RollUp \/ LoseRollup \/ Feed

(* The loops of the workers and of the poller go on, whatever a tick ends  *)
(* with; a rollup that is begun again and again commits at last.           *)
Fairness ==
  /\ WF_feedsVars(Poll)
  /\ WF_feedsVars(RollUp)
  /\ SF_feedsVars("rollup" \in deployed /\ CommitRollup /\
                  UNCHANGED <<arrivalVars, usageVars, feedVars, deployed>>)

Spec == Init /\ [][Next]_feedsVars
FairSpec == Spec /\ Fairness

-----------------------------------------------------------------------------
(* bill_usage_daily against the messages: UsageCursor.                     *)
UsageExact == UsageExactFor(deployed \cap Counters)

(* What a socket hears, and what the poller passes over: EventFeed.        *)
FeedExact == HeardInOrder /\ SkipsOnlyLate

(* The rollups catch up with every message, also one that was committed    *)
(* late ("so late-arriving rows are reflected").                           *)
RollupCatchesUp ==
  "rollup" \in deployed =>
    <>[](\A b \in Buckets : metrics[b] = CountIn(stored, b))

(* The feed catches up: again and again no row is waiting that the poller  *)
(* could read, as long as somebody listens.  A poll that is cut by its     *)
(* LIMIT does not come back to the same rows for ever.                     *)
Waiting == {r \in stored : stamp[r] >= watermark} \ published

EveryRowFed == "feed" \in deployed => []<>(Waiting = {} \/ subscribed = {})
=============================================================================
