------------------------------ MODULE Campaigns ------------------------------
(***************************************************************************)
(* Broadcasts: backend/apps/client_api/routes_broadcast.py creates         *)
(* campaigns and keeps the customers' consent;                             *)
(* backend/workers/broadcast_campaign_worker.py takes a queued campaign    *)
(* and makes TEMPLATE rows of wa_outbox of its targets, a tick in one      *)
(* transaction.  The policy, the client's plan and the consent are read    *)
(* without locks, each when the tick comes to it.                          *)
(*                                                                         *)
(* The targets of a campaign are chats of one client, each with a phone of *)
(* its own; the template is well-formed (build_template_outbox_body).      *)
(***************************************************************************)
EXTENDS OpsDesk, FiniteSets

CONSTANTS
  Broadcasters,     \* processes that run broadcast_campaign_worker
  Campaigns, Chats,
  Audience,         \* the chats each campaign is created for
  Drafts,           \* campaigns that are created in the course of a behaviour
  TickSize,         \* BROADCAST_WORKER_BATCH_SIZE
  PolicyKey,        \* m6.broadcast_policy; its value is a policy
  MaxChanges,       \* bound: consents and plans changed in one behaviour
  MaxLosses         \* bound: ticks lost half way

CampaignRow(c) == <<"campaign", c>>       \* its status
TargetRow(c, ch) == <<"target", c, ch>>   \* its status
QueuedRow(c, ch) == <<"outbox", c, ch>>   \* by the key broadcast:{c}:{ch}
OptInRow(ch) == <<"optin", ch>>           \* opted_in, by the chat's phone
PlanRow == <<"plan">>                     \* api_clients.entitlement_plan

CampaignRows ==
  {CampaignRow(c) : c \in Campaigns} \cup {PlanRow}
    \cup {TargetRow(c, ch) : c \in Campaigns, ch \in Chats}
    \cup {QueuedRow(c, ch) : c \in Campaigns, ch \in Chats}
    \cup {OptInRow(ch) : ch \in Chats}

(* Policies: which plans are blocked, and whether consent is needed.       *)
Policies == [blocked : SUBSET {"starter", "growth"}, consent : BOOLEAN]
DefaultPolicy == [blocked |-> {"starter"}, consent |-> TRUE]

ASSUME CampaignsAreNamed == None \notin Campaigns
ASSUME NoneIsNoStatus ==
  None \notin {"queued", "running", "completed", "pending", "enqueued", "skipped_plan",
               "skipped_no_optin", "PENDING"}
ASSUME TicksAreBounded == TickSize \in Nat /\ IsFiniteSet(Chats)

VARIABLES
  send,             \* the local state of every broadcaster
  changes,          \* consents and plans changed so far
  losses            \* ticks lost so far

campaignVars == <<send, changes, losses>>

(* agreed: the chats whose customer agreed, and allowed: whether the plan  *)
(* was allowed, at some time since the tick began.                         *)
Resting == [pc |-> "idle", policy |-> DefaultPolicy, campaign |-> None,
            left |-> {}, agreed |-> {}, allowed |-> FALSE]

CampaignsInit ==
  send = [w \in Broadcasters |-> Resting] /\ changes = 0 /\ losses = 0

Agreed == {ch \in Chats : db[OptInRow(ch)] = TRUE}
PlanAllows(policy, plan) == plan \notin policy.blocked
Unchanging == UNCHANGED <<changes, losses>>

-----------------------------------------------------------------------------
(* create_campaign: the campaign and its targets, all new, in one          *)
(* transaction.                                                            *)
CreateCampaign(c) ==
  LET rows == Both(Row(CampaignRow(c), "queued"),
                   [x \in {TargetRow(c, ch) : ch \in Audience[c]} |-> "pending"])
  IN /\ c \in Drafts /\ db[CampaignRow(c)] = None
     /\ db' = [x \in RowIds |-> IF x \in DOMAIN rows THEN rows[x] ELSE db[x]]
     /\ new' = [x \in RowIds |-> IF x \in DOMAIN rows THEN rows[x] ELSE new[x]]
     /\ UNCHANGED <<holder, campaignVars>>

(* put_marketing_opt_in: one upsert.                                       *)
PutOptIn(ch, opted) ==
  /\ changes < MaxChanges /\ changes' = changes + 1 /\ UNCHANGED losses
  /\ db[OptInRow(ch)] # opted
  /\ WriteNow(OptInRow(ch), opted)
  /\ send' = [w \in Broadcasters |->
                IF opted THEN [send[w] EXCEPT !.agreed = @ \cup {ch}] ELSE send[w]]

(* The billing webhooks change the plan.                                   *)
ChangePlan(plan) ==
  /\ changes < MaxChanges /\ changes' = changes + 1 /\ UNCHANGED losses
  /\ db[PlanRow] # plan
  /\ WriteNow(PlanRow, plan)
  /\ send' = [w \in Broadcasters |->
                [send[w] EXCEPT !.allowed = @ \/ PlanAllows(send[w].policy, plan)]]

-----------------------------------------------------------------------------
(* _load_m6_policy: what the key says, with defaults.                      *)
StartBroadcast(w) ==
  LET config == db[ConfigRow(PolicyKey)]
      policy == IF config = None THEN DefaultPolicy ELSE config.value
  IN /\ send[w].pc = "idle"
     /\ send' = [send EXCEPT ![w] =
                   [Resting EXCEPT !.pc = "pick", !.policy = policy, !.agreed = Agreed,
                                   !.allowed = PlanAllows(policy, db[PlanRow])]]
     /\ UNCHANGED <<dbVars, changes, losses>>

(* _pick_queued_campaign: FOR UPDATE SKIP LOCKED, the oldest; any here.    *)
PickableLocked == {c \in Campaigns : db[CampaignRow(c)] = "queued"}
Pickable == {c \in Campaigns : /\ db[CampaignRow(c)] = "queued"
                               /\ holder[CampaignRow(c)] = NoTx}

Pick(w) ==
  /\ send[w].pc = "pick"
  /\ IF Pickable = {}
       THEN send' = [send EXCEPT ![w] = Resting] /\ UNCHANGED dbVars
       ELSE \E c \in Pickable :
              /\ Write(w, Row(CampaignRow(c), "running"))
              /\ send' = [send EXCEPT ![w].pc = "targets", ![w].campaign = c]
  /\ Unchanging

(* The pending targets, up to the batch size, again without waiting.       *)
Pending(w, c) == {ch \in Chats : Sees(w, TargetRow(c, ch)) = "pending"}

SelectTargets(w) ==
  LET c == send[w].campaign
      free == {ch \in Pending(w, c) : holder[TargetRow(c, ch)] = NoTx}
  IN /\ send[w].pc = "targets"
     /\ \E S \in SUBSET free :
          /\ Cardinality(S) <= TickSize
          /\ S # free => Cardinality(S) = TickSize
          /\ Write(w, [x \in {TargetRow(c, ch) : ch \in S} |-> new[x]])
          /\ send' = [send EXCEPT ![w].pc = "plan", ![w].left = S]
     /\ Unchanging

(* _process_one_target.                                                    *)
Target(w) == CHOOSE ch \in send[w].left : TRUE

Settle(w, status) ==
  /\ Write(w, Row(TargetRow(send[w].campaign, Target(w)), status))
  /\ send' = [send EXCEPT ![w].pc = "plan", ![w].left = @ \ {Target(w)}]

CheckPlan(w) ==
  /\ send[w].pc = "plan" /\ send[w].left # {}
  /\ IF PlanAllows(send[w].policy, db[PlanRow])
       THEN send' = [send EXCEPT ![w].pc = "consent"] /\ UNCHANGED dbVars
       ELSE Settle(w, "skipped_plan")
  /\ Unchanging

ConsentsIfListed(w) == send[w].policy.consent => db[OptInRow(Target(w))] # None
Consents(w) == send[w].policy.consent => db[OptInRow(Target(w))] = TRUE

CheckConsent(w) ==
  /\ send[w].pc = "consent"
  /\ IF Consents(w)
       THEN send' = [send EXCEPT ![w].pc = "enqueue"] /\ UNCHANGED dbVars
       ELSE Settle(w, "skipped_no_optin")
  /\ Unchanging

(* INSERT ... ON CONFLICT (idempotency_key) DO NOTHING.                    *)
Enqueue(w) ==
  LET x == QueuedRow(send[w].campaign, Target(w))
  IN /\ send[w].pc = "enqueue" /\ CanLock(w, x)
     /\ Write(w, Both(Row(x, "PENDING"),
                   Row(TargetRow(send[w].campaign, Target(w)), "enqueued")))
     /\ send' = [send EXCEPT ![w].pc = "plan", ![w].left = @ \ {Target(w)}]
     /\ Unchanging

(* _maybe_finish_campaign.                                                 *)
FinishesAlways(w) == TRUE
FinishesBehind(w) == \A ch \in Chats : db[TargetRow(send[w].campaign, ch)] # "pending"
Finishes(w) == Pending(w, send[w].campaign) = {}

MaybeFinish(w) ==
  /\ send[w].pc = "plan" /\ send[w].left = {}
  /\ Write(w, IF Finishes(w) THEN Row(CampaignRow(send[w].campaign), "completed")
                             ELSE NoRow)
  /\ send' = [send EXCEPT ![w].pc = "commit"]
  /\ Unchanging

CommitBroadcast(w) ==
  /\ send[w].pc = "commit"
  /\ Publish(w)
  /\ send' = [send EXCEPT ![w] = Resting]
  /\ Unchanging

LoseBroadcast(w) ==
  /\ send[w].pc # "idle"
  /\ losses < MaxLosses /\ losses' = losses + 1 /\ UNCHANGED changes
  /\ Rollback(w)
  /\ send' = [send EXCEPT ![w] = Resting]

BroadcastStep(w) ==
  \/ StartBroadcast(w) \/ Pick(w) \/ SelectTargets(w) \/ CheckPlan(w)
  \/ CheckConsent(w) \/ Enqueue(w) \/ MaybeFinish(w) \/ CommitBroadcast(w)

-----------------------------------------------------------------------------
CampaignsTypeOK ==
  /\ \A c \in Campaigns :
       /\ db[CampaignRow(c)] \in {None, "queued", "running", "completed"}
       /\ \A ch \in Chats :
            db[TargetRow(c, ch)] \in {None, "pending", "enqueued", "skipped_plan",
                                     "skipped_no_optin"}
  /\ \A w \in Broadcasters :
       /\ Cardinality(send[w].left) <= TickSize
       /\ send[w].campaign # None => holder[CampaignRow(send[w].campaign)] = w

(* A target says "enqueued" if and only if its message is queued, once, in *)
(* the outbox, and a campaign that is completed has no target pending,     *)
(* whatever ticks overlap or are lost half way.                            *)
TargetsAddUp ==
  \A c \in Campaigns :
    /\ \A ch \in Chats :
         db[TargetRow(c, ch)] = "enqueued" <=> db[QueuedRow(c, ch)] # None
    /\ db[CampaignRow(c)] = "completed" =>
         \A ch \in Chats : db[TargetRow(c, ch)] # "pending"

(* No message is queued for a customer who had withdrawn, or for a plan    *)
(* that was blocked, all the time since the tick began: a change that was  *)
(* answered before is respected.                                           *)
ConsentRespectedStep ==
  \A w \in Broadcasters : CommitBroadcast(w) =>
    \A ch \in Chats :
      LET x == QueuedRow(send[w].campaign, ch)
      IN db[x] = None /\ db'[x] # None =>
           /\ send[w].policy.consent => ch \in send[w].agreed
           /\ send[w].allowed

(* A queued campaign is completed, and with it every target.               *)
Completes(c) ==
  [](db[CampaignRow(c)] = "queued" => <>(db[CampaignRow(c)] = "completed"))
=============================================================================
