----------------------------- MODULE Backoffice -----------------------------
(***************************************************************************)
(* The operations team's API, the alert evaluator and the broadcasts over  *)
(* one database.  They meet in the rows of ops_runtime_config, which holds *)
(* the map from alerts to SOPs and the broadcast policy, and in the SOPs.  *)
(*                                                                         *)
(* Processes that do not share a row do not influence each other, so a     *)
(* behaviour has the processes and requests of one of the Deployments.     *)
(***************************************************************************)
EXTENDS Alerts, Campaigns

CONSTANTS
  InitialRows,      \* the rows there are at the start
  Deployments       \* [processes, requests, posts, changes]: posts, how many
                    \* requests are made; changes, whether consents, plans
                    \* and campaigns change

ASSUME RowsAre == RowIds = OpsRows \cup AlertRows \cup CampaignRows
ASSUME TxsAre == Txs = Handlers \cup Evaluators \cup Broadcasters
ASSUME ProcessesDiffer ==
  /\ Handlers \cap Evaluators = {} /\ Handlers \cap Broadcasters = {}
  /\ Evaluators \cap Broadcasters = {}
ASSUME DeploymentsAre ==
  \A d \in Deployments : d.processes \subseteq Txs /\ d.posts <= MaxRequests
ASSUME RequestsName ==
  \A d \in Deployments : \A q \in d.requests :
    /\ q.op \in {"create_sop", "update_sop", "start_run"} => q.on \in Sops
    /\ q.op \in {"create_sop", "update_sop"} => q.to \in STRING
    /\ q.op = "put_config" => q.on \in Keys
    /\ q.op \in {"register", "promote"} => q.on \in Builds

(* What is there at the start: SOPs with one version, no runs, and keys    *)
(* whose audit is empty.                                                   *)
ASSUME SopsAtStart ==
  \A s \in Sops :
    /\ SopRow(s) \in DOMAIN InitialRows =>
         /\ InitialRows[SopRow(s)] \in SopRecords
         /\ InitialRows[SopRow(s)].current = 1 /\ InitialRows[SopRow(s)].by = 0
    /\ \A v \in Versions :
         VersionRow(s, v) \in DOMAIN InitialRows <=> SopRow(s) \in DOMAIN InitialRows /\ v = 1
    /\ VersionRow(s, 1) \in DOMAIN InitialRows => InitialRows[VersionRow(s, 1)] = 0
ASSUME NoRunsAtStart == \A x \in DOMAIN InitialRows : x[1] # "run"
ASSUME TrailsStartEmpty ==
  \A k \in Keys : ConfigRow(k) \in DOMAIN InitialRows =>
                   InitialRows[ConfigRow(k)].trail = <<>>

(* Campaigns that are there at the start are queued, with pending targets. *)
ASSUME CampaignsAtStart ==
  \A c \in Campaigns :
    /\ CampaignRow(c) \in DOMAIN InitialRows => InitialRows[CampaignRow(c)] = "queued"
    /\ \A ch \in Chats :
         /\ TargetRow(c, ch) \in DOMAIN InitialRows =>
              CampaignRow(c) \in DOMAIN InitialRows /\ InitialRows[TargetRow(c, ch)] = "pending"
         /\ QueuedRow(c, ch) \notin DOMAIN InitialRows
ASSUME ReleasesAtStart ==
  \A b \in Builds : ReleaseRow(b) \in DOMAIN InitialRows =>
    InitialRows[ReleaseRow(b)] \in {"candidate", "current", "rolled_back"}

VARIABLE deployed

vars == <<dbVars, opsVars, alertVars, campaignVars, deployed>>

Init ==
  /\ db = [x \in RowIds |-> IF x \in DOMAIN InitialRows THEN InitialRows[x] ELSE None]
  /\ new = db
  /\ holder = [x \in RowIds |-> NoTx]
  /\ OpsInit /\ AlertsInit /\ CampaignsInit
  /\ deployed \in Deployments

Post(h, q) ==
  /\ h \in deployed.processes /\ posted < deployed.posts
  /\ Receive(h, q)
  /\ UNCHANGED <<alertVars, campaignVars, deployed>>

Handle(h) ==
  /\ Statement(h) \/ Commit(h) \/ Die(h)
  /\ UNCHANGED <<alertVars, campaignVars, deployed>>

Tick(e) ==
  /\ e \in deployed.processes
  /\ \/ \E spikes \in SUBSET Types : StartTick(e, spikes)
     \/ Evaluate(e) \/ EndTick(e) \/ LoseEvaluation(e)
  /\ UNCHANGED <<opsVars, campaignVars, deployed>>

Wait ==
  /\ deployed.processes \cap Evaluators # {}
  /\ TimePasses
  /\ UNCHANGED <<dbVars, opsVars, campaignVars, deployed>>

Broadcast(w) ==
  /\ w \in deployed.processes
  /\ BroadcastStep(w)
  /\ UNCHANGED <<opsVars, alertVars, deployed>>

BroadcastDies(w) ==
  /\ w \in deployed.processes
  /\ LoseBroadcast(w)
  /\ UNCHANGED <<opsVars, alertVars, deployed>>

OwnerActs ==
  /\ deployed.changes
  /\ \/ \E c \in Campaigns : CreateCampaign(c)
     \/ \E ch \in Chats, opted \in BOOLEAN : PutOptIn(ch, opted)
     \/ \E plan \in {"starter", "growth"} : ChangePlan(plan)
  /\ UNCHANGED <<opsVars, alertVars, deployed>>

Next ==
  \/ \E h \in Handlers : (\E q \in deployed.requests : Post(h, q)) \/ Handle(h)
  \/ \E e \in Evaluators : Tick(e)
  \/ \E w \in Broadcasters : Broadcast(w) \/ BroadcastDies(w)
  \/ Wait \/ OwnerActs

(* main() of the broadcast worker ticks for ever, whatever a tick ends     *)
(* with.                                                                   *)
Fairness == \A w \in Broadcasters : WF_vars(Broadcast(w))

Spec == Init /\ [][Next]_vars
FairSpec == Spec /\ Fairness

-----------------------------------------------------------------------------
(* Rows have the values their columns allow, and a process that rests or   *)
(* has no transaction holds no row.                                        *)
TypeOK ==
  /\ CampaignsTypeOK
  /\ UnlockedIsCommitted
  /\ \A b \in Builds :
       db[ReleaseRow(b)] \in {None, "candidate", "current", "rolled_back"}
  /\ \A s \in Sops : db[SopRow(s)] # None => db[SopRow(s)].current \in Versions
  /\ \A x \in RowIds :
       /\ holder[x] \in Txs \cup {NoTx}
       /\ holder[x] \in Handlers => desk[holder[x]].pc # "idle"
       /\ holder[x] \in Evaluators => eval[holder[x]].pc # "idle"
       /\ holder[x] \in Broadcasters => send[holder[x]].pc # "idle"

(* promote_release against the releases it found: OpsDesk.                 *)
DemotesWhatItFound == [][DemotesWhatItFoundStep]_vars

(* A broadcast against consent and plan: Campaigns.                        *)
ConsentRespected == [][ConsentRespectedStep]_vars

(* Every campaign that fits a tick's batch is completed, with all its      *)
(* targets, whatever ticks are lost.                                       *)
CampaignsFinish ==
  deployed.processes \cap Broadcasters # {} =>
    \A c \in Campaigns : Cardinality(Audience[c]) <= TickSize => Completes(c)

(* "Max wa_broadcast_targets rows processed per campaign tick"             *)
(* (shared/config.py): the batch size limits a tick, not a campaign; the   *)
(* targets that are left have their turn in a later tick.                  *)
LargeCampaignsFinish ==
  deployed.processes \cap Broadcasters # {} =>
    \A c \in Campaigns : Cardinality(Audience[c]) > TickSize => Completes(c)
=============================================================================
