---------------------------- MODULE MCBackoffice ----------------------------
(* Backoffice with small teams: SOPs with their alerts, the configuration, *)
(* releases, and a campaign of two chats beside one of a single chat.      *)
EXTENDS Backoffice

CONSTANTS h1, h2, e1, e2, b1, b2, runbook, handbook, mapKey, plainKey, policyKey,
          r1, r2, r3, c1, c2, ann, bob

Ask(op, on, to) == [op |-> op, on |-> on, to |-> to]

SopsAndAlerts ==
  [processes |-> {h1, e1, e2}, posts |-> 1, changes |-> FALSE, requests |->
     {Ask("update_sop", runbook, "archived"), Ask("put_config", mapKey, "unmapped")}]
SopsAlone ==
  [processes |-> {h1, h2}, posts |-> 3, changes |-> FALSE, requests |->
     {Ask("create_sop", handbook, "active"), Ask("update_sop", runbook, "active"),
      Ask("update_sop", handbook, "active"), Ask("start_run", runbook, "manual")}]
ConfigAlone ==
  [processes |-> {h1, h2}, posts |-> 3, changes |-> FALSE, requests |->
     {Ask("put_config", mapKey, "a"), Ask("put_config", plainKey, "a"),
      Ask("put_config", plainKey, "b")}]
ReleasesAlone ==
  [processes |-> {h1, h2}, posts |-> 3, changes |-> FALSE, requests |->
     {Ask("promote", r1, "current"), Ask("promote", r2, "current"),
      Ask("promote", r3, "current"), Ask("register", r3, "candidate")}]
Broadcasting ==
  [processes |-> {h1, b1, b2}, posts |-> 1, changes |-> TRUE, requests |->
     {Ask("put_config", policyKey, [DefaultPolicy EXCEPT !.consent = FALSE])}]

OneBroadcaster ==
  {[processes |-> {b1}, posts |-> 0, changes |-> FALSE, requests |-> {}]}
Teams == {SopsAndAlerts, SopsAlone, ConfigAlone, ReleasesAlone, Broadcasting}

Present ==
  SopRow(runbook) :> [current |-> 1, status |-> "active", by |-> 0]
  @@ VersionRow(runbook, 1) :> 0
  @@ ConfigRow(mapKey) :> [value |-> "mapped", trail |-> <<>>]
  @@ ConfigRow(policyKey) :> [value |-> DefaultPolicy, trail |-> <<>>]
  @@ ReleaseRow(r1) :> "current" @@ ReleaseRow(r2) :> "candidate"
  @@ PlanRow :> "growth"
  @@ OptInRow(ann) :> TRUE @@ OptInRow(bob) :> FALSE
  @@ CampaignRow(c1) :> "queued"
  @@ TargetRow(c1, ann) :> "pending" @@ TargetRow(c1, bob) :> "pending"

TwoAndOne == c1 :> {ann, bob} @@ c2 :> {ann}
SlotWidths == "dead" :> 1 @@ "meta" :> 2
TheSop == [type \in Types |-> runbook]
AllRows == OpsRows \cup AlertRows \cup CampaignRows
AllTxs == Handlers \cup Evaluators \cup Broadcasters
=============================================================================
