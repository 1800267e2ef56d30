SPECIFICATION FairSpec
CONSTANTS
  h1 = h1 h2 = h2 e1 = e1 e2 = e2 b1 = b1 b2 = b2
  runbook = runbook handbook = handbook mapKey = mapKey plainKey = plainKey policyKey = policyKey
  r1 = r1 r2 = r2 r3 = r3 c1 = c1 c2 = c2 ann = ann bob = bob
  None = None
  NoTx = NoTx
  RowIds <- AllRows
  Txs <- AllTxs
  Handlers = {h1, h2}
  Evaluators = {e1, e2}
  Broadcasters = {b1, b2}
  Sops = {runbook, handbook}
  Keys = {mapKey, plainKey, policyKey}
  Builds = {r1, r2, r3}
  MaxRequests = 3
  MapKey = mapKey
  PolicyKey = policyKey
  SopFor <- TheSop
  Width <- SlotWidths
  Horizon = 1
  Campaigns = {c1, c2}
  Chats = {ann, bob}
  Audience <- TwoAndOne
  Drafts = {c2}
  TickSize = 1
  MaxChanges = 0
  MaxLosses = 0
  InitialRows <- Present
  Deployments <- OneBroadcaster
PROPERTY LargeCampaignsFinish
CHECK_DEADLOCK FALSE
