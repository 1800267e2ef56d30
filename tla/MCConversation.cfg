SPECIFICATION Spec
CONSTANTS
  o = o a1 = a1 a2 = a2 k1 = k1 hi = hi bye = bye
  Agents = {a1, a2}
  Owners = {o}
  NoOne = NoOne
  NoKey = NoKey
  NoTx = NoTx
  Requests <- Everything
  HardLock = FALSE
  Handlers = {h1, h2}
  Workers = {w1}
  Txs <- AllTxs
  RowIds <- RowNames
  MaxRequests = 3
INVARIANTS TypeOK AssigneeAgrees ClosedIsFree AuditExplains OneMessagePerKey
PROPERTIES RepliesByAssignee ImplementsDesk
CHECK_DEADLOCK FALSE
