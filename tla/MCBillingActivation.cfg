SPECIFICATION FairSpec
CONSTANTS
  c1 = c1 c2 = c2 s1 = s1 s2 = s2 i1 = i1 i2 = i2 t1 = t1 t2 = t2
  None = None
  NoTx = NoTx
  Events <- AllEvents
  Clients = {c1, c2}
  KnownClients = {c1}
  Subs = {s1, s2}
  Invoices = {i1, i2}
  Payload <- OneActivation
  Statuses = {"active", "halted", "cancelled", "canceled", "none"}
  Txs = {t1, t2}
  RowIds <- AllRows
  Helpers = "clobbered"
  MaxFaults = 1
PROPERTY EventuallyTaken
CHECK_DEADLOCK FALSE
