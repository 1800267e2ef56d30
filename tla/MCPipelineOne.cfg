SPECIFICATION FairSpec
CONSTANTS
  c1 = c1 m1 = m1 m2 = m2 g1 = g1 g2 = g2 w1 = w1 w2 = w2
  NoTx = NoTx
  Chats = {c1}
  Messages = {m1, m2}
  Gateways = {g1}
  Workers = {w1}
  Txs <- AllTxs
  RowIds <- AllRows
  ChatOf <- OneChat
  Webhooks <- Singly
  Instance <- OwnHosts
  CountRead = "get"
  MaxFaults = 1
INVARIANTS ReadyIsAsked AskedOnce
PROPERTIES EventuallyStored EventuallyProcessed
CHECK_DEADLOCK FALSE
