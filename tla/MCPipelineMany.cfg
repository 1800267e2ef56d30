SPECIFICATION Spec
CONSTANTS
  c1 = c1 m1 = m1 m2 = m2 g1 = g1 g2 = g2 w1 = w1 w2 = w2
  NoTx = NoTx
  Chats = {c1}
  Messages = {m1, m2}
  Gateways = {g1, g2}
  Workers = {w1, w2}
  Txs <- AllTxs
  RowIds <- AllRows
  ChatOf <- OneChat
  Webhooks <- Overlapping
  Instance <- OwnHosts
  CountRead = "get"
  MaxFaults = 0
INVARIANTS TypeOK OneOpenBatch CountedOnce NeverLeftSealed
PROPERTIES ProcessedOnce
SYMMETRY Symmetry
CHECK_DEADLOCK FALSE
