SPECIFICATION Spec
CONSTANTS
  n0 = n0
  n1 = n1
  n2 = n2
  relay = relay
  other = other
  Denom <- MCDenom
  BondDenom = 2
  PriceUnit = 2
  MaxBypassGas = 2
  Node = {n0, n1, n2}
  NodePrices <- MCNodePrices
  MsgType = {relay, other}
  Tx <- MCTx
  Submitted <- MempoolTx
  ParamSets <- MCParams
  MaxMempool = 2
INVARIANTS
  BypassPaysNothing
