CONSTANTS
  NoPrice = NoPrice
  NoRate = NoRate
  FeeBps = 1000
  SlippageBps = 0
  HalfSpreadBps = 0
  P = P
  O = O
  E = E
  Instruments = {P, O, E}
  Meta <- MCMeta
  Quote = "USD"
  Cash = 30000
  Orders <- MCOrders
  Strategies = {a}
  Untagged = Untagged
  Prices = {10080, 20160}
  Curves <- MCCurves
  MaxFills = 4
  MaxSettlements = 1
  MaxSamples = 4
SPECIFICATION Spec
INVARIANTS
  LedgerExplainsEquity
  AttributionIsComplete
  MetricsAgree
CHECK_DEADLOCK FALSE
