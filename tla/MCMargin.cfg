CONSTANTS
  NoPrice = NoPrice
  NoRate = NoRate
  NoLimit = NoLimit
  NoGroup = NoGroup
  NoClient = NoClient
  FeeBps = 1000
  SlippageBps = 1000
  HalfSpreadBps = 1000
  P = P
  O = O
  B = B
  Primary = P
  Rows <- MCRows
  Meta <- MCMeta
  Assets <- MCAssets
  InitialBal <- MCInitialBal
  Bars <- MCBars
  Ticks <- MCTicks
  Responses <- MCResponses
  Calendar <- MCCalendar
  Gaps = {0, 1}
  MaxPosition = 2
  MaxDailyLoss = 6000
  MaxEvents = 4
  MaxResponses = 2
SPECIFICATION Spec
INVARIANTS
  CashFollowsFills
  EntryIffMarginedPosition
PROPERTIES
  OnlyPollsExceedLimit
  LiquidationConservesEquity
