CONSTANTS
  NoPrice = NoPrice
  NoRate = NoRate
  NoLimit = NoLimit
  NoGroup = NoGroup
  NoClient = NoClient
  FeeBps = 1000
  SlippageBps = 1000
  HalfSpreadBps = 1000
  E = E
  Primary = E
  Rows <- MCRows
  Meta <- MCMeta
  Assets <- MCAssets
  InitialBal <- MCInitialBal
  Bars <- MCBars
  Ticks <- MCTicks
  Responses <- MCResponses
  Calendar <- MCCalendar
  Gaps = {1}
  MaxPosition = NoLimit
  MaxDailyLoss = NoLimit
  MaxEvents = 4
  MaxResponses = 3
  Commands = {"Pause", "Resume", "DisableTrading", "EnableTrading", "CancelAll", "Flatten"}
  Checks = {"PauseCheck", "TradingDisabledCheck"}
SPECIFICATION LiveSpec
INVARIANTS
  CashFollowsFills
  NoOverdraft
  NoPastRangeAfterMove
  HeldToNextUpdate
PROPERTIES
  OcoCancelsSiblings
  OnlyWorkingOrdersFill
  PruningIsSound
  FlattenCloses
  HaltPlacesNothingNew
