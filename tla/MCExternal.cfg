CONSTANTS
  MaxCalls = 2
  MaxFills = 2
  MaxNoise = 1
  LongLines = TRUE
  CanFinish = {TRUE, FALSE}
SPECIFICATION Spec
INVARIANTS
  AnswersBelongToTheirRequest
  LogIsToldOnce
  ReportMeansAnswered
  ControlsRunInTheirCallback
PROPERTY RunReturns
