SPECIFICATION FairSpec
CONSTANTS
  Stocks <- MCStocks
  Sales <- MCSales
  Forecasts <- MCForecasts
  Down = Down
  NoOutput = NoOutput
  None = None
  MaxRetries = 2
INVARIANTS ReviewIffDoubtful LearntIffApproved
PROPERTY AnalysisEnds
CHECK_DEADLOCK FALSE
