SPECIFICATION SpecToolsReturn
CONSTANTS
  r1 = r1
  r2 = r2
  s = s
  w = w
  Call = {r1, r2, s, w}
  ToolOf <- MCToolOf
  ReadOnly <- MCReadOnly
  Outcome = {ok, failed}
  TimedOut = TimedOut
  Missing = Missing
  NoResult = NoResult
  Batches <- MCBatches
INVARIANTS
  TypeOK
  WritersRunAlone
  SerialInOrder
  ReplayIsExact
PROPERTIES
  ImplementsBatchExecution
  ExecuteEnds
