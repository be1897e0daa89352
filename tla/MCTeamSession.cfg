SPECIFICATION Spec
CONSTANTS
  MaxWorkers <- MCMaxWorkers
  OrchActions <- MCOrchActions
  WorkerActions <- MCWorkerActions
  OrchSteps <- MCOrchSteps
  WorkerSteps = 1
  MaxRequests = 1
INVARIANTS
  TraceNests
  TreeHangsWorkers
  FlameTimesTheLast
  IdlePanelIsIdle
PROPERTIES
  EverySpanIsARun
  RunsEnd
CHECK_DEADLOCK FALSE
