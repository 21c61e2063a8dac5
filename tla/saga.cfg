SPECIFICATION FairSpec
CONSTANTS
  NumSteps = 3
  Managers = {1, 2}
  Caller = 0
  Missing = {0, 2}
  MaxFaults = 1
INVARIANTS
  UndoesOnlyWhatWasDone
  StepsInOrder
  EndsAfterAllHaveRun
PROPERTIES
  SagaEnds
CHECK_DEADLOCK FALSE
