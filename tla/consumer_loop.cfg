SPECIFICATION FairSpec
CONSTANTS
  Subs = {0, 1}
  NoChan = 0
  ConsumerPool = {1, 2}
  Pool <- MCPool
  SharedCrew = {0, 1}
  OwnCrew = {0}
INVARIANTS
  CyclesDoNotOverlap
  StoppedForGood
  CloseWaitsForWorkers
  NeverBlamedWhileConsuming
  HealthyMeansServed
PROPERTIES
  ComesBack
  StopEndsTheCall
CHECK_DEADLOCK FALSE
