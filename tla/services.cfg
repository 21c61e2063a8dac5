SPECIFICATION Spec
CONSTANTS
  Slots = 2
  MaxClients = 3
  Publisher = {"p1", "p2"}
  Reader = {"r1"}
  MaxProducers = 2
  Caller = {"handler", "handling", "direct"}
  Operation = {"o1"}
  MaxSignals = 2
  Shapes <- MCShapes
  MaxDisables = 1
  MaxFaults = 1
  None = None
INVARIANTS
  PoolOwnsItsClients
  CompletedMeansQuiet
PROPERTIES
  Heals
CHECK_DEADLOCK FALSE
