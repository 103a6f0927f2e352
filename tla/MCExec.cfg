SPECIFICATION Spec
CONSTANTS
  g1 = g1
  g2 = g2
  Gens <- MCGens
  NoGen = NoGen
  Modes <- MCModes
CONSTRAINT BaseBound
INVARIANTS
  TrapsLeadHome
  TrapCountExact
  RootsBoundActivations
  GeneratorsExclusive
PROPERTIES
  CallRestoresBase
CHECK_DEADLOCK FALSE
