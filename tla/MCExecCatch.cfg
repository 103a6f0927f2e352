SPECIFICATION Spec
CONSTANTS
  g1 = g1
  g2 = g2
  Gens <- MCGens
  NoGen = NoGen
  Modes <- MCYieldInTry
PROPERTIES
  CallAlwaysRestoresBase
CHECK_DEADLOCK FALSE
