SPECIFICATION Spec
CONSTANT Sources <- MCSources
INVARIANTS
  TokensStandAlone
  NewlinesSeen
