SPECIFICATION Spec
CONSTANTS
  o1 = o1
  o2 = o2
  o3 = o3
  o4 = o4
  Null = Null
  Objs <- MCObjs
  Hash <- MCHash
  InitSlots = 2
  MaxUInt = 15
  MaxRefs = 2
INVARIANTS
  TypeOK
  ChainsSound
  CountsMatchHost
PROPERTIES
  GrowthKeepsRoots
  ImplementsHostRefs
CHECK_DEADLOCK FALSE
