SPECIFICATION FSpec
CONSTANTS
  k1 = k1
  k2 = k2
  k3 = k3
  k4 = k4
  k5 = k5
  v1 = v1
  v2 = v2
  Null = Null
  Keys <- MCKeys
  Vals <- MCVals
  Hash <- MCHash
  MinPower2 = 4
  InitSizes = {4, 8}
  Uses <- MCUses
INVARIANTS
  EveryKeyFound
  RehashFits
PROPERTIES
  ImplementsMap
  ForeachVisitsEachSlot
  ForeachEnds
