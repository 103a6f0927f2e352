SPECIFICATION HeapSpec
CONSTANTS
  Tables = {t1, t2, t3}
  Closures = {c1}
  Outers = {u1, u2}
  Threads = {th}
  Arrays = {a1}
  Weaks = {w1}
  Root = Root
  Delegate = Delegate
  Null = Null
  NFields = 1
  NLocals = 2
  Limits <- MCLimits
SYMMETRY Symmetry
INVARIANTS
  NoUseAfterFree
  RefCountsExact
  WeakRefsSound
  ChainComplete
  CloseFreesAll
  CollectExact
  ResurrectRestores
PROPERTIES
  ClosingKeepsValues
CHECK_DEADLOCK FALSE
