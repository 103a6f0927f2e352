SPECIFICATION HeapSpec
CONSTANTS
  Tables = {t1, t2}
  Closures = {c1}
  Outers = {u1}
  Threads = {}
  Arrays = {}
  Weaks = {}
  Root = Root
  Delegate = Delegate
  Null = Null
  NFields = 2
  NLocals = 2
  Limits <- MCCapture
INVARIANTS
  TheoryHolds
CHECK_DEADLOCK FALSE
