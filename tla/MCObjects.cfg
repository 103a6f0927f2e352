SPECIFICATION Spec
CONSTANTS Settings <- MCSettings
          MaxObjects = 4
          MaxHandles = 1
          MaxCalls = 3
INVARIANTS
  DelegatesAcyclic
  InstancesFit
  HandlesSound
  EndsCleanly
  ReadYourWrites
CHECK_DEADLOCK FALSE
