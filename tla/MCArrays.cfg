SPECIFICATION FairSpec
CONSTANTS Elements = {1, 2}
          Starts <- MCStarts
          MaxLen = 8
          MaxWalk = 4
          MaxOps = 2
INVARIANTS
  EachElementOnce
  SortSorts
PROPERTIES
  SortEnds
CHECK_DEADLOCK FALSE
