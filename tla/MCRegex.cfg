SPECIFICATION Spec
CONSTANTS
  Patterns <- MCPatterns
  Texts <- MCTexts
  Many = 7
  MaxCalls <- MCCalls
INVARIANTS
  MatchSound
  CapturesSound
