SPECIFICATION GameSpec
CONSTANTS
  Size = 3
  Win = 3
  Opening = 4
  EarlyDepth = 3
  LateDepth = 5
INVARIANTS
  StonesAlternate
  WinnerIsExact
  SearchObeysRules
  SearchIsExact
PROPERTIES
  AiDefends
