SPECIFICATION FairSpec
CONSTANTS
  Shapes <- MCShapes
  Routes <- MCRoutes
  Window = 2
  MaxReqs = 3
  Word = 64
  MaxBytes = 24
INVARIANTS
  PartsBelongTogether
  AnswersInOrder
PROPERTY
  Answered
