CONSTANTS
  Texts <- MCTexts
  Layouts <- MCLayouts
SPECIFICATION FrontSpec
INVARIANTS PositionsAreTrue TokensTile OperatorsGroup BlocksFollowIndentation
PROPERTY FrontEndEnds
CHECK_DEADLOCK FALSE
