SPECIFICATION FairSpec
CONSTANTS
  MaxLines = 1
  Clients = {c1, c2}
  Nobody = Nobody
  Dict <- MCDict
  Keys = {0}
  MaxKeys = 2
INVARIANTS
  AnswersAreRight
  ServerSurvives
  TableIsRight
  ShownIsCurrent
PROPERTY AllAnswered
CHECK_DEADLOCK FALSE
