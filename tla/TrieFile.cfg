SPECIFICATION Spec
CONSTANTS
  MaxLines = 2
  Letters = {0, 1, 2}
  Files <- MCFiles
  Strings <- MCStrings
INVARIANTS
  TrieShape
  LoadedAsWritten
  FindsWhatContains
  AnswerIsTop
PROPERTY ImplementsDictionary
CHECK_DEADLOCK FALSE
