SPECIFICATION Spec
CONSTANTS
  MaxLines = 2
  Letters = {0, 1, 2}
  Files <- MCFiles
  Strings <- MCStrings
INVARIANT FindsAllThatContain
CHECK_DEADLOCK FALSE
