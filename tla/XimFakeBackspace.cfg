SPECIFICATION Spec
CONSTANTS
  Paces = {"any"}
  Methods = {"Send"}
  MaxKeys = 3
  MaxAhead = 2
  MaxBacks = 1
  MaxLetters = 1
  MaxPostpone = 50
INVARIANT
  FakeBackspace
CHECK_DEADLOCK FALSE
