SPECIFICATION FairSpec
CONSTANTS
  Paces = {"waits", "oneAhead", "ahead", "any"}
  Methods = {"Send", "Forward"}
  MaxKeys = 4
  MaxAhead = 2
  MaxBacks = 2
  MaxLetters = 1
  MaxPostpone = 50
INVARIANTS
  OwesWord
  ForwardExact
  OffIsIdle
  NothingStuck
PROPERTIES
  TakesKeysAtOnce
  EveryKeyTaken
CHECK_DEADLOCK FALSE
