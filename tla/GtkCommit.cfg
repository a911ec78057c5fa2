SPECIFICATION FairSpec
CONSTANTS
  Paces = {"waits", "oneAhead", "ahead", "any"}
  MaxKeys = 4
  MaxAhead = 2
  MaxBacks = 2
  MaxLetters = 1
INVARIANTS
  OwesWord
  FakesCounted
  PauseComes
PROPERTIES
  TakesKeysAtOnce
  EveryKeyTaken
CHECK_DEADLOCK FALSE
