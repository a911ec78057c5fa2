\* Small arrays: restoring a word with more key strokes than letters.
SPECIFICATION MCSpec
CONSTANTS
  BufSize = 6
  KeyBufSize = 6
  Slack = 2
  Scenes <- RoomScenes
  Keys <- AllKeys
  PassKeys <- AllPassKeys
  Calls <- AllCalls
  Locks <- AllLocks
  Shifts <- AllShifts
  Junks <- AllJunks
  Methods <- AllMethods
  Charsets <- AllCharsets
  OptionSets <- AllOptionSets
  Macros <- NoMacros
  MaxPresses = 12
INVARIANTS
  CharsInRange
