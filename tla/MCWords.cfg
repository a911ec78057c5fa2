\* Arrays as large as the code's: words and marks, settings, restoring and macros.
SPECIFICATION MCSpec
CONSTANTS
  BufSize = 128
  KeyBufSize = 128
  Slack = 10
  Scenes <- WordScenes
  Keys <- AllKeys
  PassKeys <- AllPassKeys
  Calls <- AllCalls
  Locks <- AllLocks
  Shifts <- AllShifts
  Junks <- AllJunks
  Methods <- AllMethods
  Charsets <- AllCharsets
  OptionSets <- AllOptionSets
  Macros <- SomeMacros
  MaxPresses = 12
INVARIANTS
  ScreenMatchesBuffer
  WordsConsistent
  MarkTwiceUndoes
PROPERTIES
  KeepsLetters
  RestoreGivesKeys
  WordEndKeepsOrRestores
  MacroReplacesWord
