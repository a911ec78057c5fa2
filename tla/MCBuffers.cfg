\* Small arrays: letters typed by one key or escaped, and every call in long texts.
SPECIFICATION MCSpec
CONSTANTS
  BufSize = 5
  KeyBufSize = 4
  Slack = 2
  Scenes <- BufferScenes
  Keys <- AllKeys
  PassKeys <- AllPassKeys
  Calls <- AllCalls
  Locks <- AllLocks
  Shifts <- AllShifts
  Junks <- AllJunks
  Methods <- AllMethods
  Charsets <- AllCharsets
  OptionSets <- AllOptionSets
  Macros <- NoMacros
  MaxPresses = 12
INVARIANTS
  ScreenMatchesBuffer
PROPERTIES
  KeepsLetters
  BufferSpec
  TypingSpec
