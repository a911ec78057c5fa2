\* Typing and deleting, without restoring.
SPECIFICATION TypingSpec
CONSTANTS
  BufSize = 24
  KeyBufSize = 20
  Slack = 4
INVARIANTS
  CharsInRange
  RoomAfterPrepare
  KeysInRange
