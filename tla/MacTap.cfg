SPECIFICATION Spec
CONSTANTS
  Paces = {"waits", "any"}
  Fields = {"plain", "browser", "Spotlight"}
  MaxEvents = 5
  MaxAhead = 2
  MaxBacks = 2
  MaxLetters = 1
INVARIANTS
  InSync
  HotkeyRemembers
CHECK_DEADLOCK FALSE
