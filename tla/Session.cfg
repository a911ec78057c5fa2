SPECIFICATION Spec
CONSTANTS
  Windows = {w1, w2}
  App = App
  None = None
  MaxServers = 3
  Limits <- SomeLimits
  Files <- SomeFiles
SYMMETRY
  AnyWindow
INVARIANTS
  Agreed
  LaunchesEarned
CHECK_DEADLOCK FALSE
