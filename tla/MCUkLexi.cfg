\* Every valid syllable.
SPECIFICATION Spec
INVARIANTS
  MarkTablesExact
  StepsStayValid
  ToneOnMarkedLetter
