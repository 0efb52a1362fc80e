SPECIFICATION FairSpec
CONSTANTS
  InFile <- MCInFile
  Registers = {"b2"}
  Flushers = {"flush"}
  LogBatch = 2
  MaxEdits = 1
  MaxCalls = 2
  MaxHups = 1
  MaxLines = 2
CHECK_DEADLOCK FALSE
INVARIANTS
  LinesWrittenOnce
PROPERTIES
  RegisteredStays
  TuningSurvives
  UntunedEditsLoaded
  LogDrains
