SPECIFICATION SessionSpec
CONSTANTS
  MaxPages = 1
  MaxConnections = 1
  MaxMessages = 1
  MaxGeneration = 0
  Kinds = {"final"}
INVARIANTS
  StoppedIsReset
