SPECIFICATION MCSpec
CONSTANTS
  MaxPages = 2
  MaxConnections = 2
  MaxMessages = 2
  MaxGeneration = 1
  Kinds = {"partial", "final"}
  a = a
  b = b
  Lines = {a, b, c}
  MaxClock = 3
  Limits = {0, 1, 2}
  Interval = 2
  LineTime = 3
  MaxAttempts = 2
  MaxEdits = 1
  CacheKeys = {a, b}
  Signatures = {a, b}
  Sizes = {1, 2}
  MaxLines = 2
  MaxSaves = 2
  MaxSessions = 2
SYMMETRY SessionSymmetry
CONSTRAINTS
  BoundedSession
  BoundedEngine
  BoundedGate
CHECK_DEADLOCK FALSE
INVARIANTS
  PartsAgree
  CacheIsSound
  LimitsHold
PROPERTIES
  StoppedIsSilent
