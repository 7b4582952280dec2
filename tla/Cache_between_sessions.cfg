SPECIFICATION EngineSpec
CONSTANTS
  CacheKeys = {k1, k2}
  Signatures = {s1, s2}
  Sizes = {1, 2}
  MaxLines = 2
  MaxSaves = 0
  MaxSessions = 2
SYMMETRY EngineSymmetry
CHECK_DEADLOCK FALSE
INVARIANTS
  SavedIsServed
