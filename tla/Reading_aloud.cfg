SPECIFICATION MCSpec
CONSTANTS
  a = a
  b = b
  c = c
  None = None
  Phrases <- MCPhrases
  Blocks <- MCBlocks
  Cap = 2
  PrefetchAhead = 1
  Chunks = 2
  MaxUpsets = 1
  Sources = {s1, s2}
  MaxPresses = 2
  MaxSaves = 1
  MaxLines = 1
  MaxSockets = 2
  MaxEdits = 2
  MaxWire = 1
SYMMETRY ReadingSymmetry
CONSTRAINTS
  Bounded
  BoundedTwitch
  BoundedConfig
CHECK_DEADLOCK FALSE
INVARIANTS
  
  VoiceIsCurrent
  LineSpokenOnce
  OneListener
  ChatFollowsUser
  
  TroubleIsKnown
  
PROPERTIES
  SpeaksInOrder
