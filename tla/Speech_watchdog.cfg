SPECIFICATION FairSpec
CONSTANTS
  a = a
  b = b
  c = c
  None = None
  Phrases <- MCPhrases
  Blocks <- MCBlocks
  Cap = 1
  PrefetchAhead = 1
  Chunks = 1
  MaxUpsets = 1
CONSTRAINT OneLine
CHECK_DEADLOCK FALSE
PROPERTIES
  WatchdogResumes
