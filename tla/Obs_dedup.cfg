SPECIFICATION ObsSpec
CONSTANTS
 a = a
 b = b
 Texts <- Texts2
 Blank = blank
 OutboxMax = 3
 MaxFinals = 2
 MaxPublish = 3
 MaxTrouble = 0
 Settings <- OneSetting
INVARIANT DedupKeepsClear
CHECK_DEADLOCK FALSE
SYMMETRY Sym
ACTION_CONSTRAINT SameMode
