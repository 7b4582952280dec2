SPECIFICATION MCSpec
CONSTANTS
  MaxSequence = 2
  RecordsMax = 1
  t1 = t1
  Slots <- OneSlot
  SourceTtl = 1
  TranslationTtl = 2
  ShowSource = TRUE
  ShowTranslations = TRUE
  TranslationEnabled = TRUE
  AllowEarlyReplace = TRUE
  SyncExpiry = FALSE
  KeepTranslation = TRUE
  QueueBound = 1
  MaxFrames = 2
  MaxNow = 3
  MaxTasks = 2
  MaxMishaps = 1
  ClientMax = 3
  Statuses = {"idle", "listening", "error"}
  MaxChanges = 4
  BeatsToHeal = 2
  a = a
  b = b
  Texts = {a, b}
  Blank = blank
  Settings <- ObsSettings
  OutboxMax = 3
  MaxFinals = 2
  MaxPublish = 3
  MaxTrouble = 1
SYMMETRY CaptionSymmetry
CONSTRAINTS
  BoundedObs
  BoundedHub
ACTION_CONSTRAINT SameMode
CHECK_DEADLOCK FALSE
INVARIANTS
  DeadlineHasTick
  OverlayCurrent
  BlocksInOrder
  ClearHitsItsCaption
  CaptionsSettle
  
  
  HeartbeatsHeal
