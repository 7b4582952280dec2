SPECIFICATION MCSpec
CONSTANTS
  MaxGeneration = 3
  Impatient = FALSE
  MaxSequence = 2
  RecordsMax = 2
  Slots = {t1}
  SourceTtl = 1
  TranslationTtl = 1
  ShowSource = TRUE
  ShowTranslations = TRUE
  TranslationEnabled = TRUE
  AllowEarlyReplace = TRUE
  SyncExpiry = FALSE
  KeepTranslation = TRUE
  QueueBound = 1
INVARIANTS
  SessionKept
  
PROPERTIES
  StoppedStaysStopped
  Recovers
  
  DeferredFinalSettles
