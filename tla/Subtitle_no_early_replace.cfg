SPECIFICATION FairSpec
CONSTANTS
  MaxSequence = 2
  RecordsMax = 2
  t1 = t1
  Slots <- OneSlot
  SourceTtl = 1
  TranslationTtl = 1
  ShowSource = TRUE
  ShowTranslations = TRUE
  TranslationEnabled = TRUE
  AllowEarlyReplace = FALSE
  SyncExpiry = FALSE
  KeepTranslation = TRUE
  QueueBound = 1
PROPERTIES DeferredFinalSettles
