SPECIFICATION MCSpec
CONSTANTS
  Texts = {hello, world}
  NoText = Silence
  None = Nothing
  MaxSegments = 2
  MaxUpdates = 3
  Upsets <- Everything
  MaxUpsets = 1
  MaxJobs = 2
  QueueMax = 1
  MaxConcurrent = 1
  Lines = {l1}
  Keys = {k1}
INVARIANTS
  EachTextOnce
  NewestIsShown
  IdentityOfOneFinal
  LateBound
PROPERTIES
  PartialSettles
  QueuedJobSettles
