SPECIFICATION MCSpec
CONSTANTS
  MaxJobs = 3
  QueueMax = 2
  MaxConcurrent = 2
  Lines = {l1}
  Keys <- NoKeys
  MaxPages = 2
  MaxConnections = 2
  MaxMessages = 2
  MaxGeneration = 1
  Kinds = {"partial", "final"}
CONSTRAINT Bounded
INVARIANTS
  TypeOK
  JobsAccounted
  NoLostWakeup
  
PROPERTIES
  ImplementsPool
  DeliversInOrder
  LostOnlyWhenOvertaken
