SPECIFICATION RuntimeFairSpec
CONSTANTS
  Task = {idle, io, m}
  Idle = idle
  Io = io
  m = m
  NULL = NULL
  DmaActions <- DmaJobs
  Modules <- OneModule
  Chunk = {c1, c2}
  WakesIo = FALSE
INVARIANTS
  RuntimeTypeOK
  TransferIsExpected
PROPERTIES
  UsesScheduler
  OnlyCompleteCodeRuns
  RequestIsServed
  ArrivedTaskIsTaken
