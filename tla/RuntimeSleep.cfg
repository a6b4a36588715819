SPECIFICATION RuntimeSpec
CONSTANTS
  Task = {idle, io, m}
  Idle = idle
  Io = io
  m = m
  NULL = NULL
  DmaActions <- DmaJobs
  Modules <- OneModule
  Chunk = {c1, c2}
  WakesIo = FALSE
INVARIANT
  SleepsOnlyWhenAlone
