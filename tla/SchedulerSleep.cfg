SPECIFICATION FairSpec
CONSTANTS
  Task = {idle, a, b}
  Idle = idle
  NULL = NULL
  DmaActions = {"DmaIsIdle", "DmaTransferedExternalTask"}
PROPERTIES
  SleepingTaskIsWoken
