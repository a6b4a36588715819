SPECIFICATION FairSpec
CONSTANTS
  Task = {idle, a, b}
  Idle = idle
  NULL = NULL
  DmaActions = {"DmaIsIdle", "DmaTransferedExternalTask"}
INVARIANTS
  TypeOK
  QueuesPartitionTasks
  ProcessorAgreesWithQueues
  ContextsBelongToTasks
  NothingInUseIsFree
  SwitchFindsTask
  CleanUpRequestsExact
PROPERTIES
  FinishedTasksOnlyLeave
  ReadyTaskRuns
