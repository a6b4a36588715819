SPECIFICATION Spec
CONSTANTS
  Task = {idle, a, b}
  Idle = idle
  NULL = NULL
  DmaActions = {"DmaIsIdle", "DmaTransferedExternalTask"}
SYMMETRY Symmetry
PROPERTIES
  JoinWaits
