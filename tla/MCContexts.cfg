SPECIFICATION ContextsSpec
CONSTANTS
  Thread = {idle, t1, t2}
  Idle = idle
  Value = {zero, entry}
  Zero = zero
  Entry = entry
  NULL = NULL
SYMMETRY MCSymmetry
INVARIANTS ContextsTypeOK
PROPERTIES ImplementsThreads
