SPECIFICATION Spec
CONSTANTS
  NUM_OF_SLOTS = 4
  Requests = {0, 4, 12, 24000, 32764}
INVARIANTS TypeOK BlocksBacked QuicksortSorts DefragKeepsBlocks
PROPERTIES ImplementsHeap
CHECK_DEADLOCK FALSE
