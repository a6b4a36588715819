SPECIFICATION Spec
CONSTANTS
  NUM_OF_SLOTS = 4
  Requests = {0, 4}
INVARIANTS
  MutexReleased
