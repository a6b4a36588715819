SPECIFICATION SpecI
CONSTANTS
  Node = {n1, n2, n3}
  Queue = {running_tasks, waiting_tasks}
  Running = running_tasks
  Waiting = waiting_tasks
  NULL = NULL
INVARIANTS
  PredecessorLeadsBack
