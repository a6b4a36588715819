SPECIFICATION Spec
CONSTANTS
  Node = {n1, n2, n3, n4}
  Queue = {running_tasks, waiting_tasks}
  NULL = NULL
SYMMETRY Symmetry
INVARIANTS
  TypeOK
  RingsIntact
PROPERTIES
  ImplementsOrder
