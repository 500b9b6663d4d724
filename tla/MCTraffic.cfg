\* The hooks' instance and a command's over one log, a rotation after each
\* record, one write cut off and one reading.
CONSTANTS
  hooks = hooks
  command = command
  Instances = {hooks, command}
  MaxBytes = 2
  Limits = {1, 3}
  Chunks <- ChunkSizes
  Budgets <- ReadBudgets
  MaxScans = 2
  MaxFailures = 2
SYMMETRY Symmetric
SPECIFICATION Spec
INVARIANTS
  OwnLine
  HistoryTold
  ReadsTail
  ActionsTold
CHECK_DEADLOCK FALSE
