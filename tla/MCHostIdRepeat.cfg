\* One host id, twice in a turn in which it already was a repeat.
CONSTANTS
  None = None
  Sessions = {s1}
  Facts = {}
  HostIds = {h1}
  Actions = {a1}
  Plain = {}
  Risks = {0}
  ReviewAt = 1
  BlockAt = 2
  Mode = "enforce"
  OnScanError = "allow"
  Unattended = {}
  IdReuse = 2
  HistoryLimit = 3
  SeenKeep = 6
  ReviewsKeep = 1
  MaxTurns = 2
  MaxReqs = 3
  MaxBatch = 1
  MaxKeys = 1
SPECIFICATION Spec
INVARIANT RequestsWellFormed
CHECK_DEADLOCK FALSE
